------------------------- MODULE ControlLoop_proof --------------------------
(***************************************************************************)
(* Proofs about ControlLoop and the MotionController it extends, for any   *)
(* rig: any axes of the three kinds, any commands of the surfaces, any     *)
(* test plans and queue.  First the motion controller by itself            *)
(* (MotionSafety), then the loop around it (Spec), which inherits what was *)
(* proved of it through Refines.                                           *)
(***************************************************************************)
EXTENDS ControlLoop, SequenceTheorems, TLAPS

USE DEF axisVars, flagVars, estopVars, edgeVars, testVars

\* MotionTypeOK, taken apart: the axes, the flags, the queue and the rest.
AxesType == state \in [Axes -> States]
HomedType == homed \in [Axes -> BOOLEAN]
FlagsType ==
    /\ needsRehome \in BOOLEAN
    /\ unparkDone \in BOOLEAN
    /\ estopInput \in BOOLEAN
    /\ estopTripped \in BOOLEAN
    /\ prevEstop \in BOOLEAN
    /\ sampled \in BOOLEAN
QueueType == cmdQueue \in Seq(Command) /\ Len(cmdQueue) <= QueueCap
TestType ==
    /\ testPending \in SUBSET Axes
    /\ testing \in SUBSET Axes
    /\ rt \in RtSteps

-----------------------------------------------------------------------------
(* What the operators that move the axes return. *)

\* Moved changes the axes it is given and no other.
LEMMA MovedType ==
    ASSUME AxesType, NEW S, NEW s \in States
    PROVE  Moved(S, s) \in [Axes -> States]
BY DEF AxesType, Moved

\* The commands leave every axis in a state it may have.
LEMMA CommandsType ==
    ASSUME AxesType, NEW a
    PROVE  /\ ParkAxes \in [Axes -> States]
           /\ UnparkAxes \in [Axes -> States]
           /\ SlackAxes \in [Axes -> States]
           /\ TensionAxes \in [Axes -> States]
           /\ EngageAxes(a) \in [Axes -> States]
           /\ ReleaseAxes(a) \in [Axes -> States]
<1>1. {"HOMING", "PARKED", "UNPARKING", "BLENDING", "PARKING"} \subseteq States
  BY DEF States
<1>2. EngageAxes(a) \in [Axes -> States]
  BY <1>1 DEF EngageAxes, AxesType
<1>3. QED
  BY <1>1, <1>2, MovedType DEF ParkAxes, UnparkAxes, SlackAxes, TensionAxes, ReleaseAxes, AxesType

\* A homing request leaves the axes and their flags in their types.
LEMMA HomingType ==
    ASSUME AxesType, HomedType, NEW a, StartHoming(a)
    PROVE  AxesType' /\ HomedType'
<1>1. CASE EstopHolds
  BY <1>1 DEF StartHoming, AxesType, HomedType
<1>2. CASE ~EstopHolds
  <2>1. AxesType'
    BY <1>2, MovedType DEF StartHoming, AxesType, States
  <2>2. homed' \in [Axes -> BOOLEAN]
    BY <1>2 DEF StartHoming, HomedType
  <2>3. QED BY <2>1, <2>2 DEF HomedType
<1>3. QED BY <1>1, <1>2

\* Where one cycle may take axis i, by the state it is in.
StepTo(i) ==
    LET guard == IF i \in BeltAxes THEN {"PARKED"} ELSE {}
        stale == IF i \in DevAxes THEN {} ELSE {"PARKING"}
    IN CASE state[i] = "HOMING"    -> {"HOMING", "PARKED"}
         [] state[i] = "UNPARKING" -> {"UNPARKING", "BLENDING"}
         [] state[i] = "BLENDING"  -> IF sampled THEN {"ESTOPPING"}
                                      ELSE {"BLENDING", "ONLINE"} \cup guard
         [] state[i] = "ONLINE"    -> IF sampled THEN {"ESTOPPING"}
                                      ELSE {"ONLINE"} \cup stale \cup guard
         [] state[i] = "PARKING"   -> {"PARKING", "PARKED"}
         [] state[i] = "ESTOPPING" -> IF sampled THEN {"ESTOPPING", "PARKED"}
                                      ELSE {"ESTOPPING"}
         [] OTHER                  -> {state[i]}

LEMMA StepsWithin ==
    ASSUME AxesType, StepAxes, NEW i \in Axes
    PROVE  state'[i] \in StepTo(i)
<1>1. PICK over \in SUBSET Timed, cut \in SUBSET Guarded :
         state' = [j \in Axes |-> Step(j, over, cut)]
  BY DEF StepAxes
<1>2. state'[i] = Step(i, over, cut)
  BY <1>1
<1>3. i \in cut => i \in BeltAxes /\ state[i] \in {"BLENDING", "ONLINE"}
  BY <1>1 DEF Guarded, In
<1>4. i \in over => \/ state[i] \in {"HOMING", "UNPARKING", "BLENDING", "PARKING"}
                    \/ state[i] = "ONLINE" /\ i \notin DevAxes
                    \/ state[i] = "ESTOPPING" /\ sampled
  BY <1>1 DEF Timed, In
<1>5. CASE sampled /\ state[i] \in {"BLENDING", "ONLINE"}
  BY <1>2, <1>5 DEF Step, StepTo
<1>6. CASE ~(sampled /\ state[i] \in {"BLENDING", "ONLINE"}) /\ i \in cut
  BY <1>2, <1>3, <1>6 DEF Step, StepTo
<1>7. CASE ~(sampled /\ state[i] \in {"BLENDING", "ONLINE"}) /\ i \notin cut /\ i \in over
  BY <1>2, <1>4, <1>7 DEF Step, StepTo, After
<1>8. CASE ~(sampled /\ state[i] \in {"BLENDING", "ONLINE"}) /\ i \notin cut /\ i \notin over
  BY <1>2, <1>8 DEF Step, StepTo, AxesType, States
<1>9. QED
  BY <1>5, <1>6, <1>7, <1>8

\* The steps of one axis in one cycle stay among its states.
LEMMA StepToType ==
    ASSUME AxesType, NEW i \in Axes
    PROVE  StepTo(i) \subseteq States
BY DEF AxesType, StepTo, States

-----------------------------------------------------------------------------
(* Typing: each part of MotionTypeOK is kept by every step.                *)

\* The commands of the queue, by what they change.
Pops == PopHoming \/ PopPark \/ PopUnpark \/ PopSlack \/ PopTension \/ PopEngage \/ PopRelease
AxisPops == PopPark \/ PopUnpark \/ PopSlack \/ PopTension \/ PopEngage \/ PopRelease

LEMMA AxesKept == AxesType /\ HomedType /\ [MotionNext]_motionVars => AxesType'
<1> SUFFICES ASSUME AxesType, HomedType, [MotionNext]_motionVars PROVE AxesType'
  OBVIOUS
<1>1. CASE PopHoming \/ LoopHome
  BY <1>1, HomingType DEF PopHoming, LoopHome
<1>2. CASE AxisPops
  BY <1>2, CommandsType
  DEF AxisPops, PopPark, PopUnpark, PopSlack, PopTension, PopEngage, PopRelease, AxesType
<1>3. CASE StartTest \/ EndTest \/ SampleEstop
  <2>1. "TESTING" \in States /\ "ESTOPPING" \in States
    BY DEF States
  <2>2. QED
    BY <1>3, <2>1, MovedType, CommandsType DEF StartTest, EndTest, SampleEstop, AxesType
<1>4. CASE StepAxes
  <2>1. \A i \in Axes : state'[i] \in States
    BY <1>4, StepsWithin, StepToType
  <2>2. PICK over, cut : state' = [i \in Axes |-> Step(i, over, cut)]
    BY <1>4 DEF StepAxes
  <2>3. QED
    BY <2>1, <2>2 DEF AxesType
<1>5. CASE AutoUnpark
  BY <1>5, CommandsType DEF AutoUnpark, AxesType
<1>6. CASE LoopPark \/ LoopFault \/ Configure \/ \E i \in Axes : ForceAxisParked(i)
  <2>1. "PARKED" \in States
    BY DEF States
  <2>2. QED
    BY <1>6, <2>1, CommandsType DEF LoopPark, LoopFault, Configure, ForceAxisParked, AxesType
<1>7. CASE UNCHANGED state
  BY <1>7 DEF AxesType
<1>8. QED
  BY <1>1, <1>2, <1>3, <1>4, <1>5, <1>6, <1>7
  DEF MotionNext, Cycle, Surfaces, Callers, AxisPops, motionVars, BeginCycle, EndDrain, NoTest,
      RunTest, Enqueue, RequestTest, PressEstop, ReleaseEstop, SetNeedsRehome, ClearTrip

LEMMA HomedKept == AxesType /\ HomedType /\ [MotionNext]_motionVars => HomedType'
<1> SUFFICES ASSUME AxesType, HomedType, [MotionNext]_motionVars PROVE HomedType'
  OBVIOUS
<1>1. CASE PopHoming \/ LoopHome
  BY <1>1, HomingType DEF PopHoming, LoopHome
<1>2. CASE StepAxes
  BY <1>2 DEF StepAxes, HomedType
<1>3. CASE Configure \/ \E i \in Axes : ForceAxisParked(i)
  BY <1>3 DEF Configure, ForceAxisParked, HomedType
<1>4. CASE UNCHANGED homed
  BY <1>4 DEF HomedType
<1>5. QED
  BY <1>1, <1>2, <1>3, <1>4
  DEF MotionNext, Cycle, Surfaces, Callers, motionVars, BeginCycle, EndDrain, NoTest,
      PopPark, PopUnpark, PopSlack, PopTension, PopEngage, PopRelease, StartTest, EndTest,
      SampleEstop, AutoUnpark, LoopPark, LoopFault,
      RunTest, Enqueue, RequestTest, PressEstop, ReleaseEstop, SetNeedsRehome, ClearTrip

LEMMA FlagsKept == FlagsType /\ [MotionNext]_motionVars => FlagsType'
<1> SUFFICES ASSUME FlagsType, [MotionNext]_motionVars PROVE FlagsType'
  OBVIOUS
<1> USE DEF FlagsType
<1>1. CASE PopHoming \/ LoopHome
  BY <1>1 DEF PopHoming, LoopHome, StartHoming, Pop
<1>2. CASE SampleEstop
  BY <1>2 DEF SampleEstop, EstopHolds
<1>3. CASE AutoUnpark
  BY <1>3 DEF AutoUnpark
<1>4. CASE PressEstop \/ ReleaseEstop \/ ClearTrip
  BY <1>4 DEF PressEstop, ReleaseEstop, ClearTrip
<1>5. CASE LoopFault \/ SetNeedsRehome \/ Configure \/ \E i \in Axes : ForceAxisParked(i)
  BY <1>5 DEF LoopFault, SetNeedsRehome, Configure, ForceAxisParked
<1>6. CASE UNCHANGED <<flagVars, estopVars, edgeVars>>
  BY <1>6
<1>7. QED
  BY <1>1, <1>2, <1>3, <1>4, <1>5, <1>6
  DEF MotionNext, Cycle, Surfaces, Callers, motionVars, BeginCycle, EndDrain, NoTest, Pop,
      PopPark, PopUnpark, PopSlack, PopTension, PopEngage, PopRelease, StartTest, EndTest,
      StepAxes, LoopPark, RunTest, Enqueue, RequestTest

LEMMA QueueKept == QueueType /\ [MotionNext]_motionVars => QueueType'
<1> SUFFICES ASSUME QueueType, [MotionNext]_motionVars PROVE QueueType'
  OBVIOUS
<1> USE DEF QueueType
<1>1. CASE Pops
  <2>1. cmdQueue # <<>> /\ cmdQueue' = Tail(cmdQueue)
    BY <1>1 DEF Pops, PopHoming, PopPark, PopUnpark, PopSlack, PopTension, PopEngage,
                PopRelease, Pop
  <2>2. Tail(cmdQueue) \in Seq(Command) /\ Len(Tail(cmdQueue)) = Len(cmdQueue) - 1
    BY <2>1
  <2>3. QED
    BY <2>1, <2>2, QueueAssumption
<1>2. ASSUME NEW c \in Commands, Enqueue(c) PROVE QueueType'
  <2>1. c \in Command
    BY CommandAssumption
  <2>2. Append(cmdQueue, c) \in Seq(Command) /\ Len(Append(cmdQueue, c)) = Len(cmdQueue) + 1
    BY <2>1
  <2>3. QED
    BY <1>2, <2>2, QueueAssumption DEF Enqueue
<1>3. CASE Configure
  BY <1>3, QueueAssumption DEF Configure
<1>4. CASE UNCHANGED cmdQueue
  BY <1>4
<1>5. QED
  BY <1>1, <1>2, <1>3, <1>4
  DEF MotionNext, Cycle, Surfaces, Callers, Pops, motionVars, BeginCycle, EndDrain, NoTest,
      RunTest, RequestTest, PressEstop, ReleaseEstop, SetNeedsRehome, ClearTrip, StartTest,
      EndTest, SampleEstop, StepAxes, AutoUnpark, LoopHome, LoopPark, LoopFault, ForceAxisParked

LEMMA TestKept == TestType /\ [MotionNext]_motionVars => TestType'
<1> SUFFICES ASSUME TestType, [MotionNext]_motionVars PROVE TestType'
  OBVIOUS
<1> USE DEF TestType
<1>1. CASE StartTest \/ NoTest \/ RunTest \/ EndTest
  BY <1>1 DEF StartTest, NoTest, RunTest, EndTest, Service, RtStep, RtSteps
<1>2. CASE BeginCycle \/ EndDrain \/ SampleEstop \/ StepAxes \/ AutoUnpark
  BY <1>2 DEF BeginCycle, EndDrain, SampleEstop, StepAxes, AutoUnpark, RtStep, RtSteps
<1>3. ASSUME NEW plan \in TestPlans, RequestTest(plan) PROVE TestType'
  BY <1>3, PlanAssumption DEF RequestTest
<1>4. CASE UNCHANGED <<testVars, rt>>
  BY <1>4
<1>5. QED
  BY <1>1, <1>2, <1>3, <1>4
  DEF MotionNext, Cycle, Surfaces, Callers, motionVars, Pop, PopHoming, PopPark, PopUnpark,
      PopSlack, PopTension, PopEngage, PopRelease, Enqueue, PressEstop, ReleaseEstop,
      SetNeedsRehome, ClearTrip, LoopHome, LoopPark, LoopFault, ForceAxisParked, Configure

TypeParts == AxesType /\ HomedType /\ FlagsType /\ QueueType /\ TestType

LEMMA TypePartsInit == MotionInit => TypeParts
<1> SUFFICES ASSUME MotionInit PROVE TypeParts
  OBVIOUS
<1>1. AxesType /\ TestType
  BY DEF MotionInit, AxesType, TestType, States, RtSteps
<1>2. HomedType /\ FlagsType
  BY DEF MotionInit, HomedType, FlagsType
<1>3. QueueType
  BY QueueAssumption DEF MotionInit, QueueType
<1>4. QED BY <1>1, <1>2, <1>3 DEF TypeParts

LEMMA TypePartsKept == TypeParts /\ [MotionNext]_motionVars => TypeParts'
BY AxesKept, HomedKept, FlagsKept, QueueKept, TestKept DEF TypeParts

LEMMA TypeIsItsParts == TypeParts <=> MotionTypeOK
BY DEF TypeParts, AxesType, HomedType, FlagsType, QueueType, TestType, MotionTypeOK

\* Every variable keeps its type, and the queue of commands never holds more
\* than it has room for.
THEOREM MotionTyping == MotionSafety => []MotionTypeOK
BY TypePartsInit, TypePartsKept, TypeIsItsParts, PTL DEF MotionSafety

-----------------------------------------------------------------------------
(* The safety invariants.  They are inductive together: that only position *)
(* axes unpark is what makes an axis that enters its blend homed, and what *)
(* keeps a belt or a device from blending under a sampled e-stop.          *)

MotionInv == LiveIsHomed /\ KindKeepsToItsStates /\ StoppedUnderEstop

LEMMA InvInit == MotionInit => MotionInv
<1> SUFFICES ASSUME MotionInit PROVE MotionInv
  OBVIOUS
<1>1. \A i \in Axes : state[i] = "PARKED"
  BY DEF MotionInit
<1>2. sampled = FALSE
  BY DEF MotionInit
<1>3. LiveIsHomed
  BY <1>1 DEF LiveIsHomed, PosLive, DevLive, Axes
<1>4. KindKeepsToItsStates
  BY <1>1 DEF KindKeepsToItsStates, In
<1>5. StoppedUnderEstop
  BY <1>2 DEF StoppedUnderEstop
<1>6. QED BY <1>3, <1>4, <1>5 DEF MotionInv

\* A homing takes position axes and devices only, and no other axis moves.
LEMMA HomingMoves ==
    ASSUME AxesType, NEW a, StartHoming(a), NEW i \in Axes
    PROVE  \/ state'[i] = state[i]
           \/ i \notin BeltAxes /\ state'[i] = "HOMING"
BY KindAssumption DEF AxesType, StartHoming, Homers, Moved

LEMMA KindKept ==
    TypeParts /\ KindKeepsToItsStates /\ [MotionNext]_motionVars => KindKeepsToItsStates'
<1> SUFFICES ASSUME TypeParts, KindKeepsToItsStates, [MotionNext]_motionVars
             PROVE  KindKeepsToItsStates'
  OBVIOUS
<1> USE KindAssumption DEF KindKeepsToItsStates, In, TypeParts, AxesType
<1>1. CASE PopHoming \/ LoopHome
  <2>1. UNCHANGED testVars
    BY <1>1 DEF PopHoming, LoopHome, Pop
  <2>2. \A i \in Axes : \/ state'[i] = state[i]
                        \/ i \notin BeltAxes /\ state'[i] = "HOMING"
    BY <1>1, HomingMoves DEF PopHoming, LoopHome
  <2>3. QED BY <2>1, <2>2
<1>2. CASE PopPark \/ PopUnpark \/ PopSlack \/ PopTension
  BY <1>2 DEF PopPark, PopUnpark, PopSlack, PopTension, Pop, Moved,
              ParkAxes, UnparkAxes, SlackAxes, TensionAxes
<1>3. CASE PopEngage
  BY <1>3 DEF PopEngage, Pop, EngageAxes, Named
<1>4. CASE PopRelease
  BY <1>4 DEF PopRelease, Pop, ReleaseAxes, Moved
<1>5. CASE StartTest
  BY <1>5 DEF StartTest, TestRails, Moved
<1>6. CASE EndTest
  BY <1>6 DEF EndTest, ParkAxes, Moved
<1>7. CASE SampleEstop
  BY <1>7 DEF SampleEstop, Moved
<1>8. CASE StepAxes
  <2>1. \A i \in Axes : state'[i] \in StepTo(i)
    BY <1>8, StepsWithin
  <2>2. \A i \in Axes : /\ state'[i] = "HOMING" => state[i] = "HOMING"
                        /\ state'[i] = "UNPARKING" => state[i] = "UNPARKING"
                        /\ state'[i] = "TESTING" => state[i] = "TESTING"
    BY <2>1 DEF StepTo, States
  <2>3. testing' = testing
    BY <1>8 DEF StepAxes
  <2>4. QED BY <2>2, <2>3
<1>9. CASE AutoUnpark
  BY <1>9 DEF AutoUnpark, UnparkAxes, Moved
<1>10. CASE LoopPark \/ LoopFault \/ Configure \/ \E i \in Axes : ForceAxisParked(i)
  BY <1>10 DEF LoopPark, LoopFault, Configure, ForceAxisParked, ParkAxes, Moved
<1>11. CASE UNCHANGED <<state, testing>>
  BY <1>11
<1>12. QED
  BY <1>1, <1>2, <1>3, <1>4, <1>5, <1>6, <1>7, <1>8, <1>9, <1>10, <1>11
  DEF MotionNext, Cycle, Surfaces, Callers, motionVars, BeginCycle, EndDrain, NoTest,
      RunTest, Enqueue, RequestTest, PressEstop, ReleaseEstop, SetNeedsRehome, ClearTrip

LEMMA LiveKept ==
    TypeParts /\ MotionInv /\ [MotionNext]_motionVars => LiveIsHomed'
<1> SUFFICES ASSUME TypeParts, LiveIsHomed, KindKeepsToItsStates, [MotionNext]_motionVars
             PROVE  LiveIsHomed'
  BY DEF MotionInv
<1> USE KindAssumption DEF LiveIsHomed, In, TypeParts, AxesType, HomedType, PosLive, DevLive, Axes
<1>1. CASE PopHoming \/ LoopHome
  BY <1>1 DEF PopHoming, LoopHome, StartHoming, Homers, Moved, Pop
<1>2. CASE PopPark \/ PopUnpark \/ PopSlack \/ PopTension
  BY <1>2 DEF PopPark, PopUnpark, PopSlack, PopTension, Pop, Moved,
              ParkAxes, UnparkAxes, SlackAxes, TensionAxes, KindKeepsToItsStates
<1>3. CASE PopEngage
  BY <1>3 DEF PopEngage, Pop, EngageAxes, Named
<1>4. CASE PopRelease
  BY <1>4 DEF PopRelease, Pop, ReleaseAxes, Moved
<1>5. CASE StartTest
  BY <1>5 DEF StartTest, TestRails, Moved
<1>6. CASE EndTest
  BY <1>6 DEF EndTest, ParkAxes, Moved, KindKeepsToItsStates
<1>7. CASE SampleEstop
  BY <1>7 DEF SampleEstop, Moved
<1>8. CASE StepAxes
  <2>1. \A i \in Axes : state'[i] \in StepTo(i)
    BY <1>8, StepsWithin
  <2>2. \A i \in PosAxes : state'[i] \in PosLive => state[i] \in PosLive
    BY <2>1 DEF StepTo
  <2>3. \A i \in DevAxes : state'[i] \in DevLive => state[i] \in DevLive
    BY <2>1 DEF StepTo, KindKeepsToItsStates
  <2>4. \A i \in Axes : homed[i] => homed'[i]
    BY <1>8 DEF StepAxes
  <2>5. QED BY <2>2, <2>3, <2>4
<1>9. CASE AutoUnpark
  BY <1>9 DEF AutoUnpark, UnparkAxes, Moved
<1>10. CASE LoopPark \/ LoopFault \/ Configure \/ \E i \in Axes : ForceAxisParked(i)
  BY <1>10 DEF LoopPark, LoopFault, Configure, ForceAxisParked, ParkAxes, Moved,
               KindKeepsToItsStates
<1>11. CASE UNCHANGED <<state, homed>>
  BY <1>11
<1>12. QED
  BY <1>1, <1>2, <1>3, <1>4, <1>5, <1>6, <1>7, <1>8, <1>9, <1>10, <1>11
  DEF MotionNext, Cycle, Surfaces, Callers, motionVars, BeginCycle, EndDrain, NoTest,
      RunTest, Enqueue, RequestTest, PressEstop, ReleaseEstop, SetNeedsRehome, ClearTrip

LEMMA StoppedKept ==
    TypeParts /\ MotionInv /\ [MotionNext]_motionVars => StoppedUnderEstop'
<1> SUFFICES ASSUME TypeParts, KindKeepsToItsStates, StoppedUnderEstop,
                    [MotionNext]_motionVars
             PROVE  StoppedUnderEstop'
  BY DEF MotionInv
<1> USE DEF StoppedUnderEstop, In, TypeParts, AxesType
\* Only a cycle that has stepped its axes, or rests, is of concern.
<1>1. CASE rt' \notin {"unpark", "idle"}
  BY <1>1
<1>2. CASE StepAxes
  <2>1. \A i \in Axes : state'[i] \in StepTo(i)
    BY <1>2, StepsWithin
  <2>2. sampled' = sampled
    BY <1>2 DEF StepAxes
  <2>3. sampled => \A i \in Axes : /\ state'[i] # "ONLINE"
                                   /\ state'[i] = "BLENDING" => state[i] = "UNPARKING"
    BY <2>1 DEF StepTo
  <2>4. QED BY <2>2, <2>3 DEF KindKeepsToItsStates
<1>3. CASE AutoUnpark
  <2>1. rt = "unpark" /\ sampled' = sampled
    BY <1>3 DEF AutoUnpark, RtStep
  <2>2. \A i \in Axes : state'[i] = state[i] \/ state'[i] = "UNPARKING"
    BY <1>3 DEF AutoUnpark, UnparkAxes, Moved
  <2>3. QED BY <2>1, <2>2
<1>4. CASE Callers
  <2>1. rt' = rt /\ sampled' = sampled
    BY <1>4 DEF Callers, LoopHome, LoopPark, LoopFault, SetNeedsRehome, Configure, ClearTrip,
                ForceAxisParked
  <2>2. \A i \in Axes : state'[i] = state[i] \/ state'[i] \in {"HOMING", "PARKING", "PARKED"}
    <3>1. CASE LoopHome
      BY <3>1, HomingMoves DEF LoopHome
    <3>2. CASE LoopPark \/ LoopFault \/ Configure \/ \E i \in Axes : ForceAxisParked(i)
      BY <3>2 DEF LoopPark, LoopFault, ParkAxes, Moved, Configure, ForceAxisParked
    <3>3. CASE UNCHANGED state
      BY <3>3
    <3>4. QED BY <1>4, <3>1, <3>2, <3>3 DEF Callers, SetNeedsRehome, ClearTrip
  <2>3. QED BY <2>1, <2>2
<1>5. CASE Surfaces \/ UNCHANGED motionVars
  BY <1>5 DEF Surfaces, Enqueue, RequestTest, PressEstop, ReleaseEstop, motionVars
<1>6. CASE Cycle /\ ~StepAxes /\ ~AutoUnpark
  <2>1. rt' \notin {"unpark", "idle"}
    BY <1>6 DEF Cycle, BeginCycle, EndDrain, StartTest, NoTest, RunTest, EndTest, Service,
                SampleEstop, RtStep, Pop, PopHoming, PopPark, PopUnpark, PopSlack, PopTension,
                PopEngage, PopRelease
  <2>2. QED BY <2>1, <1>1
<1>7. QED
  BY <1>2, <1>3, <1>4, <1>5, <1>6 DEF MotionNext

LEMMA MotionInvKept ==
    TypeParts /\ MotionInv /\ [MotionNext]_motionVars => MotionInv'
BY KindKept, LiveKept, StoppedKept DEF MotionInv

LEMMA MotionInvHolds == MotionSafety => [](TypeParts /\ MotionInv)
<1>1. MotionInit => TypeParts /\ MotionInv
  BY TypePartsInit, InvInit
<1>2. (TypeParts /\ MotionInv) /\ [MotionNext]_motionVars => (TypeParts /\ MotionInv)'
  BY TypePartsKept, MotionInvKept
<1>3. QED BY <1>1, <1>2, PTL DEF MotionSafety

\* No axis moves in a frame it does not have.
THEOREM LiveAreHomed == MotionSafety => []LiveIsHomed
<1>1. TypeParts /\ MotionInv => LiveIsHomed
  BY DEF MotionInv
<1>2. QED BY <1>1, MotionInvHolds, PTL

\* Belts and devices keep out of the lifecycle of the rig, and an axis tests
\* only as one of those the running test excites.
THEOREM KindsKeepToTheirStates == MotionSafety => []KindKeepsToItsStates
<1>1. TypeParts /\ MotionInv => KindKeepsToItsStates
  BY DEF MotionInv
<1>2. QED BY <1>1, MotionInvHolds, PTL

\* After a cycle that sampled the e-stop nothing tracks, and no belt or device
\* holds a force, even when the cycle saw no rising edge.
THEOREM AllStoppedUnderEstop == MotionSafety => []StoppedUnderEstop
<1>1. TypeParts /\ MotionInv => StoppedUnderEstop
  BY DEF MotionInv
<1>2. QED BY <1>1, MotionInvHolds, PTL

-----------------------------------------------------------------------------
(* The action properties.                                                  *)

LEMMA LowersUnderEstop ==
    ASSUME TypeParts, [MotionNext]_motionVars, EstopHolds, NEW i \in Axes
    PROVE  state'[i] = state[i] \/ Height(state'[i]) < Height(state[i])
<1> USE DEF TypeParts, AxesType
<1>1. state[i] \in States
  OBVIOUS
<1>2. /\ Height("PARKED") = 0 /\ Height("ESTOPPING") = 1 /\ Height("PARKING") = 2
      /\ Height("ONLINE") = 3 /\ Height("BLENDING") = 4 /\ Height("UNPARKING") = 5
      /\ Height("HOMING") = 6 /\ Height("TESTING") = 6
  BY DEF Height
\* Refused under the e-stop.
<1>3. CASE PopHoming \/ LoopHome \/ PopUnpark \/ PopTension \/ PopEngage \/ AutoUnpark \/ StartTest
  BY <1>3 DEF PopHoming, LoopHome, StartHoming, PopUnpark, PopTension, PopEngage, AutoUnpark,
              UnparkAxes, TensionAxes, EngageAxes, StartTest, TestRails
\* Honoured: each parks what it moves.
<1>4. CASE PopPark \/ PopSlack \/ PopRelease \/ EndTest \/ LoopPark \/ LoopFault
  BY <1>2, <1>4 DEF PopPark, PopSlack, PopRelease, EndTest, LoopPark, LoopFault,
              ParkAxes, SlackAxes, ReleaseAxes, Moved, In
<1>5. CASE SampleEstop
  BY <1>1, <1>2, <1>5 DEF SampleEstop, Moved, In, States
<1>6. CASE StepAxes
  <2>1. state'[i] \in StepTo(i)
    BY <1>6, StepsWithin
  <2>2. QED BY <1>2, <2>1 DEF StepTo
<1>7. CASE Configure \/ \E j \in Axes : ForceAxisParked(j)
  <2>1. state'[i] = "PARKED" \/ state'[i] = state[i]
    BY <1>7 DEF Configure, ForceAxisParked
  <2>2. QED BY <1>1, <1>2, <2>1 DEF States
<1>8. CASE UNCHANGED state
  BY <1>8
<1>9. QED
  BY <1>3, <1>4, <1>5, <1>6, <1>7, <1>8
  DEF MotionNext, Cycle, Surfaces, Callers, motionVars, BeginCycle, EndDrain, NoTest,
      RunTest, Enqueue, RequestTest, PressEstop, ReleaseEstop, SetNeedsRehome, ClearTrip

\* Nothing moves after an e-stop until the drives are re-initialized, and what
\* moves only comes down: the measure that an e-stop settles by.
THEOREM NothingStarts == MotionSafety => NothingStartsUnderEstop
<1>1. TypeParts /\ [MotionNext]_motionVars =>
        [EstopHolds => \A i \in Axes :
           state'[i] = state[i] \/ Height(state'[i]) < Height(state[i])]_motionVars
  BY LowersUnderEstop
<1>2. QED
  BY <1>1, TypePartsInit, TypePartsKept, PTL DEF MotionSafety, NothingStartsUnderEstop

\* The command at the head of the queue is for the whole rig, unless of a type
\* that may name one axis.
LEMMA HeadCommand ==
    ASSUME QueueType, cmdQueue # <<>>
    PROVE  /\ Head(cmdQueue).type \in CommandTypes
           /\ Head(cmdQueue).type \notin Targeted => Head(cmdQueue).axis = AllAxes
<1>1. Head(cmdQueue) \in Command
  BY DEF QueueType
<1>2. QED
  BY <1>1 DEF Command, CommandTypes, Targeted

Trigger(i) ==
    /\ i \in BeltAxes => Executes("TensionBelts", i)
    /\ i \in DevAxes => \/ Executes("EngageDevice", i)
                        \/ Executes("StartHoming", i) /\ Head(cmdQueue).axis # AllAxes

LEMMA LeavesOnTrigger ==
    ASSUME TypeParts, [MotionNext]_motionVars, NEW i \in BeltAxes \cup DevAxes, Leaves(i)
    PROVE  Trigger(i)
<1> USE DEF TypeParts, AxesType
<1>1. /\ i \in Axes /\ i \notin PosAxes
      /\ state[i] = "PARKED" /\ state'[i] # "PARKED"
  BY KindAssumption DEF Axes, Leaves
<1>2. CASE PopTension
  <2>1. Head(cmdQueue).axis = AllAxes
    BY <1>2, HeadCommand DEF PopTension, Pop, Targeted
  <2>2. i \in BeltAxes
    BY <1>1, <1>2 DEF PopTension, TensionAxes, Moved
  <2>3. Executes("TensionBelts", i)
    BY <1>1, <1>2, <2>1 DEF PopTension, Pop, Executes, Named
  <2>4. QED BY <2>2, <2>3, KindAssumption DEF Trigger
<1>3. CASE PopEngage
  <2>1. i \in Named(Head(cmdQueue).axis) \cap DevAxes
    BY <1>1, <1>3 DEF PopEngage, EngageAxes
  <2>2. Executes("EngageDevice", i)
    BY <1>3, <2>1 DEF PopEngage, Pop, Executes
  <2>3. QED BY <2>1, <2>2, KindAssumption DEF Trigger
<1>4. CASE PopHoming
  <2>1. StartHoming(Head(cmdQueue).axis)
    BY <1>4 DEF PopHoming
  <2>2. i \in Homers(Head(cmdQueue).axis)
    BY <1>1, <2>1 DEF StartHoming, Moved
  <2>3. Head(cmdQueue).axis = i /\ i \notin BeltAxes
    BY <1>1, <2>2 DEF Homers
  <2>4. i # AllAxes
    BY <1>1, AllAxesAssumption
  <2>5. Executes("StartHoming", i)
    BY <1>4, <2>3, <2>4 DEF PopHoming, Pop, Executes, Named
  <2>6. QED BY <2>3, <2>4, <2>5 DEF Trigger
\* No other step takes it out of its park.
<1>5. CASE LoopHome
  <2>1. StartHoming(AllAxes)
    BY <1>5 DEF LoopHome
  <2>2. QED BY <1>1, <2>1 DEF StartHoming, Moved, Homers
<1>6. CASE PopUnpark \/ AutoUnpark
  BY <1>1, <1>6 DEF PopUnpark, AutoUnpark, UnparkAxes, Moved
<1>7. CASE StartTest
  BY <1>1, <1>7 DEF StartTest, TestRails, Moved
<1>8. CASE PopPark \/ PopSlack \/ PopRelease \/ EndTest \/ LoopPark \/ LoopFault
  BY <1>1, <1>8 DEF PopPark, PopSlack, PopRelease, EndTest, LoopPark, LoopFault,
              ParkAxes, SlackAxes, ReleaseAxes, Moved, In
<1>9. CASE SampleEstop
  BY <1>1, <1>9 DEF SampleEstop, Moved, In
<1>10. CASE StepAxes
  <2>1. state'[i] \in StepTo(i)
    BY <1>1, <1>10, StepsWithin
  <2>2. QED BY <1>1, <2>1 DEF StepTo
<1>11. CASE Configure \/ \E j \in Axes : ForceAxisParked(j)
  BY <1>1, <1>11 DEF Configure, ForceAxisParked
<1>12. CASE UNCHANGED state
  BY <1>1, <1>12
<1>13. QED
  BY <1>2, <1>3, <1>4, <1>5, <1>6, <1>7, <1>8, <1>9, <1>10, <1>11, <1>12
  DEF MotionNext, Cycle, Surfaces, Callers, motionVars, BeginCycle, EndDrain, NoTest,
      RunTest, Enqueue, RequestTest, PressEstop, ReleaseEstop, SetNeedsRehome, ClearTrip

\* A belt leaves its slack park on TensionBelts alone, a device its limp park
\* on an engage that names it or a home targeted at it.
THEOREM OneTriggerOnly == MotionSafety => OneTrigger
<1>1. TypeParts /\ [MotionNext]_motionVars =>
        [/\ \A i \in BeltAxes : Leaves(i) => Executes("TensionBelts", i)
         /\ \A i \in DevAxes : Leaves(i) =>
              \/ Executes("EngageDevice", i)
              \/ Executes("StartHoming", i) /\ Head(cmdQueue).axis # AllAxes]_motionVars
  BY LeavesOnTrigger DEF Trigger
<1>2. QED
  BY <1>1, TypePartsInit, TypePartsKept, PTL DEF MotionSafety, OneTrigger

\* A position axis leaves its park for the ramp to centre on an Unpark
\* command, or on the auto-unpark of a rig that is all homed.
LEMMA UnparksTogether ==
    ASSUME TypeParts, [MotionNext]_motionVars,
           NEW i \in PosAxes, Leaves(i), state'[i] = "UNPARKING"
    PROVE  AllAxesHomed \/ Executes("StartUnpark", i)
<1> USE DEF TypeParts, AxesType
<1>1. i \in Axes /\ state[i] = "PARKED" /\ state'[i] = "UNPARKING"
  BY DEF Axes, Leaves
<1>2. CASE PopUnpark
  <2>1. Head(cmdQueue).axis = AllAxes
    BY <1>2, HeadCommand DEF PopUnpark, Pop, CommandTypes, Targeted
  <2>2. QED
    BY <1>1, <1>2, <2>1 DEF PopUnpark, Pop, Executes, Named
<1>3. CASE AutoUnpark
  BY <1>1, <1>3 DEF AutoUnpark
\* No other step sends an axis to that ramp.
<1>4. CASE PopHoming \/ LoopHome
  <2>1. \E a : StartHoming(a)
    BY <1>4 DEF PopHoming, LoopHome
  <2>2. QED BY <1>1, <2>1, HomingMoves
<1>5. CASE PopPark \/ PopSlack \/ PopTension \/ PopRelease \/ EndTest \/ LoopPark \/ LoopFault
  BY <1>1, <1>5 DEF PopPark, PopSlack, PopTension, PopRelease, EndTest, LoopPark, LoopFault,
              ParkAxes, SlackAxes, TensionAxes, ReleaseAxes, Moved
<1>6. CASE PopEngage
  BY <1>1, <1>6 DEF PopEngage, EngageAxes
<1>7. CASE StartTest \/ SampleEstop
  BY <1>1, <1>7 DEF StartTest, SampleEstop, Moved
<1>8. CASE StepAxes
  <2>1. state'[i] \in StepTo(i)
    BY <1>1, <1>8, StepsWithin
  <2>2. QED BY <1>1, <2>1 DEF StepTo
<1>9. CASE Configure \/ \E j \in Axes : ForceAxisParked(j)
  BY <1>1, <1>9 DEF Configure, ForceAxisParked
<1>10. CASE UNCHANGED state
  BY <1>1, <1>10
<1>11. QED
  BY <1>2, <1>3, <1>4, <1>5, <1>6, <1>7, <1>8, <1>9, <1>10
  DEF MotionNext, Cycle, Surfaces, Callers, motionVars, BeginCycle, EndDrain, NoTest,
      RunTest, Enqueue, RequestTest, PressEstop, ReleaseEstop, SetNeedsRehome, ClearTrip

\* The rig comes up together: a homing that failed holds its peers parked.
THEOREM ComesUpTogether == MotionSafety => RigUnparksTogether
<1>1. TypeParts /\ [MotionNext]_motionVars =>
        [(\E i \in PosAxes : Leaves(i) /\ state'[i] = "UNPARKING")
           => AllAxesHomed \/ \E i \in PosAxes : Executes("StartUnpark", i)]_motionVars
  BY UnparksTogether
<1>2. QED
  BY <1>1, TypePartsInit, TypePartsKept, PTL DEF MotionSafety, RigUnparksTogether

-----------------------------------------------------------------------------
(***************************************************************************)
(* The control loop.                                                       *)
(***************************************************************************)
USE DEF loopVars, initVars, histVars, axisVars, flagVars, estopVars, edgeVars, testVars, motionVars

\* A step of the worker, of a drive, of a button or of a surface is a step of
\* the motion controller, or leaves it alone.
LEMMA StepDrives == [Next]_vars => [MotionNext]_motionVars
<1> SUFFICES ASSUME [Next]_vars PROVE [MotionNext]_motionVars
  OBVIOUS
<1>1. CASE Worker
  <2>1. CASE LoopStarts
    BY <2>1 DEF LoopStarts, MotionNext, Callers
  <2>2. CASE LoopCycles \/ TakesCommand \/ TakesTest \/ ProcessSteps \/ SamplesEstop
    BY <2>2 DEF LoopCycles, TakesCommand, TakesTest, ProcessSteps, SamplesEstop, MotionNext, Cycle
  <2>3. CASE LoopExits \/ ParksToExit \/ LoopStops
    BY <2>3 DEF LoopExits, ParksToExit, LoopStops, MotionNext, Callers
  <2>4. ASSUME NEW i \in Axes, ForcesParked(i) PROVE [MotionNext]_motionVars
    BY <2>4 DEF ForcesParked, MotionNext, Callers
  <2>5. QED BY <1>1, <2>1, <2>2, <2>3, <2>4 DEF Worker
<1>2. CASE Drives
  BY <1>2 DEF Drives, DriveFault, FaultClears, LockoutCleared, MotionNext, Callers
<1>3. CASE Lifecycle
  BY <1>3 DEF Lifecycle, StartLoop, StopLoop, RequestDeinit, DeinitStops, DeinitJoins, DeinitSeats,
              SeatPass, ShutDown, RequestInit, InitChecks, InitConfigures, InitEnters, InitClears,
              MotionNext, Callers
<1>4. CASE Presses \/ Asks \/ OtherSurfaces
  BY <1>4 DEF Presses, Asks, OtherSurfaces, MotionNext, Surfaces
<1>5. CASE UNCHANGED vars
  BY <1>5 DEF vars
<1>6. QED
  BY <1>1, <1>2, <1>3, <1>4, <1>5 DEF Next

\* The loop and the init worker drive the motion controller only as it allows.
THEOREM Refines == Spec => DrivesMotion
<1>1. Init => MotionInit
  BY DEF Init
<1>2. QED
  BY <1>1, StepDrives, PTL DEF Spec, DrivesMotion, MotionSafety

\* Of the motion controller itself the loop inherits what was proved of it.
THEOREM LoopInherits ==
    Spec => /\ []LiveIsHomed
            /\ []KindKeepsToItsStates
            /\ []StoppedUnderEstop
            /\ NothingStartsUnderEstop
            /\ OneTrigger
            /\ RigUnparksTogether
BY Refines, LiveAreHomed, KindsKeepToTheirStates, AllStoppedUnderEstop, NothingStarts, OneTriggerOnly,
   ComesUpTogether
DEF DrivesMotion

\* The actions of the worker that are cycles of process(), and what they are.
CycleSteps == LoopCycles \/ TakesCommand \/ TakesTest \/ ProcessSteps \/ SamplesEstop

LEMMA CycleStepsAre ==
    ASSUME CycleSteps
    PROVE  /\ Cycle
           /\ UNCHANGED <<loopVars, initVars>>
           /\ carried' = carried \/ StillCarried
           /\ UNCHANGED estopVars
<1>1. Cycle
  BY DEF CycleSteps, LoopCycles, TakesCommand, TakesTest, ProcessSteps, SamplesEstop, Cycle
<1>2. UNCHANGED <<loopVars, initVars>> /\ (carried' = carried \/ StillCarried)
  BY DEF CycleSteps, LoopCycles, TakesCommand, TakesTest, ProcessSteps, SamplesEstop
<1>3. UNCHANGED estopVars
  BY <1>1 DEF Cycle, BeginCycle, Pop, PopHoming, PopPark, PopUnpark, PopSlack, PopTension, PopEngage,
              PopRelease, EndDrain, StartTest, NoTest, RunTest, EndTest, Service, SampleEstop, StepAxes,
              AutoUnpark
<1>4. QED
  BY <1>1, <1>2, <1>3

-----------------------------------------------------------------------------
(* Types. *)

LoopType ==
    /\ loop \in LoopSteps
    /\ stopReq \in BOOLEAN
    /\ running \in BOOLEAN
    /\ op \in BOOLEAN
    /\ initPc \in InitSteps
    /\ pressed \in BOOLEAN
HistType ==
    /\ faulted \in SUBSET Axes
    /\ carried \in SUBSET Axes
    /\ parkCmd \in BOOLEAN

LEMMA LoopTypeKept == LoopType /\ [Next]_vars => LoopType'
<1> SUFFICES ASSUME LoopType, [Next]_vars PROVE LoopType'
  OBVIOUS
<1> USE DEF LoopType, LoopSteps
<1>1. CASE CycleSteps
  BY <1>1, CycleStepsAre
<1>2. CASE LoopStarts \/ LoopExits \/ ParksToExit \/ LoopStops \/ \E i \in Axes : ForcesParked(i)
  BY <1>2 DEF LoopStarts, LoopExits, ParksToExit, LoopStops, ForcesParked
<1>3. CASE Drives \/ Asks \/ OtherSurfaces \/ Presses
  BY <1>3 DEF Drives, DriveFault, FaultClears, LockoutCleared, Asks, OtherSurfaces, Presses
<1>4. CASE StartLoop \/ StopLoop
  BY <1>4 DEF StartLoop, StopLoop
<1>5. CASE RequestDeinit \/ DeinitStops \/ DeinitJoins \/ DeinitSeats \/ SeatPass \/ ShutDown
  BY <1>5 DEF RequestDeinit, DeinitStops, DeinitJoins, DeinitSeats, SeatPass, ShutDown, InitAt, InitSteps
<1>6. CASE RequestInit \/ InitChecks \/ InitConfigures \/ InitEnters \/ InitClears
  BY <1>6 DEF RequestInit, InitChecks, InitConfigures, InitEnters, InitClears, InitAt, InitSteps
<1>7. CASE UNCHANGED vars
  BY <1>7 DEF vars
<1>8. QED
  BY <1>1, <1>2, <1>3, <1>4, <1>5, <1>6, <1>7 DEF Next, Worker, Lifecycle, CycleSteps

LEMMA HistTypeKept == HistType /\ [Next]_vars => HistType'
<1> SUFFICES ASSUME HistType, [Next]_vars PROVE HistType'
  OBVIOUS
<1> USE DEF HistType, StillCarried, Axes
<1>1. CASE CycleSteps
  BY <1>1 DEF CycleSteps, LoopCycles, TakesCommand, TakesTest, ProcessSteps, SamplesEstop
<1>2. CASE LoopStarts \/ LoopExits \/ ParksToExit \/ LoopStops \/ \E i \in Axes : ForcesParked(i)
  BY <1>2 DEF LoopStarts, LoopExits, ParksToExit, LoopStops, ForcesParked
<1>3. CASE Drives
  BY <1>3 DEF Drives, DriveFault, FaultClears, LockoutCleared
<1>4. CASE Asks \/ OtherSurfaces \/ Presses
  BY <1>4 DEF Asks, OtherSurfaces, Presses
<1>5. CASE Lifecycle
  BY <1>5 DEF Lifecycle, StartLoop, StopLoop, RequestDeinit, DeinitStops, DeinitJoins, DeinitSeats,
              SeatPass, ShutDown, RequestInit, InitChecks, InitConfigures, InitEnters, InitClears
<1>6. CASE UNCHANGED vars
  BY <1>6 DEF vars
<1>7. QED
  BY <1>1, <1>2, <1>3, <1>4, <1>5, <1>6 DEF Next, Worker, CycleSteps

\* The loop, the init worker and the fault monitor keep their types.
THEOREM LoopTyping == Spec => []TypeOK
<1>1. Init => LoopType /\ HistType
  BY DEF Init, LoopType, HistType, LoopSteps, InitSteps
<1>2. LoopType /\ HistType /\ [Next]_vars => (LoopType /\ HistType)'
  BY LoopTypeKept, HistTypeKept
<1>3. LoopType /\ HistType /\ MotionTypeOK => TypeOK
  BY DEF LoopType, HistType, TypeOK
<1>4. Spec => []MotionTypeOK
  BY Refines, MotionTyping DEF DrivesMotion
<1>5. QED
  BY <1>1, <1>2, <1>3, <1>4, PTL DEF Spec

-----------------------------------------------------------------------------
(* The run. *)

\* A cycle runs only under a loop that runs it; a loop that is off has a
\* rehome pending; and one that has started over an older reference did so
\* under a trip, which nothing clears while it runs.
RunInv ==
    /\ running <=> loop \in {"main", "exiting", "park"}
    /\ rt # "idle" => loop \in {"main", "park"}
    /\ loop \in {"off", "starting"} => needsRehome
    /\ estopInput => estopTripped
    /\ loop = "main" /\ carried # {} => estopTripped

LEMMA RunKept == ASSUME RunInv, [Next]_vars PROVE RunInv'
<1>1. CASE CycleSteps
  <2>1. /\ UNCHANGED <<loopVars, estopVars>> /\ (carried' = {} \/ carried # {})
    BY <1>1, CycleStepsAre DEF StillCarried
  <2>2. loop \in {"main", "park"}
    BY <1>1 DEF RunInv, CycleSteps, LoopCycles, TakesCommand, TakesTest, ProcessSteps, SamplesEstop,
                Pop, PopHoming, PopPark, PopUnpark, PopSlack, PopTension, PopEngage, PopRelease,
                StartTest, EndDrain, NoTest, RunTest, EndTest, Service, StepAxes, AutoUnpark,
                SampleEstop, RtStep
  <2>3. QED
    BY <2>1, <2>2 DEF RunInv
<1>2. CASE LoopStarts
  <2>1. rt = "idle" /\ UNCHANGED <<rt, estopVars>> /\ needsRehome
    BY <1>2 DEF LoopStarts, LoopHome, RunInv
  <2>2. CASE EstopHolds
    BY <1>2, <2>1, <2>2 DEF LoopStarts, RunInv, EstopHolds
  <2>3. CASE ~EstopHolds
    <3>1. \A i \in PosAxes : ~homed'[i]
      BY <1>2, <2>1, <2>3, KindAssumption DEF LoopStarts, LoopHome, StartHoming, Homers, Axes
    <3>2. carried' = {}
      BY <1>2, <3>1 DEF LoopStarts
    <3>3. QED
      BY <1>2, <2>1, <3>2 DEF LoopStarts, RunInv
  <2>4. QED
    BY <2>2, <2>3
<1>3. CASE LoopExits \/ ParksToExit \/ LoopStops \/ \E i \in Axes : ForcesParked(i)
  BY <1>3 DEF LoopExits, ParksToExit, LoopStops, ForcesParked, LoopPark, SetNeedsRehome,
              ForceAxisParked, RunInv
<1>4. CASE Drives
  BY <1>4 DEF Drives, DriveFault, FaultClears, LockoutCleared, LoopFault, LoopHome, StillCarried, RunInv
<1>5. CASE Asks \/ OtherSurfaces \/ Presses
  BY <1>5 DEF Asks, OtherSurfaces, Presses, Enqueue, ReleaseEstop, RequestTest, PressEstop, RunInv
<1>6. CASE StartLoop \/ StopLoop
  BY <1>6 DEF StartLoop, StopLoop, RunInv
<1>7. CASE RequestDeinit \/ DeinitStops \/ DeinitJoins \/ DeinitSeats \/ SeatPass \/ ShutDown
  BY <1>7 DEF RequestDeinit, DeinitStops, DeinitJoins, DeinitSeats, SeatPass, SetNeedsRehome, ShutDown,
              RunInv
<1>8. CASE RequestInit \/ InitChecks \/ InitConfigures \/ InitEnters
  BY <1>8 DEF RequestInit, InitChecks, InitConfigures, Configure, InitEnters, RunInv
<1>9. CASE InitClears
  BY <1>9 DEF InitClears, ClearTrip, RunInv
<1>10. CASE UNCHANGED vars
  BY <1>10 DEF vars, RunInv
<1>11. QED
  BY <1>1, <1>2, <1>3, <1>4, <1>5, <1>6, <1>7, <1>8, <1>9, <1>10
  DEF Next, Worker, Lifecycle, CycleSteps

LEMMA RunInvariant == Spec => []RunInv
<1>1. Init => RunInv
  BY DEF Init, MotionInit, RunInv
<1>2. QED
  BY <1>1, RunKept, PTL DEF Spec

\* No position axis moves in a frame from before this run of the loop: it
\* could keep one only by starting under a trip, and the trip outlives the run.
THEOREM FreshReferences == Spec => []FreshReference
<1>1. RunInv => FreshReference
  BY DEF RunInv, FreshReference, EstopHolds
<1>2. QED
  BY <1>1, RunInvariant, PTL
-----------------------------------------------------------------------------
(* The lifecycle, one button after the other's end. *)

Reseated == Parked /\ (\A i \in Axes : ~homed[i]) /\ needsRehome

\* The loop lives only in OP and outside an init; and between its configure
\* and its end an init finds the rig as configure left it.
LifeInv ==
    /\ loop # "off" => op /\ initPc \in {"idle", "stopping", "joining"}
    /\ loop = "starting" => initPc = "idle"
    /\ initPc \in {"entering", "clearing"} => Reseated

LEMMA LifeKept == ASSUME Patient, LoopType, RunInv, LifeInv, [Next]_vars PROVE LifeInv'
<1> USE DEF LifeInv
<1>1. CASE CycleSteps
  <2>1. loop \in {"main", "park"} /\ UNCHANGED <<loopVars, initVars>>
    BY <1>1, CycleStepsAre
    DEF RunInv, CycleSteps, LoopCycles, TakesCommand, TakesTest, ProcessSteps, SamplesEstop,
        Pop, PopHoming, PopPark, PopUnpark, PopSlack, PopTension, PopEngage, PopRelease,
        StartTest, EndDrain, NoTest, RunTest, EndTest, Service, StepAxes, AutoUnpark,
        SampleEstop, RtStep
  <2>2. QED
    BY <2>1
<1>2. CASE LoopStarts \/ LoopExits \/ ParksToExit \/ LoopStops \/ \E i \in Axes : ForcesParked(i)
  BY <1>2 DEF LoopStarts, LoopExits, ParksToExit, LoopStops, ForcesParked
<1>3. CASE Drives
  BY <1>3 DEF Drives, DriveFault, FaultClears, LockoutCleared
<1>4. CASE Asks \/ OtherSurfaces \/ Presses
  BY <1>4 DEF Asks, OtherSurfaces, Presses, Enqueue, ReleaseEstop, RequestTest, PressEstop,
              Reseated, Parked, In
<1>5. CASE StartLoop \/ StopLoop
  BY <1>5 DEF StartLoop, StopLoop, Reseated, Parked, In
<1>6. CASE RequestDeinit \/ DeinitStops
  BY <1>6 DEF RequestDeinit, DeinitStops, InitAt, RunInv, LoopType, LoopSteps
<1>7. CASE DeinitJoins \/ DeinitSeats \/ SeatPass \/ ShutDown
  BY <1>7 DEF DeinitJoins, DeinitSeats, SeatPass, ShutDown, InitAt
<1>8. CASE RequestInit \/ InitChecks
  BY <1>8 DEF RequestInit, InitChecks, InitAt, RunInv
<1>9. CASE InitConfigures
  BY <1>9 DEF InitConfigures, Configure, InitAt, Reseated, Parked, In
<1>10. CASE InitEnters \/ InitClears
  BY <1>10 DEF InitEnters, InitClears, InitAt, Reseated, Parked, In
<1>11. CASE UNCHANGED vars
  BY <1>11 DEF vars, Reseated, Parked, In
<1>12. QED
  BY <1>1, <1>2, <1>3, <1>4, <1>5, <1>6, <1>7, <1>8, <1>9, <1>10, <1>11
  DEF Next, Worker, Lifecycle, CycleSteps

LEMMA LifeInvariant == ASSUME Patient PROVE Spec => [](LoopType /\ RunInv /\ LifeInv)
<1>1. Init => LoopType /\ RunInv /\ LifeInv
  BY DEF Init, MotionInit, LoopType, LoopSteps, InitSteps, RunInv, LifeInv
<1>2. LoopType /\ RunInv /\ LifeInv /\ [Next]_vars => (LoopType /\ RunInv /\ LifeInv)'
  BY LoopTypeKept, RunKept, LifeKept
<1>3. QED
  BY <1>1, <1>2, PTL DEF Spec

\* Only the end of an init clears a trip.
LEMMA OnlyInitClears ==
    ASSUME [Next]_vars, estopTripped, ~estopTripped'
    PROVE  InitClears
<1>1. ~CycleSteps
  BY CycleStepsAre
<1>2. ~(LoopStarts \/ LoopExits \/ ParksToExit \/ LoopStops \/ \E i \in Axes : ForcesParked(i))
  BY DEF LoopStarts, LoopHome, LoopExits, ParksToExit, LoopPark, LoopStops, SetNeedsRehome,
         ForcesParked, ForceAxisParked
<1>3. ~Drives
  BY DEF Drives, DriveFault, FaultClears, LockoutCleared, LoopFault, LoopHome
<1>4. ~(Asks \/ OtherSurfaces \/ Presses)
  BY DEF Asks, OtherSurfaces, Presses, Enqueue, ReleaseEstop, RequestTest, PressEstop
<1>5. ~(StartLoop \/ StopLoop \/ RequestDeinit \/ DeinitStops \/ DeinitJoins \/ DeinitSeats
        \/ SeatPass \/ ShutDown \/ RequestInit \/ InitChecks \/ InitConfigures \/ InitEnters)
  BY DEF StartLoop, StopLoop, RequestDeinit, DeinitStops, DeinitJoins, DeinitSeats, SeatPass,
         SetNeedsRehome, ShutDown, RequestInit, InitChecks, InitConfigures, Configure, InitEnters
<1>6. ~UNCHANGED vars
  BY DEF vars
<1>7. QED
  BY <1>1, <1>2, <1>3, <1>4, <1>5, <1>6 DEF Next, Worker, Lifecycle, CycleSteps

\* A cleared trip leaves nothing to move by itself: what clears it found the
\* rig as its configure had left it.
THEOREM ClearsAtRest == ASSUME Patient PROVE Spec => ClearedAtRest
<1>1. LoopType /\ RunInv /\ LifeInv /\ [Next]_vars
        => [estopTripped /\ ~estopTripped' =>
              /\ Parked
              /\ \A i \in Axes : ~homed[i]
              /\ needsRehome
              /\ loop = "off"]_vars
  <2> SUFFICES ASSUME LifeInv, [Next]_vars, estopTripped, ~estopTripped'
               PROVE  Reseated /\ loop = "off"
    BY DEF Reseated
  <2>1. InitClears
    BY OnlyInitClears
  <2>2. QED
    BY <2>1 DEF InitClears, InitAt, LifeInv
<1>2. QED
  BY <1>1, LifeInvariant, PTL DEF Spec, ClearedAtRest

-----------------------------------------------------------------------------
(* The park. *)

\* An axis that stops for an e-stop has its trip, and the cycle that sampled
\* one still has it.
StopInv ==
    /\ In({"ESTOPPING"}) # {} => estopTripped
    /\ rt = "axes" /\ sampled => estopTripped

\* The loop has exited its main part: the rig does not unpark by itself, and
\* what the park loop was given comes down, unless it takes a command.
NoUnpark == unparkDone \/ ~AllAxesHomed \/ PosAxes = {} \/ \A i \in Axes : ~homed[i]
ComingDown == \A i \in Axes : state[i] \in {"PARKED", "PARKING", "ESTOPPING"}
ParkInv ==
    /\ rt = "idle" => NoUnpark
    /\ loop = "park" /\ ~parkCmd => NoUnpark /\ ComingDown
    /\ loop = "off" /\ ~parkCmd => Parked

LEMMA StopKept ==
    ASSUME TypeParts, LoopType, RunInv, LifeInv, StopInv, [Next]_vars PROVE StopInv'
<1> USE DEF StopInv, In, TypeParts, AxesType
<1>1. CASE CycleSteps
  <2>1. Cycle /\ UNCHANGED estopVars
    BY <1>1, CycleStepsAre
  <2>2. CASE BeginCycle \/ EndDrain \/ NoTest \/ RunTest
    BY <2>1, <2>2 DEF BeginCycle, EndDrain, NoTest, RunTest, Service, RtStep
  <2>3. CASE PopHoming \/ PopPark \/ PopUnpark \/ PopSlack \/ PopTension \/ PopEngage \/ PopRelease
    BY <2>1, <2>3 DEF PopHoming, PopPark, PopUnpark, PopSlack, PopTension, PopEngage, PopRelease, Pop,
       StartHoming, ParkAxes, UnparkAxes, SlackAxes, TensionAxes, EngageAxes, ReleaseAxes, Moved
  <2>4. CASE StartTest \/ EndTest \/ AutoUnpark
    BY <2>1, <2>4 DEF StartTest, EndTest, Service, RtStep, AutoUnpark, ParkAxes, UnparkAxes, Moved
  <2>5. CASE SampleEstop
    <3>1. CASE EstopHolds
      BY <2>1, <3>1 DEF EstopHolds, RunInv
    <3>2. CASE ~EstopHolds
      BY <2>1, <2>5, <3>2 DEF SampleEstop, RtStep
    <3>3. QED
      BY <3>1, <3>2
  <2>6. CASE StepAxes
    BY <2>1, <2>6, StepsWithin DEF StepAxes, StepTo, RtStep
  <2>7. QED
    BY <2>1, <2>2, <2>3, <2>4, <2>5, <2>6 DEF Cycle
<1>2. CASE LoopStarts \/ LoopExits \/ ParksToExit \/ LoopStops \/ \E i \in Axes : ForcesParked(i)
  BY <1>2 DEF LoopStarts, LoopHome, StartHoming, LoopExits, ParksToExit, LoopPark, LoopStops,
              SetNeedsRehome, ForcesParked, ForceAxisParked, ParkAxes, Moved
<1>3. CASE Drives
  <2>1. rt' = rt /\ UNCHANGED estopVars /\ rt = "idle"
    BY <1>3 DEF Drives, DriveFault, FaultClears, LockoutCleared, LoopFault, LoopHome
  <2>2. In({"ESTOPPING"})' \subseteq In({"ESTOPPING"})
    <3>1. CASE LoopFault
      BY <3>1 DEF LoopFault, ParkAxes, Moved
    <3>2. CASE LoopHome
      BY <3>2 DEF LoopHome, StartHoming, Moved
    <3>3. CASE UNCHANGED motionVars
      BY <3>3
    <3>4. QED
      BY <1>3, <3>1, <3>2, <3>3 DEF Drives, DriveFault, FaultClears, LockoutCleared
  <2>3. QED
    BY <2>1, <2>2
<1>4. CASE Asks \/ OtherSurfaces \/ Presses
  BY <1>4 DEF Asks, OtherSurfaces, Presses, Enqueue, ReleaseEstop, RequestTest, PressEstop
<1>5. CASE StartLoop \/ StopLoop \/ RequestDeinit \/ DeinitStops \/ DeinitJoins \/ DeinitSeats
           \/ SeatPass \/ ShutDown \/ RequestInit \/ InitChecks \/ InitEnters
  BY <1>5 DEF StartLoop, StopLoop, RequestDeinit, DeinitStops, DeinitJoins, DeinitSeats, SeatPass,
              SetNeedsRehome, ShutDown, RequestInit, InitChecks, InitEnters
<1>6. CASE InitConfigures
  BY <1>6 DEF InitConfigures, Configure
<1>7. CASE InitClears
  <2>1. In({"ESTOPPING"}) = {} /\ UNCHANGED <<state, rt>>
    BY <1>7 DEF InitClears, InitAt, ClearTrip, LifeInv, Reseated, Parked
  <2>2. rt = "idle"
    BY <1>7 DEF InitClears, InitAt, RunInv, LifeInv
  <2>3. QED
    BY <2>1, <2>2
<1>8. CASE UNCHANGED vars
  BY <1>8 DEF vars
<1>9. QED
  BY <1>1, <1>2, <1>3, <1>4, <1>5, <1>6, <1>7, <1>8 DEF Next, Worker, Lifecycle, CycleSteps

\* A park brings down all but what homes.
LEMMA ParkComesDown ==
    ASSUME AxesType, In({"HOMING"}) = {}, state' = ParkAxes PROVE ComingDown'
BY DEF AxesType, In, ParkAxes, Moved, ComingDown, States

LEMMA CycleParks ==
    ASSUME TypeParts, RunInv, ParkInv, CycleSteps PROVE ParkInv'
<1> USE DEF ParkInv, TypeParts, AxesType, HomedType
<1>1. Cycle /\ UNCHANGED <<loopVars, initVars>>
  BY CycleStepsAre
<1>2. loop \in {"main", "park"}
  BY DEF RunInv, CycleSteps, LoopCycles, TakesCommand, TakesTest, ProcessSteps, SamplesEstop,
         Pop, PopHoming, PopPark, PopUnpark, PopSlack, PopTension, PopEngage, PopRelease,
         StartTest, EndDrain, NoTest, RunTest, EndTest, Service, StepAxes, AutoUnpark,
         SampleEstop, RtStep
<1>3. rt' = "idle" => NoUnpark'
  <2>1. CASE AutoUnpark
    BY <2>1 DEF AutoUnpark, NoUnpark, AllAxesHomed
  <2>2. CASE ~AutoUnpark
    BY <1>1, <2>2 DEF Cycle, BeginCycle, Pop, PopHoming, PopPark, PopUnpark, PopSlack, PopTension,
       PopEngage, PopRelease, EndDrain, StartTest, NoTest, RunTest, EndTest, Service, SampleEstop,
       StepAxes, RtStep
  <2>3. QED
    BY <2>1, <2>2
<1>4. ASSUME loop' = "park", ~parkCmd' PROVE NoUnpark' /\ ComingDown'
  <2>1. LoopCycles \/ ProcessSteps \/ SamplesEstop
    BY <1>1, <1>4 DEF CycleSteps, TakesCommand, TakesTest
  <2>2. loop = "park" /\ ~parkCmd /\ NoUnpark /\ ComingDown
    BY <1>1, <1>4, <2>1 DEF LoopCycles, ProcessSteps, SamplesEstop
  <2>3. CASE LoopCycles \/ EndDrain \/ NoTest \/ RunTest
    BY <2>2, <2>3 DEF LoopCycles, BeginCycle, EndDrain, NoTest, RunTest, Service, NoUnpark,
       AllAxesHomed, ComingDown
  <2>4. CASE EndTest
    BY <2>2, <2>4 DEF EndTest, Service, ParkAxes, Moved, In, NoUnpark, AllAxesHomed, ComingDown
  <2>5. CASE SamplesEstop
    BY <2>2, <2>5 DEF SamplesEstop, SampleEstop, Moved, In, NoUnpark, AllAxesHomed, ComingDown
  <2>6. CASE StepAxes
    <3>1. homed' = homed
      BY <2>2, <2>6 DEF StepAxes, In, ComingDown
    <3>2. ComingDown'
      BY <2>2, <2>6, StepsWithin DEF StepTo, ComingDown
    <3>3. QED
      BY <2>2, <2>6, <3>1, <3>2 DEF StepAxes, NoUnpark, AllAxesHomed
  <2>7. CASE AutoUnpark
    <3>1. state' = state
      BY <2>2, <2>7 DEF AutoUnpark, NoUnpark, UnparkAxes, Moved
    <3>2. QED
      BY <2>2, <2>7, <3>1 DEF AutoUnpark, NoUnpark, AllAxesHomed, ComingDown
  <2>8. QED
    BY <2>1, <2>3, <2>4, <2>5, <2>6, <2>7 DEF ProcessSteps
<1>5. QED
  BY <1>1, <1>2, <1>3, <1>4

LEMMA ParkKept ==
    ASSUME TypeParts, LoopType, RunInv, LifeInv, StopInv, ParkInv, [Next]_vars PROVE ParkInv'
<1> USE DEF ParkInv, TypeParts, AxesType, HomedType, FlagsType
<1> USE DEF NoUnpark, AllAxesHomed, ComingDown, Parked, In
<1>1. CASE CycleSteps
  BY <1>1, CycleParks
<1>2. CASE LoopStarts
  <2>1. rt' = "idle" => NoUnpark'
    BY <1>2, KindAssumption DEF LoopStarts, LoopHome, StartHoming, Homers, Axes
  <2>2. QED
    BY <1>2, <2>1 DEF LoopStarts
<1>3. CASE LoopExits
  BY <1>3 DEF LoopExits
<1>4. CASE ParksToExit
  <2>1. ComingDown'
    BY <1>4, ParkComesDown DEF ParksToExit, LoopPark
  <2>2. QED
    BY <1>4, <2>1 DEF ParksToExit, LoopPark
<1>5. CASE LoopStops
  <2>1. ~parkCmd => Parked
    BY <1>5 DEF LoopStops, Stuck, EstopHolds, StopInv
  <2>2. QED
    BY <1>5, <2>1 DEF LoopStops, SetNeedsRehome
<1>6. ASSUME NEW i \in Axes, ForcesParked(i) PROVE ParkInv'
  BY <1>6 DEF ForcesParked, ForceAxisParked, Axes
<1>7. CASE Drives
  <2>1. loop' = "main"
    BY <1>7 DEF Drives, DriveFault, FaultClears, LockoutCleared
  <2>2. rt = "idle" /\ UNCHANGED rt
    BY <1>7 DEF Drives, DriveFault, FaultClears, LockoutCleared, LoopFault, LoopHome
  <2>3. NoUnpark'
    <3>1. CASE LoopFault
      BY <2>2, <3>1 DEF LoopFault
    <3>2. CASE LoopHome
      BY <2>2, <3>2, KindAssumption DEF LoopHome, StartHoming, Homers, Axes
    <3>3. CASE UNCHANGED motionVars
      BY <2>2, <3>3
    <3>4. QED
      BY <1>7, <3>1, <3>2, <3>3 DEF Drives, DriveFault, FaultClears, LockoutCleared
  <2>4. QED
    BY <2>1, <2>3
<1>8. CASE Asks \/ OtherSurfaces \/ Presses
  BY <1>8 DEF Asks, OtherSurfaces, Presses, Enqueue, ReleaseEstop, RequestTest, PressEstop
<1>9. CASE StartLoop \/ StopLoop \/ RequestDeinit \/ DeinitStops \/ DeinitJoins \/ DeinitSeats
           \/ SeatPass \/ ShutDown \/ RequestInit \/ InitChecks \/ InitEnters
  BY <1>9 DEF StartLoop, StopLoop, RequestDeinit, DeinitStops, DeinitJoins, DeinitSeats, SeatPass,
              SetNeedsRehome, ShutDown, RequestInit, InitChecks, InitEnters
<1>10. CASE InitConfigures
  <2>1. loop' = "off"
    BY <1>10 DEF InitConfigures, InitAt, LifeInv
  <2>2. QED
    BY <1>10, <2>1 DEF InitConfigures, Configure
<1>11. CASE InitClears
  BY <1>11 DEF InitClears, ClearTrip
<1>12. CASE UNCHANGED vars
  BY <1>12 DEF vars
<1>13. QED
  BY <1>1, <1>2, <1>3, <1>4, <1>5, <1>6, <1>7, <1>8, <1>9, <1>10, <1>11, <1>12
  DEF Next, Worker, Lifecycle, CycleSteps

LEMMA ParkInvariant ==
    ASSUME Patient PROVE Spec => [](TypeParts /\ LoopType /\ RunInv /\ LifeInv /\ StopInv /\ ParkInv)
<1>1. Init => StopInv /\ ParkInv
  BY DEF Init, MotionInit, StopInv, ParkInv, NoUnpark, In, Parked
<1>2. TypeParts /\ LoopType /\ RunInv /\ LifeInv /\ StopInv /\ ParkInv /\ [Next]_vars
        => (StopInv /\ ParkInv)'
  BY StopKept, ParkKept
<1>3. Spec => []TypeParts
  BY Refines, MotionTyping, TypeIsItsParts, PTL DEF DrivesMotion
<1>4. QED
  BY <1>1, <1>2, <1>3, LifeInvariant, PTL DEF Spec

\* A stop parks the rig: what the park loop meets is coming down already, and
\* an axis that an e-stop stops instead has a trip to ramp it down.
THEOREM StopsPark == ASSUME Patient PROVE Spec => []StopsParked
<1>1. ParkInv => StopsParked
  BY DEF ParkInv, StopsParked
<1>2. QED
  BY <1>1, ParkInvariant, PTL

\* What a step of the park loop does to an axis that is coming down already.
LEMMA CycleLowers ==
    ASSUME TypeParts, StopInv, NoUnpark, ComingDown, NEW i \in Axes,
           LoopCycles \/ ProcessSteps \/ SamplesEstop
    PROVE  state'[i] = state[i] \/ Height(state'[i]) < Height(state[i])
<1> USE DEF TypeParts, AxesType, HomedType
<1>1. /\ Height("PARKED") = 0 /\ Height("ESTOPPING") = 1 /\ Height("PARKING") = 2
  BY DEF Height
<1>2. CASE LoopCycles \/ EndDrain \/ NoTest \/ RunTest
  BY <1>2 DEF LoopCycles, BeginCycle, EndDrain, NoTest, RunTest, Service, RtStep
<1>3. CASE EndTest
  BY <1>3 DEF EndTest, ParkAxes, Moved, In, ComingDown
<1>4. CASE SamplesEstop
  BY <1>1, <1>4 DEF SamplesEstop, SampleEstop, Moved, In, ComingDown
<1>5. CASE StepAxes
  <2>1. state'[i] \in StepTo(i)
    BY <1>5, StepsWithin
  <2>2. QED
    BY <1>1, <2>1 DEF StepTo, ComingDown
<1>6. CASE AutoUnpark
  BY <1>6 DEF AutoUnpark, NoUnpark, UnparkAxes, Moved, In
<1>7. QED
  BY <1>2, <1>3, <1>4, <1>5, <1>6 DEF ProcessSteps

\* The same of any step: nobody else moves an axis while the loop is on its
\* way out, the init worker least of all.
LEMMA ExitLowers ==
    ASSUME TypeParts, LoopType, RunInv, LifeInv, StopInv, ParkInv, [Next]_vars,
           loop = "exiting" \/ (loop = "park" /\ ~parkCmd'), NEW i \in Axes
    PROVE  state'[i] = state[i] \/ Height(state'[i]) < Height(state[i])
<1> USE DEF TypeParts, AxesType
<1>1. state[i] \in States
  OBVIOUS
<1>2. CASE CycleSteps
  <2>1. loop = "park" /\ (LoopCycles \/ ProcessSteps \/ SamplesEstop)
    <3>1. loop \in {"main", "park"}
      BY <1>2 DEF RunInv, CycleSteps, LoopCycles, TakesCommand, TakesTest, ProcessSteps, SamplesEstop,
         Pop, PopHoming, PopPark, PopUnpark, PopSlack, PopTension, PopEngage, PopRelease,
         StartTest, EndDrain, NoTest, RunTest, EndTest, Service, StepAxes, AutoUnpark,
         SampleEstop, RtStep
    <3>2. QED
      BY <1>2, <3>1 DEF CycleSteps, TakesCommand, TakesTest
  <2>2. ~parkCmd
    BY <2>1 DEF LoopCycles, ProcessSteps, SamplesEstop
  <2>3. NoUnpark /\ ComingDown
    BY <2>1, <2>2 DEF ParkInv
  <2>4. QED
    BY <2>1, <2>3, CycleLowers
<1>3. CASE LoopStarts \/ LoopExits \/ LoopStops \/ Drives
  BY <1>3 DEF LoopStarts, LoopExits, LoopStops, SetNeedsRehome, Drives, DriveFault, FaultClears,
     LockoutCleared
<1>4. CASE ParksToExit
  BY <1>1, <1>4 DEF ParksToExit, LoopPark, ParkAxes, Moved, In, Height
<1>5. ASSUME NEW j \in Axes, ForcesParked(j)
      PROVE  state'[i] = state[i] \/ Height(state'[i]) < Height(state[i])
  BY <1>1, <1>5 DEF ForcesParked, ForceAxisParked, Height
<1>6. CASE Asks \/ OtherSurfaces \/ Presses
  BY <1>6 DEF Asks, OtherSurfaces, Presses, Enqueue, ReleaseEstop, RequestTest, PressEstop
<1>7. CASE StartLoop \/ StopLoop \/ RequestDeinit \/ DeinitStops \/ DeinitJoins \/ DeinitSeats
           \/ SeatPass \/ ShutDown \/ RequestInit \/ InitChecks \/ InitEnters
  BY <1>7 DEF StartLoop, StopLoop, RequestDeinit, DeinitStops, DeinitJoins, DeinitSeats, SeatPass,
              SetNeedsRehome, ShutDown, RequestInit, InitChecks, InitEnters
<1>8. CASE InitConfigures \/ InitClears
  BY <1>8 DEF InitConfigures, InitClears, ClearTrip, InitAt, LifeInv
<1>9. CASE UNCHANGED vars
  BY <1>9 DEF vars
<1>10. QED
  BY <1>2, <1>3, <1>4, <1>5, <1>6, <1>7, <1>8, <1>9 DEF Next, Worker, Lifecycle, CycleSteps

\* From the loop's exit until its end every axis only comes down: the measure
\* that a stop ends by.
THEOREM ExitOnlyComesDown == ASSUME Patient PROVE Spec => OnlyComesDown
<1>1. TypeParts /\ LoopType /\ RunInv /\ LifeInv /\ StopInv /\ ParkInv /\ [Next]_vars
        => [(loop = "exiting" \/ (loop = "park" /\ ~parkCmd')) =>
              \A i \in Axes : state'[i] = state[i] \/ Height(state'[i]) < Height(state[i])]_vars
  BY ExitLowers
<1>2. QED
  BY <1>1, ParkInvariant, PTL DEF Spec, OnlyComesDown

-----------------------------------------------------------------------------
(* The promises of the trip and of the fault handling.                     *)

\* What can change the trip, and the init worker's place in an init.
LEMMA TripMoves ==
    ASSUME [Next]_vars
    PROVE  \/ Presses
           \/ RequestInit
           \/ InitClears
           \/ InitEnters
           \/ UNCHANGED <<estopTripped, pressed, Initializing>>
<1> USE DEF Initializing
<1>1. CASE CycleSteps
  BY <1>1, CycleStepsAre
<1>2. CASE LoopStarts \/ LoopExits \/ ParksToExit \/ LoopStops \/ \E i \in Axes : ForcesParked(i)
  BY <1>2 DEF LoopStarts, LoopHome, LoopExits, ParksToExit, LoopPark, LoopStops, SetNeedsRehome,
              ForcesParked, ForceAxisParked
<1>3. CASE Drives
  BY <1>3 DEF Drives, DriveFault, FaultClears, LockoutCleared, LoopFault, LoopHome
<1>4. CASE Asks \/ OtherSurfaces
  BY <1>4 DEF Asks, OtherSurfaces, Enqueue, ReleaseEstop, RequestTest
<1>5. CASE StartLoop \/ StopLoop \/ RequestDeinit \/ DeinitStops \/ DeinitJoins \/ DeinitSeats
           \/ SeatPass \/ ShutDown
  BY <1>5 DEF StartLoop, StopLoop, RequestDeinit, DeinitStops, DeinitJoins, DeinitSeats, SeatPass,
              SetNeedsRehome, ShutDown, InitAt
<1>6. CASE InitChecks \/ InitConfigures
  BY <1>6 DEF InitChecks, InitConfigures, Configure, InitAt
<1>7. CASE UNCHANGED vars
  BY <1>7 DEF vars
<1>8. QED
  BY <1>1, <1>2, <1>3, <1>4, <1>5, <1>6, <1>7 DEF Next, Worker, Lifecycle, CycleSteps

\* A press and a clear of one step each keep the latch of EstopLatch, as the
\* atomics they stand for do (EstopTrip), with buttons pressed at any time.
THEOREM LoopKeepsLatch == Spec => KeepsLatch
<1>1. Init => Latch!Init
  BY DEF Init, MotionInit, Latch!Init, Initializing
<1>2. LoopType /\ [Next]_vars => [Latch!Next]_(Latch!vars)
  <2> SUFFICES ASSUME LoopType, [Next]_vars PROVE [Latch!Next]_(Latch!vars)
    OBVIOUS
  <2> USE DEF LoopType, Initializing
  <2>1. CASE Presses
    BY <2>1 DEF Presses, PressEstop, Latch!Next, Latch!Stop
  <2>2. CASE RequestInit
    BY <2>2 DEF RequestInit, InitAt, Latch!Next, Latch!Begin
  <2>3. CASE InitEnters
    BY <2>3 DEF InitEnters, InitAt, Latch!Next, Latch!GiveUp, Latch!vars
  <2>4. CASE InitClears
    <3>1. CASE running \/ estopInput \/ pressed
      BY <2>4, <3>1 DEF InitClears, InitAt, Latch!Next, Latch!GiveUp
    <3>2. CASE ~(running \/ estopInput \/ pressed)
      BY <2>4, <3>2 DEF InitClears, InitAt, ClearTrip, Latch!Next, Latch!Clear
    <3>3. QED BY <3>1, <3>2
  <2>5. CASE UNCHANGED <<estopTripped, pressed, Initializing>>
    BY <2>5 DEF Latch!vars
  <2>6. QED
    BY <2>1, <2>2, <2>3, <2>4, <2>5, TripMoves
<1>3. Init => LoopType
  BY DEF Init, LoopType, LoopSteps, InitSteps
<1>4. QED
  BY <1>1, <1>2, <1>3, LoopTypeKept, PTL DEF Spec, KeepsLatch, Latch!Spec

\* A homing begun by the loop or by a command takes care of the rehome, unless
\* an e-stop refuses it.
LEMMA HomingOwes ==
    ASSUME NEW a, StartHoming(a)
    PROVE  UNCHANGED needsRehome \/ needsRehome' = FALSE
BY DEF StartHoming

\* Where a run of the loop is over, or an init or a seat pass takes the rig
\* over, a rehome is owed: an open episode stands or there is none.
LEMMA OwesAgain ==
    ASSUME HistType, needsRehome' = TRUE, UNCHANGED faulted
    PROVE  Episodes!Next
<1>1. CASE faulted = {}
  BY <1>1 DEF Episodes!Next, Episodes!Forgets
<1>2. CASE faulted # {}
  <2>1. PICK i \in Axes : i \in faulted
    BY <1>2 DEF HistType
  <2>2. Episodes!Reopens(i)
    BY <2>1 DEF Episodes!Reopens
  <2>3. QED BY <2>2 DEF Episodes!Next
<1>3. QED BY <1>1, <1>2

LEMMA EpisodeSteps ==
    ASSUME HistType, FlagsType, FlagsType', [Next]_vars
    PROVE  [Episodes!Next]_<<faulted, needsRehome>>
<1> DEFINE Stays == UNCHANGED <<faulted, needsRehome>>
<1>1. CASE LoopCycles \/ TakesTest \/ ProcessSteps
  <2>1. Stays
    BY <1>1 DEF LoopCycles, TakesTest, ProcessSteps, BeginCycle, StartTest, EndDrain, NoTest,
                RunTest, EndTest, StepAxes, AutoUnpark
  <2>2. QED BY <2>1
<1>2. CASE TakesCommand
  <2>1. UNCHANGED faulted /\ (UNCHANGED needsRehome \/ needsRehome' = FALSE)
    BY <1>2, HomingOwes DEF TakesCommand, PopHoming, PopPark, PopUnpark, PopSlack, PopTension,
                PopEngage, PopRelease
  <2>2. QED BY <2>1 DEF Episodes!Next, Episodes!Rehomed
<1>3. CASE SamplesEstop
  <2>1. UNCHANGED needsRehome /\ (UNCHANGED faulted \/ faulted' = {})
    BY <1>3 DEF SamplesEstop, SampleEstop
  <2>2. QED BY <2>1 DEF Episodes!Next, Episodes!Forgets, FlagsType
<1>4. CASE LoopStarts
  <2>1. UNCHANGED faulted /\ (UNCHANGED needsRehome \/ needsRehome' = FALSE)
    BY <1>4, HomingOwes DEF LoopStarts, LoopHome
  <2>2. QED BY <2>1 DEF Episodes!Next, Episodes!Rehomed
<1>5. CASE LoopExits \/ ParksToExit
  <2>1. Stays
    BY <1>5 DEF LoopExits, ParksToExit, LoopPark
  <2>2. QED BY <2>1
<1>6. CASE LoopStops \/ SeatPass \/ InitConfigures \/ \E i \in Axes : ForcesParked(i)
  <2>1. UNCHANGED faulted /\ needsRehome' = TRUE
    BY <1>6 DEF LoopStops, SeatPass, SetNeedsRehome, InitConfigures, Configure, ForcesParked,
                ForceAxisParked
  <2>2. QED BY <2>1, OwesAgain
<1>7. ASSUME NEW i \in Axes, DriveFault(i) PROVE Episodes!Opens(i)
  BY <1>7 DEF DriveFault, LoopFault, Episodes!Opens
<1>8. ASSUME NEW i \in Axes, FaultClears(i) PROVE Episodes!Closes(i)
  BY <1>8, HomingOwes DEF FaultClears, LoopHome, Episodes!Closes
<1>9. ASSUME NEW i \in Axes, LockoutCleared(i) PROVE Episodes!Closes(i)
  BY <1>9 DEF LockoutCleared, Episodes!Closes
<1>10. CASE StartLoop
  BY <1>10 DEF StartLoop, Episodes!Next, Episodes!Forgets, FlagsType
<1>11. CASE StopLoop \/ RequestDeinit \/ DeinitStops \/ DeinitJoins \/ DeinitSeats \/ ShutDown
           \/ RequestInit \/ InitChecks \/ InitEnters \/ InitClears
  <2>1. Stays
    BY <1>11 DEF StopLoop, RequestDeinit, DeinitStops, DeinitJoins, DeinitSeats, ShutDown,
                 RequestInit, InitChecks, InitEnters, InitClears, ClearTrip
  <2>2. QED BY <2>1
<1>12. CASE Presses \/ Asks \/ OtherSurfaces
  <2>1. Stays
    BY <1>12 DEF Presses, Asks, OtherSurfaces, PressEstop, Enqueue, ReleaseEstop, RequestTest
  <2>2. QED BY <2>1
<1>13. CASE UNCHANGED vars
  BY <1>13 DEF vars
<1>14. QED
  BY <1>1, <1>2, <1>3, <1>4, <1>5, <1>6, <1>7, <1>8, <1>9, <1>10, <1>11, <1>12, <1>13
  DEF Next, Worker, Drives, Lifecycle, Episodes!Next

\* The loop's one flag per drive keeps the episodes that the monitor's many
\* variables implement (DriveFaults), over any starts, stops and initializes.
THEOREM LoopKeepsEpisodes == Spec => KeepsEpisodes
<1>1. Init => Episodes!Init /\ HistType
  BY DEF Init, MotionInit, Episodes!Init, HistType
<1>2. MotionTypeOK => FlagsType
  BY DEF MotionTypeOK, FlagsType
<1>3. HistType /\ FlagsType /\ FlagsType' /\ [Next]_vars => [Episodes!Next]_<<faulted, needsRehome>>
  BY EpisodeSteps
<1>4. Spec => []MotionTypeOK
  BY Refines, MotionTyping DEF DrivesMotion
<1>5. QED
  BY <1>1, <1>2, <1>3, <1>4, HistTypeKept, PTL DEF Spec, KeepsEpisodes, Episodes!Spec
=============================================================================
