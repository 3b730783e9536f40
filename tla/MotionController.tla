-------------------------- MODULE MotionController --------------------------
(***************************************************************************)
(* The axis state machine of MotionController: one process() cycle of the  *)
(* RT thread, interleaved with the threads that enqueue commands, request  *)
(* a commissioning test and press or release the e-stop.                   *)
(*                                                                         *)
(* A cycle is the steps of process() that read what other threads write:   *)
(* the commands are drained one by one, the commissioning request is       *)
(* serviced, the e-stop is sampled, every axis is stepped, and the rig is  *)
(* unparked once homed.  Positions and torques are abstracted away, and so *)
(* are the timers that end a ramp, a blend, a search or a hold: a timed    *)
(* transition may be taken in any cycle.  The calls ControlLoop makes      *)
(* between two cycles are actions with no more of a guard than rt = "idle".*)
(***************************************************************************)
EXTENDS Integers, Sequences

CONSTANTS
    PosAxes,        \* axes that home to an end stop and follow telemetry
    BeltAxes,       \* torque axes with no homing: slack or tensioned
    DevAxes,        \* torque-mode devices (shifter, pedal): limp or engaged
    AllAxes,        \* the axis argument -1: every axis
    Commands,       \* the commands the surfaces send
    TestPlans,      \* the sets of axes a commissioning plan excites
    QueueCap        \* usable slots of the command queue (31 in the code)

Axes == PosAxes \cup BeltAxes \cup DevAxes
States == {"HOMING", "PARKED", "UNPARKING", "BLENDING", "ONLINE", "PARKING",
           "ESTOPPING", "TESTING"}
CommandTypes == {"StartHoming", "StartPark", "StartUnpark", "SlackBelts",
                 "TensionBelts", "EngageDevice", "ReleaseDevice"}
\* Those that may name one axis; the others are for the whole rig.
Targeted == {"StartHoming", "EngageDevice", "ReleaseDevice"}
Command == [type : Targeted, axis : Axes \cup {AllAxes}]
             \cup [type : CommandTypes \ Targeted, axis : {AllAxes}]

ASSUME KindAssumption ==
    /\ PosAxes \cap BeltAxes = {}
    /\ PosAxes \cap DevAxes = {}
    /\ BeltAxes \cap DevAxes = {}
ASSUME AllAxesAssumption == AllAxes \notin Axes
ASSUME CommandAssumption == Commands \subseteq Command
ASSUME PlanAssumption == TestPlans \subseteq SUBSET Axes
ASSUME QueueAssumption == QueueCap \in Nat

VARIABLES
    state,          \* m_axisState
    homed,          \* m_runtime[i].homed
    needsRehome,    \* m_needsRehome
    unparkDone,     \* m_homingUnparkDone
    estopInput,     \* m_emergencyStop: the input, held
    estopTripped,   \* m_estopTripped
    prevEstop,      \* m_prevEstopState
    sampled,        \* output.emergencyStop: what this cycle sampled
    cmdQueue,       \* m_cmdQueue
    testPending,    \* m_pendingTestPlan while its request bit is set, else {}
    testing,        \* axes the active commissioning engine excites, else {}
    rt              \* the step of process() the RT thread is at

axisVars  == <<state, homed>>
flagVars  == <<needsRehome, unparkDone>>
estopVars == <<estopInput, estopTripped>>
edgeVars  == <<prevEstop, sampled>>
testVars  == <<testPending, testing>>
motionVars == <<state, homed, needsRehome, unparkDone, estopInput, estopTripped,
                prevEstop, sampled, cmdQueue, testPending, testing, rt>>

MotionInit ==
    /\ state = [i \in Axes |-> "PARKED"]
    /\ homed = [i \in Axes |-> FALSE]
    /\ needsRehome = TRUE
    /\ unparkDone = FALSE
    /\ estopInput = FALSE
    /\ estopTripped = FALSE
    /\ prevEstop = FALSE
    /\ sampled = FALSE
    /\ cmdQueue = <<>>
    /\ testPending = {}
    /\ testing = {}
    /\ rt = "idle"

EstopHolds == estopInput \/ estopTripped

\* The axes an axis argument names.
Named(a) == IF a = AllAxes THEN Axes ELSE {a}

\* state with the axes of S moved to s.
Moved(S, s) == [i \in Axes |-> IF i \in S THEN s ELSE state[i]]
In(S) == {i \in Axes : state[i] \in S}

-----------------------------------------------------------------------------
(* What the commands do to the axes. *)

\* startUnpark: never a torque-mode axis, never an axis with no reference.
UnparkAxes ==
    IF EstopHolds THEN state
    ELSE Moved(In({"PARKED"}) \cap {i \in PosAxes : homed[i]}, "UNPARKING")

\* startPark: every axis in motion, belts and devices included.
ParkAxes == Moved(In({"ONLINE", "UNPARKING", "BLENDING", "TESTING"}), "PARKING")

SlackAxes ==
    Moved(In({"ONLINE", "BLENDING", "UNPARKING"}) \cap BeltAxes, "PARKING")

\* A bug: tensioning looks at the e-stop's input, not at the trip.
TensionAxes_Input ==
    IF estopInput THEN state
    ELSE Moved(In({"PARKED", "PARKING"}) \cap BeltAxes, "BLENDING")

TensionAxes ==
    IF EstopHolds THEN state
    ELSE Moved(In({"PARKED", "PARKING"}) \cap BeltAxes, "BLENDING")

\* A bug: an unhomed device engages without its homing search.
EngageAxes_Unhomed(a) ==
    IF EstopHolds THEN state
    ELSE Moved(In({"PARKED", "PARKING"}) \cap Named(a) \cap DevAxes, "BLENDING")

\* engageDevices: an unhomed device homes and stays limp, a homed one engages.
EngageAxes(a) ==
    LET devices == Named(a) \cap DevAxes
    IN  IF EstopHolds THEN state
        ELSE [i \in Axes |->
                CASE i \in devices /\ ~homed[i] /\ state[i] = "PARKED" -> "HOMING"
                  [] i \in devices /\ homed[i] /\ state[i] \in {"PARKED", "PARKING"} -> "BLENDING"
                  [] OTHER -> state[i]]

ReleaseAxes(a) ==
    Moved(In({"ONLINE", "BLENDING"}) \cap Named(a) \cap DevAxes, "PARKING")

\* The axes startHoming(a) sends to homing: home-all never grabs a device.
Homers(a) == IF a = AllAxes THEN PosAxes ELSE {a} \ BeltAxes

\* A bug: home-all grabs the devices too.
StartHoming_AllDevices(a) ==
    IF EstopHolds
      THEN UNCHANGED <<axisVars, flagVars>>
      ELSE /\ state' = Moved(Named(a) \ BeltAxes, "HOMING")
           /\ homed' = [i \in Axes |->
                          CASE i \in Named(a) \ BeltAxes -> FALSE
                            [] i \in BeltAxes \cap Named(a) -> TRUE
                            [] OTHER -> homed[i]]
           /\ needsRehome' = FALSE
           /\ unparkDone' = FALSE

\* startHoming: refused under an e-stop; from any state otherwise.  A belt
\* has nothing to home and counts as homed.
StartHoming(a) ==
    IF EstopHolds
      THEN UNCHANGED <<axisVars, flagVars>>
      ELSE /\ state' = Moved(Homers(a), "HOMING")
           /\ homed' = [i \in Axes |->
                          CASE i \in Homers(a) -> FALSE
                            [] i \in BeltAxes \cap Named(a) -> TRUE
                            [] OTHER -> homed[i]]
           /\ needsRehome' = FALSE
           /\ unparkDone' = FALSE

-----------------------------------------------------------------------------
(* One cycle of process(). *)

RtStep(from, to) == rt = from /\ rt' = to

BeginCycle ==
    /\ RtStep("idle", "drain")
    /\ UNCHANGED <<axisVars, flagVars, estopVars, edgeVars, cmdQueue, testVars>>

\* drainCommands takes the next command of the queue, if of type t.
Pop(t) ==
    /\ rt = "drain"
    /\ cmdQueue # <<>>
    /\ Head(cmdQueue).type = t
    /\ cmdQueue' = Tail(cmdQueue)
    /\ UNCHANGED <<estopVars, edgeVars, testVars, rt>>

PopHoming ==
    /\ Pop("StartHoming")
    /\ StartHoming(Head(cmdQueue).axis)

PopPark ==
    /\ Pop("StartPark")
    /\ state' = ParkAxes
    /\ UNCHANGED <<homed, flagVars>>

PopUnpark ==
    /\ Pop("StartUnpark")
    /\ state' = UnparkAxes
    /\ UNCHANGED <<homed, flagVars>>

PopSlack ==
    /\ Pop("SlackBelts")
    /\ state' = SlackAxes
    /\ UNCHANGED <<homed, flagVars>>

PopTension ==
    /\ Pop("TensionBelts")
    /\ state' = TensionAxes
    /\ UNCHANGED <<homed, flagVars>>

PopEngage ==
    /\ Pop("EngageDevice")
    /\ state' = EngageAxes(Head(cmdQueue).axis)
    /\ UNCHANGED <<homed, flagVars>>

PopRelease ==
    /\ Pop("ReleaseDevice")
    /\ state' = ReleaseAxes(Head(cmdQueue).axis)
    /\ UNCHANGED <<homed, flagVars>>

EndDrain ==
    /\ RtStep("drain", "service")
    /\ cmdQueue = <<>>
    /\ UNCHANGED <<axisVars, flagVars, estopVars, edgeVars, cmdQueue, testVars>>

\* serviceCommissioning: the rails of a test start, in their order's effect:
\* only position axes, no e-stop, no rehome pending, and every axis the plan
\* excites homed and parked.
TestRails ==
    /\ testPending # {}
    /\ testPending \subseteq PosAxes
    /\ ~EstopHolds
    /\ ~needsRehome
    /\ \A i \in testPending : homed[i] /\ state[i] = "PARKED"

Service == RtStep("service", "sample") /\ testPending' = {}

StartTest ==
    /\ Service
    /\ testing = {}
    /\ TestRails
    /\ state' = Moved(testPending, "TESTING")
    /\ testing' = testPending
    /\ UNCHANGED <<homed, flagVars, estopVars, edgeVars, cmdQueue>>

\* No request, or one a rail refuses (live telemetry refuses any).
NoTest ==
    /\ Service
    /\ testing = {}
    /\ UNCHANGED <<axisVars, flagVars, estopVars, edgeVars, cmdQueue, testing>>

RunTest ==
    /\ Service
    /\ testing # {}
    /\ \A i \in testing : state[i] = "TESTING"
    /\ UNCHANGED <<axisVars, flagVars, estopVars, edgeVars, cmdQueue, testing>>

\* The engine finished, was stopped, or lost an axis to a park, a homing or
\* an e-stop: what still tests is parked, and the whole rig with it.
EndTest ==
    /\ Service
    /\ testing # {}
    /\ testing' = {}
    /\ state' = IF In({"TESTING"}) # {} THEN ParkAxes ELSE state
    /\ UNCHANGED <<homed, flagVars, estopVars, edgeVars, cmdQueue>>

\* The e-stop is read once for the whole cycle; its rising edge stops every
\* axis that is not parked.
SampleEstop ==
    /\ RtStep("sample", "axes")
    /\ sampled' = EstopHolds
    /\ prevEstop' = EstopHolds
    /\ state' = IF EstopHolds /\ ~prevEstop
                  THEN Moved(Axes \ In({"PARKED"}), "ESTOPPING")
                  ELSE state
    /\ UNCHANGED <<homed, flagVars, estopVars, cmdQueue, testVars>>

\* The axes whose state may be over with this cycle: a ramp, a blend or a
\* search ends (that of an e-stop only while it is sampled), or the telemetry
\* of a live axis goes stale, but a device has none.
Timed ==
    In({"HOMING", "UNPARKING", "BLENDING", "PARKING"})
    \cup (In({"ONLINE"}) \ DevAxes)
    \cup IF sampled THEN In({"ESTOPPING"}) ELSE {}

\* The state after s, once it is over.
After(s) ==
    CASE s = "UNPARKING" -> "BLENDING"
      [] s = "BLENDING"  -> "ONLINE"
      [] s = "ONLINE"    -> "PARKING"
      [] OTHER           -> "PARKED"

\* The belts whose guard may cut them to slack.
Guarded == In({"BLENDING", "ONLINE"}) \cap BeltAxes

\* A bug: a live axis does not look at the e-stop.
Step_NoEstop(i, over, cut) ==
    IF i \in cut THEN "PARKED" ELSE IF i \in over THEN After(state[i]) ELSE state[i]

\* A bug: the ramp of an e-stop never completes.
Step_NoRamp(i, over, cut) ==
    IF state[i] = "ESTOPPING" THEN "ESTOPPING" ELSE Step_NoEstop(i, over, cut)

\* Where the cycle takes axis i when the states of the axes in over are over
\* and the belts in cut are cut: a sampled e-stop stops what is live first.
Step(i, over, cut) ==
    IF sampled /\ state[i] \in {"BLENDING", "ONLINE"} THEN "ESTOPPING"
    ELSE IF i \in cut THEN "PARKED"
    ELSE IF i \in over THEN After(state[i])
    ELSE state[i]

\* Every axis steps; of the homings that end, some found their reference.
StepAxes ==
    /\ RtStep("axes", "unpark")
    /\ \E over \in SUBSET Timed, cut \in SUBSET Guarded :
          /\ state' = [i \in Axes |-> Step(i, over, cut)]
          /\ \E found \in SUBSET (In({"HOMING"}) \cap over) :
                homed' = [i \in Axes |-> homed[i] \/ i \in found]
    /\ UNCHANGED <<flagVars, estopVars, edgeVars, cmdQueue, testVars>>

\* allAxesHomed: devices home on their own, belts not at all.
AllAxesHomed == \A i \in PosAxes : homed[i]

\* A bug: one homed axis is enough for the rig to unpark.
AutoUnpark_AnyHomed ==
    /\ RtStep("unpark", "idle")
    /\ IF ~unparkDone /\ (\E i \in Axes : homed[i])
         THEN unparkDone' = TRUE /\ state' = UnparkAxes
         ELSE UNCHANGED <<unparkDone, state>>
    /\ UNCHANGED <<homed, needsRehome, estopVars, edgeVars, cmdQueue, testVars>>

AutoUnpark ==
    /\ RtStep("unpark", "idle")
    /\ IF ~unparkDone /\ AllAxesHomed /\ (\E i \in Axes : homed[i])
         THEN unparkDone' = TRUE /\ state' = UnparkAxes
         ELSE UNCHANGED <<unparkDone, state>>
    /\ UNCHANGED <<homed, needsRehome, estopVars, edgeVars, cmdQueue, testVars>>

Cycle ==
    \/ BeginCycle
    \/ PopHoming \/ PopPark \/ PopUnpark \/ PopSlack \/ PopTension \/ PopEngage \/ PopRelease
    \/ EndDrain
    \/ StartTest \/ NoTest \/ RunTest \/ EndTest
    \/ SampleEstop \/ StepAxes \/ AutoUnpark

-----------------------------------------------------------------------------
(* The other threads, at any step of a cycle. *)

\* enqueueCommand: dropped when the queue is full.
Enqueue(c) ==
    /\ Len(cmdQueue) < QueueCap
    /\ cmdQueue' = Append(cmdQueue, c)
    /\ UNCHANGED <<axisVars, flagVars, estopVars, edgeVars, testVars, rt>>

\* requestCommissioningStart: one test active or pending at a time.
RequestTest(plan) ==
    /\ testing = {} /\ testPending = {}
    /\ testPending' = plan
    /\ UNCHANGED <<axisVars, flagVars, estopVars, edgeVars, cmdQueue, testing, rt>>

\* setEmergencyStop, atomic here (EstopTrip takes it apart).
PressEstop ==
    /\ estopInput' = TRUE
    /\ estopTripped' = TRUE
    /\ UNCHANGED <<axisVars, flagVars, edgeVars, cmdQueue, testVars, rt>>

ReleaseEstop ==
    /\ estopInput' = FALSE
    /\ UNCHANGED <<axisVars, flagVars, estopTripped, edgeVars, cmdQueue, testVars, rt>>

Surfaces ==
    \/ \E c \in Commands : Enqueue(c)
    \/ \E plan \in TestPlans : RequestTest(plan)
    \/ PressEstop \/ ReleaseEstop

-----------------------------------------------------------------------------
(* What ControlLoop, its start and the init worker call between cycles. *)

LoopHome ==
    /\ rt = "idle"
    /\ StartHoming(AllAxes)
    /\ UNCHANGED <<estopVars, edgeVars, cmdQueue, testVars, rt>>

LoopPark ==
    /\ rt = "idle"
    /\ state' = ParkAxes
    /\ UNCHANGED <<homed, flagVars, estopVars, edgeVars, cmdQueue, testVars, rt>>

\* The reaction to a drive fault.
LoopFault ==
    /\ rt = "idle"
    /\ needsRehome' = TRUE
    /\ state' = ParkAxes
    /\ UNCHANGED <<homed, unparkDone, estopVars, edgeVars, cmdQueue, testVars, rt>>

SetNeedsRehome ==
    /\ rt = "idle"
    /\ needsRehome' = TRUE
    /\ UNCHANGED <<axisVars, unparkDone, estopVars, edgeVars, cmdQueue, testVars, rt>>

ForceAxisParked(i) ==
    /\ rt = "idle"
    /\ state' = [state EXCEPT ![i] = "PARKED"]
    /\ homed' = [homed EXCEPT ![i] = FALSE]
    /\ needsRehome' = TRUE
    /\ UNCHANGED <<unparkDone, estopVars, edgeVars, cmdQueue, testVars, rt>>

\* configure: the axes are reseated and the stale commands dropped; the edge
\* the last cycle saw, the auto-unpark flag and the test are kept.
Configure ==
    /\ rt = "idle"
    /\ state' = [i \in Axes |-> "PARKED"]
    /\ homed' = [i \in Axes |-> FALSE]
    /\ needsRehome' = TRUE
    /\ cmdQueue' = <<>>
    /\ UNCHANGED <<unparkDone, estopVars, edgeVars, testVars, rt>>

\* clearEmergencyTrip, granted.
ClearTrip ==
    /\ rt = "idle"
    /\ ~estopInput
    /\ estopTripped' = FALSE
    /\ UNCHANGED <<axisVars, flagVars, estopInput, edgeVars, cmdQueue, testVars, rt>>

Callers ==
    \/ LoopHome \/ LoopPark \/ LoopFault \/ SetNeedsRehome \/ Configure \/ ClearTrip
    \/ \E i \in Axes : ForceAxisParked(i)

MotionNext == Cycle \/ Surfaces \/ Callers

MotionSafety == MotionInit /\ [][MotionNext]_motionVars

\* A timed state of axis i ends: ramps, blends and searches count the cycles
\* they last, so some cycle is the last one.
TimerElapses(i) ==
    /\ StepAxes
    /\ state[i] \in {"HOMING", "UNPARKING", "BLENDING", "PARKING", "ESTOPPING"}
    /\ state'[i] # state[i]

-----------------------------------------------------------------------------
RtSteps == {"idle", "drain", "service", "sample", "axes", "unpark"}

\* The type invariant of the rig's state, and the capacity of its queue.
MotionTypeOK ==
    /\ state \in [Axes -> States]
    /\ homed \in [Axes -> BOOLEAN]
    /\ needsRehome \in BOOLEAN
    /\ unparkDone \in BOOLEAN
    /\ estopInput \in BOOLEAN
    /\ estopTripped \in BOOLEAN
    /\ prevEstop \in BOOLEAN
    /\ sampled \in BOOLEAN
    /\ cmdQueue \in Seq(Command) /\ Len(cmdQueue) <= QueueCap
    /\ testPending \in SUBSET Axes
    /\ testing \in SUBSET Axes
    /\ rt \in RtSteps

PosLive == {"UNPARKING", "BLENDING", "ONLINE", "PARKING", "TESTING"}
DevLive == {"BLENDING", "ONLINE", "PARKING"}

\* No axis moves in a frame it does not have: a position axis that ramps,
\* blends, tracks or tests, and a device whose force field is in or easing
\* out, has been homed since it last lost its reference (startUnpark's
\* "never unpark an axis with no valid position reference").
LiveIsHomed ==
    /\ \A i \in PosAxes : state[i] \in PosLive => homed[i]
    /\ \A i \in DevAxes : state[i] \in DevLive => homed[i]

\* A belt never homes, unparks or tests, and a device never unparks or tests:
\* neither follows the lifecycle of the rig.  And an axis tests only as one
\* of the axes the running test excites.
KindKeepsToItsStates ==
    /\ In({"HOMING"}) \cap BeltAxes = {}
    /\ In({"UNPARKING", "TESTING"}) \subseteq PosAxes
    /\ In({"TESTING"}) \subseteq testing

\* After the axes of a cycle that sampled the e-stop have stepped, no belt
\* and no device holds or blends in a force and no axis tracks telemetry,
\* even when the cycle saw no rising edge (a trip cleared and pressed again
\* since the last sample).
StoppedUnderEstop ==
    sampled /\ rt \in {"unpark", "idle"} =>
        /\ In({"ONLINE"}) = {}
        /\ In({"BLENDING"}) \subseteq PosAxes

\* How far an axis is from its rest while an e-stop holds.
Height(s) ==
    CASE s = "PARKED"    -> 0 [] s = "ESTOPPING" -> 1
      [] s = "PARKING"   -> 2 [] s = "ONLINE"    -> 3
      [] s = "BLENDING"  -> 4 [] s = "UNPARKING" -> 5
      [] s = "HOMING"    -> 6 [] s = "TESTING"   -> 6

\* Nothing moves after an e-stop until the drives are re-initialized: while
\* the stop holds a parked axis stays parked, and one that moves only comes
\* nearer to its rest, whatever is commanded, homed, tested or sampled late
\* (COMMAND_CONTRACT.md, the e-stop trip rule).
NothingStartsUnderEstop ==
    [][EstopHolds => \A i \in Axes :
          state'[i] = state[i] \/ Height(state'[i]) < Height(state[i])]_motionVars

Leaves(i) == state[i] = "PARKED" /\ state'[i] # "PARKED"
Executes(t, i) ==
    /\ rt = "drain"
    /\ Head(cmdQueue).type = t
    /\ i \in Named(Head(cmdQueue).axis)

\* Belt tension has exactly one trigger, and a device moves only on a
\* deliberate device action: a slack belt leaves PARKED on TensionBelts, a
\* limp device on an engage that names it or a home targeted at it, never on
\* a home-all, an unpark, an auto-unpark or a test (COMMAND_CONTRACT.md, the
\* belt-tension and device engage rules).
OneTrigger ==
    [][/\ \A i \in BeltAxes : Leaves(i) => Executes("TensionBelts", i)
       /\ \A i \in DevAxes : Leaves(i) =>
             \/ Executes("EngageDevice", i)
             \/ Executes("StartHoming", i) /\ Head(cmdQueue).axis # AllAxes]_motionVars

\* The rig comes up together: without an Unpark command no position axis
\* leaves its park for the ramp to centre while another has no reference (a
\* homing that failed holds its peers parked).
RigUnparksTogether ==
    [][(\E i \in PosAxes : Leaves(i) /\ state'[i] = "UNPARKING")
          => AllAxesHomed \/ \E i \in PosAxes : Executes("StartUnpark", i)]_motionVars
=============================================================================
