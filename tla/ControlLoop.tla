---------------------------- MODULE ControlLoop ----------------------------
(***************************************************************************)
(* The control loop around MotionController: the worker thread's life from *)
(* start() to its parked exit, the drive faults it reacts to, and the init *)
(* worker of WebServer, which takes the drives to OP and back and is the   *)
(* one that configures the motion controller and clears an e-stop trip.    *)
(*                                                                         *)
(* Every step is one of MotionController's, or leaves its state alone: the *)
(* composition shows that the calls the loop and the init worker make fall *)
(* between two cycles of process().                                        *)
(***************************************************************************)
EXTENDS MotionController

CONSTANT
    Patient         \* TRUE: a lifecycle button is pressed only once the last
                    \* one's transition is over; FALSE: at any time

ASSUME PatientAssumption == Patient \in BOOLEAN

VARIABLES
    loop,           \* where run() is: off, starting, main, exiting or park
    stopReq,        \* m_stopRequested of the worker
    running,        \* ControlLoop::m_running
    op,             \* EtherCATMaster::isOperational
    initPc,         \* where the init worker is in an init or a de-init
    pressed,        \* history: an e-stop came since the init began
    faulted,        \* m_faultSeen of the fault monitor
    carried,        \* history: the position axes whose reference is older
                    \* than this run of the loop
    parkCmd         \* history: a command or test was taken while parking to exit

loopVars == <<loop, stopReq, running>>
initVars == <<op, initPc, pressed>>
histVars == <<carried, parkCmd>>
vars == <<motionVars, loopVars, initVars, faulted, histVars>>

Init ==
    /\ MotionInit
    /\ loop = "off"
    /\ stopReq = FALSE
    /\ running = FALSE
    /\ op = FALSE
    /\ initPc = "idle"
    /\ pressed = FALSE
    /\ faulted = {}
    /\ carried = {}
    /\ parkCmd = FALSE

Parked == In({"PARKED"}) = Axes
StillCarried == carried' = {i \in carried : homed'[i]}

-----------------------------------------------------------------------------
(* The worker thread. *)

\* A bug: the loop starts without its auto-home.
LoopStarts_NoHome ==
    /\ loop = "starting" /\ rt = "idle"
    /\ loop' = "main"
    /\ running' = TRUE
    /\ carried' = {i \in PosAxes : homed[i]}
    /\ UNCHANGED <<motionVars, stopReq, initVars, faulted, parkCmd>>

\* run() enters its main loop: the started callback, then the auto-home.
LoopStarts ==
    /\ loop = "starting"
    /\ loop' = "main"
    /\ running' = TRUE
    /\ IF needsRehome THEN LoopHome ELSE UNCHANGED motionVars
    /\ carried' = {i \in PosAxes : homed'[i]}
    /\ UNCHANGED <<stopReq, initVars, faulted, parkCmd>>

\* A bug: the main loop does not look at its stop request.
LoopCycles_NoStop ==
    /\ \/ loop = "main"
       \/ loop = "park" /\ ~Parked
    /\ BeginCycle
    /\ UNCHANGED <<loopVars, initVars, faulted, histVars>>

\* Another cycle begins: the loop checks its stop request between two, the
\* park loop whether every axis is parked.
LoopCycles ==
    /\ \/ loop = "main" /\ ~stopReq
       \/ loop = "park" /\ ~Parked
    /\ BeginCycle
    /\ UNCHANGED <<loopVars, initVars, faulted, histVars>>

\* A command is taken from the queue.
TakesCommand ==
    /\ PopHoming \/ PopPark \/ PopUnpark \/ PopSlack \/ PopTension \/ PopEngage \/ PopRelease
    /\ parkCmd' = (parkCmd \/ loop = "park")
    /\ StillCarried
    /\ UNCHANGED <<loopVars, initVars, faulted>>

TakesTest ==
    /\ StartTest
    /\ parkCmd' = (parkCmd \/ loop = "park")
    /\ UNCHANGED <<loopVars, initVars, faulted, carried>>

ProcessSteps ==
    /\ EndDrain \/ NoTest \/ RunTest \/ EndTest \/ StepAxes \/ AutoUnpark
    /\ UNCHANGED <<loopVars, initVars, faulted, histVars>>

\* The falling edge of the sampled e-stop resets the fault monitor, in the
\* main loop.
SamplesEstop ==
    /\ SampleEstop
    /\ faulted' = IF loop = "main" /\ sampled /\ ~EstopHolds THEN {} ELSE faulted
    /\ UNCHANGED <<loopVars, initVars, histVars>>

\* A drive faults: the rig parks and needs a rehome.
DriveFault(i) ==
    /\ loop = "main" /\ op /\ ~sampled
    /\ i \notin faulted
    /\ faulted' = faulted \cup {i}
    /\ LoopFault
    /\ UNCHANGED <<loopVars, initVars, histVars>>

\* A drive recovers: with the last one the rig rehomes, if it still needs to.
FaultClears(i) ==
    /\ loop = "main" /\ op /\ ~sampled
    /\ i \in faulted
    /\ faulted' = faulted \ {i}
    /\ IF faulted' = {} /\ needsRehome THEN LoopHome ELSE rt = "idle" /\ UNCHANGED motionVars
    /\ StillCarried
    /\ UNCHANGED <<loopVars, initVars, parkCmd>>

\* The lockout of a drive is cleared by hand: no rehome follows.
LockoutCleared(i) ==
    /\ loop = "main" /\ op /\ ~sampled
    /\ rt = "idle"
    /\ i \in faulted
    /\ faulted' = faulted \ {i}
    /\ UNCHANGED <<motionVars, loopVars, initVars, histVars>>

\* The main loop ends at a stop request: a homing is cut short first ...
LoopExits ==
    /\ loop = "main" /\ stopReq /\ rt = "idle"
    /\ loop' = "exiting"
    /\ UNCHANGED <<motionVars, stopReq, running, initVars, faulted, histVars>>

ForcesParked(i) ==
    /\ loop = "exiting"
    /\ state[i] = "HOMING"
    /\ ForceAxisParked(i)
    /\ carried' = carried \ {i}
    /\ UNCHANGED <<loopVars, initVars, faulted, parkCmd>>

\* A bug: an axis in its homing is not forced out of it.
ParksToExit_Homing ==
    /\ loop = "exiting"
    /\ loop' = "park"
    /\ LoopPark
    /\ UNCHANGED <<stopReq, running, initVars, faulted, histVars>>

\* ... then every axis in motion is parked.
ParksToExit ==
    /\ loop = "exiting"
    /\ In({"HOMING"}) = {}
    /\ loop' = "park"
    /\ LoopPark
    /\ UNCHANGED <<stopReq, running, initVars, faulted, histVars>>

\* What parking cannot bring down in the 8 s of the park loop: the ramp of a
\* park (3 s by default) and of an e-stop (0.5 s) are shorter.
Stuck == \E i \in Axes :
            \/ state[i] \notin {"PARKED", "PARKING", "ESTOPPING"}
            \/ state[i] = "ESTOPPING" /\ ~EstopHolds

\* The park loop is over, or timed out; the stopped callback.
LoopStops ==
    /\ loop = "park"
    /\ Parked \/ Stuck
    /\ loop' = "off"
    /\ running' = FALSE
    /\ SetNeedsRehome
    /\ UNCHANGED <<stopReq, initVars, faulted, histVars>>

Worker ==
    \/ LoopStarts \/ LoopCycles \/ TakesCommand \/ TakesTest \/ ProcessSteps
    \/ SamplesEstop \/ LoopExits \/ ParksToExit \/ LoopStops
    \/ \E i \in Axes : ForcesParked(i)

Drives == \E i \in Axes : DriveFault(i) \/ FaultClears(i) \/ LockoutCleared(i)

-----------------------------------------------------------------------------
(* The lifecycle buttons and the init worker. *)

\* The start routes' guards, then start() itself.  A start pressed while the
\* last worker is still starting or a seat pass runs joins that thread first.
StartLoop ==
    /\ loop = "off" /\ ~running /\ op /\ ~EstopHolds
    /\ initPc = "idle" \/ (~Patient /\ initPc # "seatPass")
    /\ loop' = "starting"
    /\ stopReq' = FALSE
    /\ faulted' = {}
    /\ parkCmd' = FALSE
    /\ UNCHANGED <<motionVars, running, initVars, carried>>

StopLoop ==
    /\ loop # "off" /\ ~stopReq
    /\ stopReq' = TRUE
    /\ UNCHANGED <<motionVars, loop, running, initVars, faulted, histVars>>

InitAt(from, to) == initPc = from /\ initPc' = to

RequestDeinit ==
    /\ op
    /\ Patient => loop # "starting"
    /\ InitAt("idle", "stopping")
    /\ UNCHANGED <<motionVars, loopVars, op, pressed, faulted, histVars>>

\* A running loop is stopped and its thread joined ...
DeinitStops ==
    /\ \/ running /\ InitAt("stopping", "joining") /\ stopReq' = TRUE
       \/ ~running /\ InitAt("stopping", "seating") /\ UNCHANGED stopReq
    /\ UNCHANGED <<motionVars, loop, running, op, pressed, faulted, histVars>>

DeinitJoins ==
    /\ loop = "off"
    /\ InitAt("joining", "seating")
    /\ UNCHANGED <<motionVars, loopVars, op, pressed, faulted, histVars>>

\* ... the vertical axes are seated, unless a loop runs or an e-stop holds
\* (the worker of a seat pass replaces any other, once joined) ...
DeinitSeats ==
    /\ \/ (running \/ EstopHolds) /\ InitAt("seating", "shutdown") /\ UNCHANGED stopReq
       \/ ~running /\ ~EstopHolds /\ InitAt("seating", "seatPass") /\ stopReq' = TRUE
    /\ UNCHANGED <<motionVars, loop, running, op, pressed, faulted, histVars>>

SeatPass ==
    /\ loop = "off"
    /\ InitAt("seatPass", "shutdown")
    /\ SetNeedsRehome
    /\ UNCHANGED <<loopVars, op, pressed, faulted, histVars>>

\* ... and the drives leave OP.
ShutDown ==
    /\ InitAt("shutdown", "idle")
    /\ op' = FALSE
    /\ UNCHANGED <<motionVars, loopVars, pressed, faulted, histVars>>

\* The e-stop count is read as the init begins.
RequestInit ==
    /\ ~op
    /\ InitAt("idle", "checking")
    /\ pressed' = FALSE
    /\ UNCHANGED <<motionVars, loopVars, op, faulted, histVars>>

\* The loop must be stopped to configure; what is read here is used below.
InitChecks ==
    /\ InitAt("checking", IF running THEN "entering" ELSE "configuring")
    /\ UNCHANGED <<motionVars, loopVars, op, pressed, faulted, histVars>>

InitConfigures ==
    /\ InitAt("configuring", "entering")
    /\ Configure
    /\ carried' = {}
    /\ UNCHANGED <<loopVars, op, pressed, faulted, parkCmd>>

\* initializeAndEnterOp: a failure leaves the trip alone.
InitEnters ==
    /\ \/ InitAt("entering", "clearing") /\ op' = TRUE
       \/ InitAt("entering", "idle") /\ UNCHANGED op
    /\ UNCHANGED <<motionVars, loopVars, pressed, faulted, histVars>>

\* clearEmergencyTrip, refused under a running loop, a held e-stop, or one
\* that came since the init began.
InitClears ==
    /\ InitAt("clearing", "idle")
    /\ IF running \/ estopInput \/ pressed THEN UNCHANGED motionVars ELSE ClearTrip
    /\ UNCHANGED <<loopVars, op, pressed, faulted, histVars>>

Lifecycle ==
    \/ StartLoop \/ StopLoop
    \/ RequestDeinit \/ DeinitStops \/ DeinitJoins \/ DeinitSeats \/ SeatPass \/ ShutDown
    \/ RequestInit \/ InitChecks \/ InitConfigures \/ InitEnters \/ InitClears

-----------------------------------------------------------------------------
Presses ==
    /\ PressEstop
    /\ pressed' = TRUE
    /\ UNCHANGED <<loopVars, op, initPc, faulted, histVars>>

Asks ==
    /\ \E c \in Commands : Enqueue(c)
    /\ UNCHANGED <<loopVars, initVars, faulted, histVars>>

OtherSurfaces ==
    /\ ReleaseEstop \/ \E plan \in TestPlans : RequestTest(plan)
    /\ UNCHANGED <<loopVars, initVars, faulted, histVars>>

Next == Worker \/ Drives \/ Lifecycle \/ Presses \/ Asks \/ OtherSurfaces

Spec == Init /\ [][Next]_vars

\* The worker thread is scheduled, and what it times comes to its end: a
\* ramp or a search of an axis, a commissioning test, the park loop's 8 s.
TimerEnds(i) ==
    /\ TimerElapses(i)
    /\ UNCHANGED <<loopVars, initVars, faulted, histVars>>

TestEnds ==
    /\ EndTest
    /\ UNCHANGED <<loopVars, initVars, faulted, histVars>>

LiveSpec ==
    /\ Spec
    /\ WF_vars(Worker)
    /\ \A i \in Axes : SF_vars(TimerEnds(i))
    /\ SF_vars(TestEnds)
    /\ SF_vars(LoopStops)

-----------------------------------------------------------------------------
LoopSteps == {"off", "starting", "main", "exiting", "park"}
InitSteps == {"idle", "stopping", "joining", "seating", "seatPass", "shutdown",
              "checking", "configuring", "entering", "clearing"}

\* The type invariant of the loop and the init worker.
TypeOK ==
    /\ MotionTypeOK
    /\ loop \in LoopSteps
    /\ stopReq \in BOOLEAN
    /\ running \in BOOLEAN
    /\ op \in BOOLEAN
    /\ initPc \in InitSteps
    /\ pressed \in BOOLEAN
    /\ faulted \in SUBSET Axes
    /\ carried \in SUBSET Axes
    /\ parkCmd \in BOOLEAN

\* The loop and the init worker drive the motion controller only as it
\* allows: their calls fall between two cycles of process().
DrivesMotion == MotionSafety

\* A stop brings the rig down: once the worker is gone every axis is parked,
\* unless a command or a test was taken by the very cycles that park.
StopsParked == loop = "off" /\ ~parkCmd => Parked

\* No position axis moves in a frame from before this run of the loop: the
\* encoders are incremental, so an axis that ramps, blends, tracks or tests
\* was homed since the start (run()'s auto-home, the rehome a stop re-arms).
\* Under an e-stop the auto-home is refused, and nothing moves.
FreshReference ==
    loop = "main" /\ ~EstopHolds =>
        In({"UNPARKING", "BLENDING", "ONLINE", "TESTING"}) \cap PosAxes \cap carried = {}

\* Clearing a trip leaves nothing to move by itself: the initialize that
\* clears it has left the rig parked and unhomed, a rehome pending and no
\* loop running (COMMAND_CONTRACT.md: "After it, the rig is unhomed and
\* parked").
ClearedAtRest ==
    [][estopTripped /\ ~estopTripped' =>
          /\ Parked
          /\ \A i \in Axes : ~homed[i]
          /\ needsRehome
          /\ loop = "off"]_vars

\* The e-stop promised to its callers (EstopLatch), whose atomics EstopTrip
\* takes apart: here a press and a clear are one step each.
Initializing == initPc \in {"checking", "configuring", "entering", "clearing"}
Latch == INSTANCE EstopLatch WITH
           Inits <- {"init"},
           stopped <- estopTripped,
           phase <- [i \in {"init"} |->
                       IF ~Initializing THEN "out" ELSE IF pressed THEN "late" ELSE "clean"]

\* Around the whole lifecycle the trip is that latch: no button, no start and
\* no de-init, at whatever time it is pressed, clears an e-stop, and no
\* initialize clears one that is younger than itself.
KeepsLatch == Latch!Spec

\* The fault handling promised to the loop (FaultEpisodes), whose monitor
\* DriveFaults takes apart.
Episodes == INSTANCE FaultEpisodes WITH
              Drives <- Axes, open <- faulted, owed <- needsRehome

\* The loop's view of the drive faults is that promise: a fault leaves a
\* rehome owed, and while another drive is in its fault no recovery begins it.
KeepsEpisodes == Episodes!Spec

\* A stop ends the loop, whatever the rig is doing (homing, in a test, under
\* an e-stop, re-faulting or being commanded), provided the surfaces let a
\* drain of the queue end.
StopEnds == []<>(rt # "drain") => (stopReq ~> loop = "off")

\* An e-stop that keeps holding brings every axis of a running loop to rest,
\* a homing or a test it caught between two samples included, provided the
\* surfaces let a drain of the queue end.
EstopSettles ==
    []<>(rt # "drain") => (EstopHolds /\ running ~> (Parked \/ ~EstopHolds \/ ~running))

\* What StopEnds and StopsParked rest on: from the loop's exit until its end
\* an axis stays in its state or comes nearer to its rest, under e-stops,
\* releases and tests that end, unless a command or a test was taken.
OnlyComesDown ==
    [][(loop = "exiting" \/ (loop = "park" /\ ~parkCmd')) =>
          \A i \in Axes : state'[i] = state[i] \/ Height(state'[i]) < Height(state[i])]_vars

\* What ControlLoop says of a drive fault, "parking all axes, rehome
\* required": while a rehome is pending no position axis unparks.
RehomeRequired ==
    [][needsRehome /\ loop = "main" =>
          \A i \in PosAxes : Leaves(i) => state'[i] # "UNPARKING"]_vars
=============================================================================
