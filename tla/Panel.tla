------------------------------- MODULE Panel --------------------------------
(***************************************************************************)
(* The GPIO panel beside the other surfaces.  Every 10 ms its thread reads *)
(* its lines and a status of the program, and some time later acts on what *)
(* it read: the filtered e-stop, the RUN button, the start chained to a    *)
(* cold RUN, and the re-initialize that RUN begins while the e-stop is     *)
(* tripped.  In between, the init worker, the loop and the other surfaces  *)
(* go on.                                                                  *)
(*                                                                         *)
(* The lifecycle is that of ControlLoop, coarser: an e-stop is one step    *)
(* (EstopTrip shows that it may be), and the loop is starting, on, ending  *)
(* or off.  Park, belt and device buttons only queue commands.             *)
(***************************************************************************)
EXTENDS Integers

CONSTANTS
    EngageReads,    \* kPanelEngageReads
    ReleaseReads,   \* polls of kPanelReleaseSec (50 in the code)
    ReinitPolls,    \* polls of the minute after which a re-initialize gives up
    MaxEvents       \* bound on what people do: lines moved, buttons pressed

ASSUME ReadAssumption == EngageReads \in Nat \ {0} /\ ReleaseReads \in Nat \ {0}
ASSUME BoundAssumption == ReinitPolls \in Nat /\ MaxEvents \in Nat

VARIABLES
    mushroom,       \* the e-stop line reads open
    st,             \* what this poll read: the lines and the status
    poll,           \* "read" or "act"
    latched,        \* estopLatched, and the filter's m_engaged it follows
    reads,          \* the filter's m_run
    autoStart,      \* engageAutoStart
    stage,          \* reinitStage
    ticks,          \* reinitTicks
    sawBusy,        \* reinitSawBusy
    prevBusy,       \* prevInitBusy
    op,             \* EtherCATMaster::isOperational
    initBusy,       \* m_initBusy
    asked,          \* m_initRequested and m_deinitRequested
    worker,         \* where the init worker is
    overtaken,      \* an e-stop came since the init began
    loop,           \* the control loop: off, starting, on or ending
    input,          \* m_emergencyStop
    tripped,        \* m_estopTripped
    wish,           \* history: the loop RUN wishes for: none, alive or lapsed
    seen,           \* history: a poll has read the status since the init began
    late,           \* history: a start the de-init under way did not see running
    events          \* what people did so far

lineVars == <<mushroom, st, poll>>
chainVars == <<latched, reads, autoStart, stage, ticks, sawBusy, prevBusy>>
initVars == <<op, initBusy, asked, worker, overtaken>>
stopVars == <<input, tripped>>
vars == <<lineVars, chainVars, initVars, loop, stopVars, wish, seen, late, events>>

EstopHolds == input \/ tripped
Running == loop \in {"on", "ending"}        \* ControlLoop::isRunning

\* getStatus, and the two lines that matter here.
Status(run, fault) ==
    [open |-> mushroom, run |-> run, masterOp |-> op, loopRunning |-> Running, fault |-> fault,
     estop |-> EstopHolds, estopInput |-> input, initBusy |-> initBusy]

Init ==
    /\ mushroom = FALSE
    /\ op = FALSE /\ initBusy = FALSE /\ asked = {} /\ worker = "idle"
    /\ overtaken = FALSE
    /\ loop = "off"
    /\ input = FALSE /\ tripped = FALSE
    /\ st = Status(FALSE, FALSE)
    /\ poll = "read"
    /\ latched = FALSE /\ reads = 0
    /\ autoStart = FALSE /\ stage = 0 /\ ticks = 0
    /\ sawBusy = FALSE /\ prevBusy = FALSE
    /\ wish = "none" /\ seen = TRUE /\ late = FALSE /\ events = 0

\* A web Stop, or an init that fails, ends the wish RUN had for the loop.
Lapses == wish' = IF wish = "alive" THEN "lapsed" ELSE wish

\* Somebody does something.
Event == events < MaxEvents /\ events' = events + 1

-----------------------------------------------------------------------------
(* What the surfaces call. *)

\* setEmergencyStop(true), as one step: an init under way is too old to clear it.
Presses == input' = TRUE /\ tripped' = TRUE /\ overtaken' = TRUE

\* requestInit and requestDeinit: refused while one is at work, an init also
\* while the drives are in OP, a de-init while the master is not initialized.
Accepts(r) == ~initBusy /\ (r = "deinit" <=> op)
Requests(rs) ==
    LET granted == {r \in rs : Accepts(r)}
    IN  /\ asked' = asked \cup granted
        /\ initBusy' = (initBusy \/ granted # {})

\* The start routes' guards and start(): a worker still starting is stopped
\* and joined, and the new one starts.
MayStart == op /\ ~Running

-----------------------------------------------------------------------------
(* The panel: one poll is a read and an act. *)

\* The lines and the status are read; a debounced press of RUN is an event.
\* Drives in OP may be in a fault: only a chained start asks.
Read ==
    /\ poll = "read" /\ poll' = "act"
    /\ \E run, fault \in BOOLEAN :
          /\ fault => op /\ autoStart
          /\ st' = Status(run, fault)
          /\ IF run THEN Event ELSE UNCHANGED events
    /\ seen' = TRUE
    /\ wish' = IF st.initBusy /\ ~initBusy /\ ~op THEN "none" ELSE wish
    /\ UNCHANGED <<mushroom, chainVars, initVars, loop, stopVars, late>>

\* EstopFilter::step, one poll further: the level changes once it has read
\* the other way often enough in a row.
Settles == reads + 1 >= IF latched THEN ReleaseReads ELSE EngageReads
Engages == st.open /\ ~latched /\ Settles
Releases == ~st.open /\ latched /\ Settles
Filter ==
    /\ latched' = IF Engages \/ Releases THEN st.open ELSE latched
    /\ reads' = IF st.open = latched \/ Settles THEN 0 ELSE reads + 1

\* A bug: an input released elsewhere is not asserted anew.
Asserts_Once == Engages

\* The e-stop of a poll: engaged, or asserted anew when somebody released
\* the input while the mushroom is open.
Asserts == Engages \/ (latched /\ ~Releases /\ ~st.estopInput)
PanelEstop ==
    IF Asserts THEN Presses
    ELSE /\ input' = (input /\ ~Releases)
         /\ UNCHANGED <<tripped, overtaken>>

\* A press of RUN counts while the mushroom is closed; with the drives tripped
\* it re-initializes them.
Pressed == st.run /\ ~latched'
RunsFree == Pressed /\ ~st.estopInput /\ ~st.estop
RunsTripped == Pressed /\ ~st.estopInput /\ st.estop
Reinits == RunsTripped /\ ~st.initBusy

\* What a press of RUN does: stop a loop that runs, initialize from cold, or
\* start; while tripped, the first step of a re-initialize.
RunCall ==
    CASE Reinits /\ st.loopRunning -> {"stop"}
      [] Reinits /\ ~st.loopRunning /\ st.masterOp -> {"deinit"}
      [] Reinits /\ ~st.loopRunning /\ ~st.masterOp -> {"init"}
      [] RunsFree /\ st.loopRunning -> {"stop"}
      [] RunsFree /\ ~st.loopRunning /\ st.masterOp -> {"start"}
      [] RunsFree /\ ~st.loopRunning /\ ~st.masterOp /\ ~st.initBusy -> {"init"}
      [] OTHER -> {}

\* A bug: a press while tripped, or one to stop, leaves the chain armed.
ArmedNow_Kept == autoStart \/ (RunsFree /\ "init" \in RunCall)

\* The chained start, after what the press made of it.
ArmedNow ==
    IF RunsTripped \/ (RunsFree /\ st.loopRunning) THEN FALSE
    ELSE autoStart \/ (RunsFree /\ "init" \in RunCall)
ChainStarts ==
    /\ ArmedNow /\ ~latched' /\ ~st.estop /\ ~st.fault
    /\ st.masterOp /\ ~st.loopRunning /\ ~st.initBusy
ChainDrops ==
    \/ latched' \/ st.estop \/ st.fault
    \/ ~st.masterOp /\ ~st.initBusy /\ prevBusy

\* The re-initialize, after what the press made of it.
StageNow ==
    IF ~Reinits THEN stage
    ELSE CASE "stop" \in RunCall -> 1
           [] "deinit" \in RunCall -> 2
           [] OTHER -> 3

\* A bug: each poll begins to count anew.
TicksNow_Reset == 0

TicksNow == IF RunsTripped THEN 0 ELSE ticks
SawNow == (sawBusy /\ ~RunsTripped) \/ (StageNow = 3 /\ st.initBusy)
GivesUp == TicksNow + 1 > ReinitPolls
StepsOn ==
    /\ ~latched' /\ ~GivesUp /\ ~st.initBusy
    /\ \/ StageNow = 1 /\ ~st.loopRunning
       \/ StageNow = 2 /\ ~st.masterOp
NextStage == IF StageNow = 1 /\ st.masterOp THEN 2 ELSE 3
ReinitCall == IF ~StepsOn THEN {} ELSE IF NextStage = 2 THEN {"deinit"} ELSE {"init"}

ReinitOver ==
    \/ latched' \/ GivesUp
    \/ StageNow = 3 /\ ~st.initBusy /\ (SawNow \/ st.masterOp)

Chains ==
    /\ autoStart' = (ArmedNow /\ ~ChainStarts /\ ~ChainDrops)
    /\ prevBusy' = st.initBusy
    /\ IF StageNow = 0
         THEN /\ stage' = 0 /\ ticks' = TicksNow
              /\ sawBusy' = (sawBusy /\ ~RunsTripped)
         ELSE /\ stage' = IF ReinitOver THEN 0 ELSE IF StepsOn THEN NextStage ELSE StageNow
              /\ ticks' = IF StepsOn \/ stage' = 0 THEN 0 ELSE TicksNow + 1
              /\ sawBusy' = (SawNow /\ ~StepsOn)

Calls == RunCall \cup ReinitCall \cup IF ChainStarts THEN {"start"} ELSE {}

\* acts.start looks at the live state again, the e-stop included.
PanelStarts == "start" \in Calls /\ MayStart /\ ~(input' \/ tripped')

\* The poll acts on what it read, call by call.
Act ==
    /\ poll = "act" /\ poll' = "read"
    /\ Filter
    /\ PanelEstop
    /\ Chains
    /\ Requests(Calls \cap {"init", "deinit"})
    /\ late' = (late \/ PanelStarts)
    /\ loop' = IF PanelStarts THEN "starting"
               ELSE IF "stop" \in Calls /\ Running THEN "ending" ELSE loop
    /\ wish' = IF Asserts \/ RunsTripped \/ (RunsFree /\ st.loopRunning) THEN "none"
               ELSE IF RunCall \cap {"init", "start"} # {} THEN "alive" ELSE wish
    /\ UNCHANGED <<mushroom, st, op, worker, seen, events>>

-----------------------------------------------------------------------------
(* The other surfaces: the web routes, and a hand on the mushroom. *)

MoveMushroom ==
    /\ Event
    /\ mushroom' = ~mushroom
    /\ UNCHANGED <<st, poll, chainVars, initVars, loop, stopVars, wish, seen, late>>

WebEstop ==
    /\ Event
    /\ Presses
    /\ wish' = "none"
    /\ UNCHANGED <<lineVars, chainVars, op, initBusy, asked, worker, loop, seen, late>>

WebRelease ==
    /\ Event
    /\ input' = FALSE
    /\ UNCHANGED <<lineVars, chainVars, initVars, loop, tripped, wish, seen, late>>

WebRequest(r) ==
    /\ Event
    /\ Accepts(r)
    /\ Requests({r})
    /\ UNCHANGED <<lineVars, chainVars, op, worker, overtaken, loop, stopVars, wish, seen, late>>

WebStart ==
    /\ Event
    /\ MayStart /\ ~EstopHolds
    /\ loop' = "starting"
    /\ late' = TRUE
    /\ UNCHANGED <<lineVars, chainVars, initVars, stopVars, wish, seen>>

WebStop ==
    /\ Event
    /\ loop = "on" /\ loop' = "ending"
    /\ Lapses
    /\ UNCHANGED <<lineVars, chainVars, initVars, stopVars, seen, late>>

Surfaces == MoveMushroom \/ WebEstop \/ WebRelease \/ WebStart \/ WebStop
            \/ \E r \in {"init", "deinit"} : WebRequest(r)

-----------------------------------------------------------------------------
(* The control loop's thread and the init worker. *)

LoopStarts ==
    /\ loop = "starting" /\ loop' = "on"
    /\ UNCHANGED <<lineVars, chainVars, initVars, stopVars, wish, seen, events, late>>

LoopEnds ==
    /\ loop = "ending" /\ loop' = "off"
    /\ UNCHANGED <<lineVars, chainVars, initVars, stopVars, wish, seen, events, late>>

Worker(from, to) == worker = from /\ worker' = to

\* A de-init comes first: it stops a loop that runs and joins it.
TakeDeinit ==
    /\ "deinit" \in asked
    /\ Worker("idle", IF Running THEN "joining" ELSE "seating")
    /\ asked' = {}
    /\ late' = (loop = "starting")
    /\ loop' = IF Running THEN "ending" ELSE loop
    /\ UNCHANGED <<lineVars, chainVars, op, initBusy, overtaken, stopVars, wish, seen, events>>

\* A bug: the worker does not wait for the loop it stopped.
JoinLoop_NoWait ==
    /\ Worker("joining", "seating")
    /\ UNCHANGED <<lineVars, chainVars, op, initBusy, asked, overtaken, loop, stopVars, wish, seen, events, late>>

\* waitForStop: the loop's thread is joined.
JoinLoop ==
    /\ loop = "off"
    /\ Worker("joining", "seating")
    /\ UNCHANGED <<lineVars, chainVars, op, initBusy, asked, overtaken, loop, stopVars, wish, seen, events, late>>

\* seatThenStop: no seat under an e-stop or a running loop; else a worker
\* still starting is stopped and joined, and the seat pass runs.
Seat ==
    /\ \/ (Running \/ EstopHolds) /\ Worker("seating", "closing") /\ UNCHANGED loop
       \/ ~Running /\ ~EstopHolds /\ Worker("seating", "seat pass") /\ loop' = "off"
    /\ UNCHANGED <<lineVars, chainVars, op, initBusy, asked, overtaken, stopVars, wish, seen, events, late>>

SeatPassEnds ==
    /\ Worker("seat pass", "closing")
    /\ UNCHANGED <<lineVars, chainVars, op, initBusy, asked, overtaken, loop, stopVars, wish, seen, events, late>>

ShutDown ==
    /\ Worker("closing", "idle")
    /\ op' = FALSE
    /\ initBusy' = FALSE
    /\ UNCHANGED <<lineVars, chainVars, asked, overtaken, loop, stopVars, wish, seen, events, late>>

TakeInit ==
    /\ asked = {"init"} /\ asked' = {}
    /\ Worker("idle", "init")
    /\ overtaken' = FALSE
    /\ seen' = FALSE
    /\ UNCHANGED <<lineVars, chainVars, op, initBusy, loop, stopVars, wish, events, late>>

\* An init that reaches OP takes seconds, hundreds of polls.
InitReachesOp ==
    /\ seen
    /\ Worker("init", "op")
    /\ op' = TRUE
    /\ UNCHANGED <<lineVars, chainVars, initBusy, asked, overtaken, loop, stopVars, wish, seen, events, late>>

\* One that fails may fail at once.
InitFails ==
    /\ Worker("init", "idle")
    /\ initBusy' = FALSE
    /\ Lapses
    /\ UNCHANGED <<lineVars, chainVars, op, asked, overtaken, loop, stopVars, seen, events, late>>

\* clearEmergencyTrip, and the init is over.
InitEnds ==
    /\ Worker("op", "idle")
    /\ initBusy' = FALSE
    /\ tripped' = (tripped /\ (input \/ overtaken \/ Running))
    /\ UNCHANGED <<lineVars, chainVars, op, asked, overtaken, loop, input, wish, seen, events, late>>

InitWorker == TakeDeinit \/ JoinLoop \/ Seat \/ SeatPassEnds \/ ShutDown
              \/ TakeInit \/ InitReachesOp \/ InitFails \/ InitEnds

-----------------------------------------------------------------------------
Next == Read \/ Act \/ Surfaces \/ LoopStarts \/ LoopEnds \/ InitWorker

\* The panel's thread, the init worker and the loop go on; people need not.
Fairness == /\ WF_vars(Read) /\ WF_vars(Act)
            /\ WF_vars(LoopStarts) /\ WF_vars(LoopEnds) /\ WF_vars(InitWorker)

Spec == Init /\ [][Next]_vars /\ Fairness

-----------------------------------------------------------------------------
\* The type invariant of the panel and of what it sees of the program.
TypeOK ==
    /\ st \in [open : BOOLEAN, run : BOOLEAN, masterOp : BOOLEAN, loopRunning : BOOLEAN, fault : BOOLEAN,
              estop : BOOLEAN, estopInput : BOOLEAN, initBusy : BOOLEAN]
    /\ poll \in {"read", "act"}
    /\ {mushroom, latched, autoStart, sawBusy, prevBusy, op, initBusy, overtaken,
        input, tripped, seen, late} \subseteq BOOLEAN
    /\ wish \in {"none", "alive", "lapsed"}
    /\ reads \in 0..EngageReads + ReleaseReads
    /\ stage \in 0..3 /\ ticks \in 0..ReinitPolls
    /\ asked \subseteq {"init", "deinit"} /\ (asked # {} \/ worker # "idle" <=> initBusy)
    /\ worker \in {"idle", "joining", "seating", "seat pass", "closing", "init", "op"}
    /\ loop \in {"off", "starting", "on", "ending"}
    /\ events \in 0..MaxEvents

\* The poll that starts the loop.
StartsLoop == PanelStarts /\ poll = "act" /\ poll' = "read"

\* The panel starts the loop only for a press of RUN that none of these has
\* come after, however stale the status it acts on: an e-stop on any surface,
\* a RUN to stop or to re-initialize, and an init that one poll saw at work
\* and the next saw over without OP (GpioPanel::run, acts.start).
StartsOnlyAsked == [][StartsLoop => wish' # "none"]_vars

\* What GpioPanel.cpp:304-307 promises of the start chained to a cold RUN:
\* "the intent is dropped the moment anything interrupts", a failed init among
\* it.  The code looks at the busy flag from poll to poll, so an init that is
\* over within one poll leaves the chain armed for the next surface's, and a
\* web Stop does too.  (A RUN that comes second to another surface's init is
\* refused one of its own and rests on that one.)
StartsOnlyWanted == [][StartsLoop => wish' = "alive"]_vars

\* An open mushroom, once latched, leaves nothing of the panel's own under
\* way: no start is chained and no re-initialize goes on under it.
LatchDropsChains == latched => ~autoStart /\ stage = 0

\* The e-stop promised to its callers (EstopLatch): a press and a clear are
\* one step each here.
Latch == INSTANCE EstopLatch WITH
           Inits <- {"init"},
           stopped <- tripped,
           phase <- [i \in {"init"} |->
                       IF worker \notin {"init", "op"} THEN "out"
                       ELSE IF overtaken THEN "late" ELSE "clean"]

\* Whatever the panel does on a status grown old, beside the web and the init
\* worker, an e-stop stays until an initialize younger than it clears it: no
\* release, no start and no initialize already under way is a way around it.
KeepsLatch == Latch!Spec

\* A mushroom left open ends with the e-stop held and tripped for good,
\* whoever releases the input or re-initializes meanwhile; one left closed
\* ends with the latch gone.
LatchFollows ==
    /\ <>[]mushroom => <>[](latched /\ input /\ tripped)
    /\ <>[]~mushroom => <>[]~latched

\* A re-initialize begun by RUN comes to its end, also when a step of it is
\* refused, fails at once or is overtaken by another surface.
ReinitEnds == stage # 0 ~> stage = 0

\* The polls that are left to a re-initialize: a full count in each stage.
PollsLeft == CASE stage = 1 -> 3 * (ReinitPolls + 1) - ticks
               [] stage = 2 -> 2 * (ReinitPolls + 1) - ticks
               [] stage = 3 -> (ReinitPolls + 1) - ticks
               [] OTHER -> 0

\* What ReinitEnds rests on: each poll leaves a re-initialize fewer polls, and
\* nothing else gives it more, so it is over after three full counts at most,
\* but for another RUN, which begins it anew.
ReinitIsShort ==
    [][stage # 0 => \/ Act /\ (RunsTripped \/ PollsLeft' < PollsLeft)
                    \/ ~Act /\ PollsLeft' = PollsLeft]_vars

\* The bus is taken from OP only once the loop is off, unless a start came
\* after the de-init had stopped and joined the loop it found running, or was
\* not seen by it yet: the de-init refuses no start.
BusClosesAlone == [][op /\ ~op' => loop = "off" \/ late]_vars
=============================================================================
