---------------------------- MODULE BusOwnership ----------------------------
(***************************************************************************)
(* Who writes the drives' process data (the Linux build).  Three threads   *)
(* take turns: the loop's worker while it runs, the dispatch thread (the   *)
(* OP bridge, then the pump) while it does not, and the init worker while  *)
(* it brings the bus up or down.  They hand it over through seven flags    *)
(* read and written one at a time, each of them a step here; any other     *)
(* thread only asks for a stop, which the owner carries out.               *)
(***************************************************************************)
EXTENDS Naturals, FiniteSets

VARIABLES
    op,             \* isOperational
    initialized,    \* m_initialized
    rtActive,       \* m_rtLoopActive
    pumpActive,     \* m_pumpActive
    pumpCrashed,    \* m_pumpCrashed
    pumpStop,       \* m_pumpStop
    dispatchReq,    \* m_pumpDispatchReq
    dispatchStop,   \* m_pumpDispatchStop
    dispatchBusy,   \* m_dispatchBusy
    pc,             \* where the worker, the dispatch thread and the init worker are
    frames,         \* frames the bridge still has to send
    afterQuiet,     \* what the init worker shuts the bus down for: "deinit" or "init"
    enabled,        \* the controlwords in the process data enable the drives
    stopRequest,    \* m_stopRequest
    owed,           \* history: a stop was asked of enabled drives, not yet done
    early           \* history: a start and the init worker crossed: one of them
                    \* began while the other was at it

busVars == <<op, initialized>>
pumpVars == <<rtActive, pumpActive, pumpCrashed, pumpStop>>
dispatchVars == <<dispatchReq, dispatchStop, dispatchBusy>>
driveVars == <<enabled, stopRequest, owed>>
vars == <<busVars, pumpVars, dispatchVars, pc, frames, afterQuiet, driveVars, early>>

BridgeFrames == 2       \* the code's 10

Threads == {"worker", "dispatch", "init"}

\* A worker that starts takes the bus over from the pump.
Starting == {"asking", "awaiting", "taking", "claiming"}

Init ==
    /\ op = FALSE /\ initialized = FALSE
    /\ rtActive = FALSE /\ pumpActive = FALSE /\ pumpCrashed = FALSE /\ pumpStop = FALSE
    /\ dispatchReq = FALSE /\ dispatchStop = FALSE /\ dispatchBusy = FALSE
    /\ pc = [t \in Threads |-> IF t = "dispatch" THEN "waiting" ELSE "idle"]
    /\ frames = 0
    /\ afterQuiet = "deinit"
    /\ enabled = FALSE /\ stopRequest = FALSE /\ owed = FALSE
    /\ early = FALSE

Goes(t, from, to) == pc[t] = from /\ pc' = [pc EXCEPT ![t] = to]

\* A frame with the controlwords at e: a stop that was asked goes out in it.
Sends(e) ==
    /\ enabled' = (e /\ ~stopRequest)
    /\ stopRequest' = FALSE
    /\ owed' = (owed /\ enabled')

-----------------------------------------------------------------------------
(* stopPump and startPump, called by the worker (t) and by the init worker. *)

\* A bug: the dispatch thread is waited for, but not told to leave.
AskPumpToStop_Not(t, from, to) ==
    /\ Goes(t, from, to)
    /\ UNCHANGED <<busVars, pumpVars, dispatchVars, frames, afterQuiet, driveVars, early>>

AskPumpToStop(t, from, to) ==
    /\ Goes(t, from, to)
    /\ pumpStop' = TRUE
    /\ UNCHANGED <<busVars, rtActive, pumpActive, pumpCrashed, dispatchVars, frames, afterQuiet, driveVars, early>>

\* A bug: stopPump does not wait for a dispatch under way.
AwaitDispatch_Not(t, from, to) ==
    /\ Goes(t, from, to)
    /\ UNCHANGED <<busVars, pumpVars, dispatchVars, frames, afterQuiet, driveVars, early>>

AwaitDispatch(t, from, to) ==
    /\ ~dispatchBusy
    /\ Goes(t, from, to)
    /\ UNCHANGED <<busVars, pumpVars, dispatchVars, frames, afterQuiet, driveVars, early>>

PumpIsStopped(t, from, to) ==
    /\ Goes(t, from, to)
    /\ pumpActive' = FALSE
    /\ UNCHANGED <<busVars, rtActive, pumpCrashed, pumpStop, dispatchVars, frames, afterQuiet, driveVars, early>>

\* startPump's early returns (done), or on to its post.
ChecksPump(t, from, post, done) ==
    /\ Goes(t, from, IF initialized /\ ~pumpActive THEN post ELSE done)
    /\ UNCHANGED <<busVars, pumpVars, dispatchVars, frames, afterQuiet, driveVars, early>>

\* A bug: the stop that ended the last pump is left standing.
PostsPump_Stopped(t, from, to) ==
    /\ Goes(t, from, to)
    /\ IF dispatchStop
         THEN UNCHANGED <<dispatchReq, dispatchBusy>>
         ELSE dispatchReq' = TRUE /\ dispatchBusy' = TRUE
    /\ UNCHANGED <<busVars, pumpVars, dispatchStop, frames, afterQuiet, driveVars, early>>

\* The post, under the dispatch lock.
PostsPump(t, from, to) ==
    /\ Goes(t, from, to)
    /\ IF dispatchStop
         THEN UNCHANGED <<pumpStop, dispatchReq, dispatchBusy>>
         ELSE pumpStop' = FALSE /\ dispatchReq' = TRUE /\ dispatchBusy' = TRUE
    /\ UNCHANGED <<busVars, rtActive, pumpActive, pumpCrashed, dispatchStop, frames, afterQuiet, driveVars, early>>

-----------------------------------------------------------------------------
(* The worker thread: the loop and the seat pass alike. *)

\* A start, once the thread of the last one is gone.
StartLoop ==
    /\ op
    /\ Goes("worker", "idle", "asking")
    /\ early' = (early \/ pc["init"] # "idle")
    /\ UNCHANGED <<busVars, pumpVars, dispatchVars, frames, afterQuiet, driveVars>>

ClaimBus ==
    /\ Goes("worker", "claiming", "cycling")
    /\ rtActive' = TRUE
    /\ UNCHANGED <<busVars, pumpActive, pumpCrashed, pumpStop, dispatchVars, frames, afterQuiet, driveVars, early>>

\* A bug: the loop's frames leave the stop requests to the pump.
LoopFrame_NoService ==
    /\ pc["worker"] = "cycling" /\ initialized
    /\ \E e \in BOOLEAN : enabled' = e
    /\ stopRequest' = FALSE
    /\ owed' = (owed /\ enabled')
    /\ UNCHANGED <<busVars, pumpVars, dispatchVars, pc, frames, afterQuiet, early>>

\* A cycle of the loop enables or disables the drives, then sends.
LoopFrame ==
    /\ pc["worker"] = "cycling" /\ initialized
    /\ \E e \in BOOLEAN : Sends(e)
    /\ UNCHANGED <<busVars, pumpVars, dispatchVars, pc, frames, afterQuiet, early>>

\* Asked to stop and parked, or seated: the bus is given up first ...
ReleaseBus ==
    /\ Goes("worker", "cycling", "releasing")
    /\ rtActive' = FALSE
    /\ UNCHANGED <<busVars, pumpActive, pumpCrashed, pumpStop, dispatchVars, frames, afterQuiet, driveVars, early>>

\* ... then the pump is started.
Worker ==
    \/ AskPumpToStop("worker", "asking", "awaiting")
    \/ AwaitDispatch("worker", "awaiting", "taking")
    \/ PumpIsStopped("worker", "taking", "claiming")
    \/ ClaimBus \/ LoopFrame \/ ReleaseBus
    \/ ChecksPump("worker", "releasing", "posting", "idle")
    \/ PostsPump("worker", "posting", "idle")

-----------------------------------------------------------------------------
(* The dispatch thread. *)

DispatchWakes ==
    /\ dispatchReq \/ dispatchStop
    /\ Goes("dispatch", "waiting", IF dispatchStop THEN "ended" ELSE "called")
    /\ dispatchReq' = (dispatchReq /\ dispatchStop)
    /\ dispatchBusy' = (dispatchBusy /\ ~dispatchStop)
    /\ UNCHANGED <<busVars, pumpVars, dispatchStop, frames, afterQuiet, driveVars, early>>

\* startPumpBody's early returns.
BodyChecksOwner ==
    /\ Goes("dispatch", "called", IF rtActive \/ ~initialized THEN "done" ELSE "unowned")
    /\ UNCHANGED <<busVars, pumpVars, dispatchVars, frames, afterQuiet, driveVars, early>>

BodyChecksPump ==
    /\ Goes("dispatch", "unowned", IF pumpActive \/ pumpStop THEN "done" ELSE "bridge")
    /\ frames' = BridgeFrames
    /\ UNCHANGED <<busVars, pumpVars, dispatchVars, afterQuiet, driveVars, early>>

BridgeFrame ==
    /\ pc["dispatch"] = "bridge"
    /\ frames > 0 /\ ~pumpStop
    /\ frames' = frames - 1
    /\ Sends(enabled)
    /\ UNCHANGED <<busVars, pumpVars, dispatchVars, pc, afterQuiet, early>>

\* All its frames sent, a stop asked, or a transport crash.
BridgeEnds ==
    /\ Goes("dispatch", "bridge", "bridged")
    /\ UNCHANGED <<busVars, pumpVars, dispatchVars, frames, afterQuiet, driveVars, early>>

PumpStarts ==
    /\ Goes("dispatch", "bridged", IF pumpStop THEN "done" ELSE "launch")
    /\ UNCHANGED <<busVars, pumpVars, dispatchVars, frames, afterQuiet, driveVars, early>>

PumpLaunches ==
    /\ Goes("dispatch", "launch", "pump")
    /\ pumpActive' = TRUE
    /\ pumpCrashed' = FALSE
    /\ UNCHANGED <<busVars, rtActive, pumpStop, dispatchVars, frames, afterQuiet, driveVars, early>>

\* A bug: the pump's frames leave the stop requests to the loop.
PumpFrame_NoService ==
    /\ pc["dispatch"] = "pump"
    /\ pumpActive /\ ~pumpStop
    /\ UNCHANGED vars

PumpFrame ==
    /\ pc["dispatch"] = "pump"
    /\ pumpActive /\ ~pumpStop
    /\ Sends(enabled)
    /\ UNCHANGED <<busVars, pumpVars, dispatchVars, pc, frames, afterQuiet, early>>

PumpCrashes ==
    /\ Goes("dispatch", "pump", "done")
    /\ pumpCrashed' = TRUE
    /\ UNCHANGED <<busVars, rtActive, pumpActive, pumpStop, dispatchVars, frames, afterQuiet, driveVars, early>>

PumpEnds ==
    /\ ~pumpActive \/ pumpStop
    /\ Goes("dispatch", "pump", "done")
    /\ UNCHANGED <<busVars, pumpVars, dispatchVars, frames, afterQuiet, driveVars, early>>

DispatchIsDone ==
    /\ Goes("dispatch", "done", "waiting")
    /\ dispatchBusy' = FALSE
    /\ UNCHANGED <<busVars, pumpVars, dispatchReq, dispatchStop, frames, afterQuiet, driveVars, early>>

Dispatch ==
    \/ DispatchWakes \/ BodyChecksOwner \/ BodyChecksPump
    \/ BridgeFrame \/ BridgeEnds \/ PumpStarts \/ PumpLaunches
    \/ PumpFrame \/ PumpEnds \/ DispatchIsDone

-----------------------------------------------------------------------------
(* The init worker: initializeAndEnterOp, and a de-init's stop, seat pass  *)
(* and shutdown.                                                           *)

\* A master left initialized by a failed attempt is shut down first.
RequestInit ==
    /\ ~op
    /\ early' = (early \/ pc["worker"] # "idle")
    /\ Goes("init", "idle", IF initialized THEN "quieting" ELSE "clearing")
    /\ afterQuiet' = "init"
    /\ UNCHANGED <<busVars, pumpVars, dispatchVars, frames, driveVars>>

\* initialize() begins anew: nothing asked, a dispatch thread running.
InitializeClears ==
    /\ Goes("init", "clearing", "bringup")
    /\ stopRequest' = FALSE
    /\ UNCHANGED <<busVars, pumpVars, dispatchVars, frames, afterQuiet, enabled, owed, early>>

InitializeRevives ==
    /\ pc["init"] = "bringup"
    /\ pc' = [pc EXCEPT !["init"] = "entering",
                        !["dispatch"] = IF @ = "ended" THEN "waiting" ELSE @]
    /\ dispatchStop' = (dispatchStop /\ pc["dispatch"] # "ended")
    /\ dispatchReq' = (dispatchReq /\ pc["dispatch"] # "ended")
    /\ initialized' = TRUE
    /\ UNCHANGED <<op, pumpVars, dispatchBusy, frames, afterQuiet, driveVars, early>>

\* The walk to OP, frames of the init worker's own with the drives disabled.
EntersOp ==
    /\ Goes("init", "entering", "starting")
    /\ op' = TRUE
    /\ UNCHANGED <<initialized, pumpVars, dispatchVars, frames, afterQuiet, driveVars, early>>

\* A failed walk closes the bus, or leaves it initialized.
EnterFails ==
    /\ Goes("init", "entering", "idle")
    /\ initialized' \in BOOLEAN
    /\ UNCHANGED <<op, pumpVars, dispatchVars, frames, afterQuiet, driveVars, early>>

RequestDeinit ==
    /\ initialized
    /\ Goes("init", "idle", "joining")
    /\ early' = (early \/ pc["worker"] \in Starting)
    /\ afterQuiet' = "deinit"
    /\ UNCHANGED <<busVars, pumpVars, dispatchVars, frames, driveVars>>

\* A loop that runs is stopped and its thread joined; one that only starts
\* does not run yet.
DeinitJoins ==
    /\ pc["worker"] \in {"idle"} \cup Starting
    /\ Goes("init", "joining", "joined")
    /\ UNCHANGED <<busVars, pumpVars, dispatchVars, frames, afterQuiet, driveVars, early>>

\* The axes are seated by a worker of their own (drives in OP, no e-stop),
\* once the last one's thread is gone ...
DeinitSeats ==
    /\ op
    /\ pc["worker"] = "idle" /\ pc["init"] = "joined"
    /\ pc' = [pc EXCEPT !["init"] = "seating", !["worker"] = "asking"]
    /\ UNCHANGED <<busVars, pumpVars, dispatchVars, frames, afterQuiet, driveVars, early>>

DeinitSeated ==
    /\ pc["worker"] = "idle"
    /\ Goes("init", "seating", "quieting")
    /\ UNCHANGED <<busVars, pumpVars, dispatchVars, frames, afterQuiet, driveVars, early>>

\* ... or not at all: an e-stop holds, or a loop runs again.
DeinitSkipsSeat ==
    /\ Goes("init", "joined", "quieting")
    /\ UNCHANGED <<busVars, pumpVars, dispatchVars, frames, afterQuiet, driveVars, early>>

EndsDispatch ==
    /\ Goes("init", "quieted", "ending")
    /\ dispatchStop' = TRUE
    /\ dispatchReq' = FALSE
    /\ UNCHANGED <<busVars, pumpVars, dispatchBusy, frames, afterQuiet, driveVars, early>>

JoinsDispatch ==
    /\ pc["dispatch"] = "ended"
    /\ Goes("init", "ending", "requieting")
    /\ UNCHANGED <<busVars, pumpVars, dispatchVars, frames, afterQuiet, driveVars, early>>

DropsRequests ==
    /\ Goes("init", "silent", "disabling")
    /\ stopRequest' = FALSE
    /\ UNCHANGED <<busVars, pumpVars, dispatchVars, frames, afterQuiet, enabled, owed, early>>

\* Every drive disabled, the last frames sent, the bus closed.
Disables ==
    /\ Goes("init", "disabling", "closing")
    /\ enabled' = FALSE
    /\ owed' = FALSE
    /\ early' = (early /\ pc["worker"] # "idle")
    /\ UNCHANGED <<busVars, pumpVars, dispatchVars, frames, afterQuiet, stopRequest>>

Closes ==
    /\ Goes("init", "closing", IF afterQuiet = "init" THEN "clearing" ELSE "idle")
    /\ op' = FALSE /\ initialized' = FALSE
    /\ UNCHANGED <<pumpVars, dispatchVars, frames, afterQuiet, driveVars, early>>

InitWorker ==
    \/ InitializeClears \/ InitializeRevives \/ EntersOp \/ EnterFails
    \/ ChecksPump("init", "starting", "posting", "idle")
    \/ PostsPump("init", "posting", "idle")
    \/ DeinitJoins \/ DeinitSeats \/ DeinitSeated \/ DeinitSkipsSeat
    \/ AskPumpToStop("init", "quieting", "asked")
    \/ AwaitDispatch("init", "asked", "silencing")
    \/ PumpIsStopped("init", "silencing", "quieted")
    \/ EndsDispatch \/ JoinsDispatch
    \/ AskPumpToStop("init", "requieting", "reasked")
    \/ AwaitDispatch("init", "reasked", "resilencing")
    \/ PumpIsStopped("init", "resilencing", "silent")
    \/ DropsRequests \/ Disables \/ Closes

-----------------------------------------------------------------------------
\* Any thread may ask for a software stop (an e-stop asks one).
RequestStopAll ==
    /\ stopRequest' = TRUE
    /\ owed' = enabled
    /\ UNCHANGED <<busVars, pumpVars, dispatchVars, pc, frames, afterQuiet, enabled, early>>

Next ==
    \/ Worker \/ Dispatch \/ InitWorker
    \/ StartLoop \/ RequestInit \/ RequestDeinit \/ RequestStopAll
    \/ PumpCrashes

Spec == Init /\ [][Next]_vars

\* The threads are scheduled, and a loop that a de-init asks to stop, like
\* the seat pass, comes to its end.  Nobody is made to press a button, nor
\* starts and stops the loop for good before each owner's first frame.
Frame == LoopFrame \/ BridgeFrame \/ PumpFrame
LoopEnds == pc["init"] \in {"joining", "seating"} /\ ReleaseBus

LiveSpec ==
    /\ Spec
    /\ WF_vars(Dispatch)
    /\ WF_vars(InitWorker)
    /\ WF_vars(Worker)
    /\ SF_vars(Frame)
    /\ WF_vars(LoopEnds)

-----------------------------------------------------------------------------
WorkerSteps == {"idle", "asking", "awaiting", "taking", "claiming", "cycling",
                "releasing", "posting"}
DispatchSteps == {"waiting", "called", "unowned", "bridge", "bridged", "launch",
                  "pump", "done", "ended"}
InitSteps == {"idle", "clearing", "bringup", "entering", "starting", "posting",
              "joining", "joined", "seating", "quieting", "asked", "silencing", "quieted",
              "ending", "requieting", "reasked", "resilencing", "silent",
              "disabling", "closing"}

\* The type invariant of the master's flags and of the three threads.
TypeOK ==
    /\ {op, initialized, rtActive, pumpActive, pumpCrashed, pumpStop} \subseteq BOOLEAN
    /\ {dispatchReq, dispatchStop, dispatchBusy} \subseteq BOOLEAN
    /\ {enabled, stopRequest, owed, early} \subseteq BOOLEAN
    /\ pc["worker"] \in WorkerSteps
    /\ pc["dispatch"] \in DispatchSteps
    /\ pc["init"] \in InitSteps
    /\ frames \in 0..BridgeFrames
    /\ afterQuiet \in {"deinit", "init"}

\* The threads that may write the drives' process data.
Owners == {t \in Threads :
              \/ t = "worker" /\ pc[t] = "cycling"
              \/ t = "dispatch" /\ pc[t] \in {"bridge", "launch", "pump"}
              \/ t = "init" /\ pc[t] \in {"entering", "disabling"}}

\* One thread at a time writes the drives' process data (EtherCATMaster.h:125:
\* "The handoff leaves no moment with two owners").  Not so: /api/start and the
\* panel look at isOperational alone, and the master says so before the init
\* worker has posted the pump.  That post ends the stop the worker asked for.
OneOwner == \A t, u \in Owners : t = u

\* What the handover through the flags keeps: with no start that crossed the
\* init worker since the last shutdown, one thread at a time owns the bus.
OwnersTakeTurns == ~early => OneOwner

\* A stop asked of enabled drives is not lost in a handover: it stays asked
\* until a frame disables them, or shutdown is about to.
StopKept == ~early /\ owed => stopRequest \/ pc["init"] = "disabling"

\* A stop is carried out while the drives are in OP, whoever owns the bus,
\* unless the pump's transport crashed.
StopServed == (stopRequest /\ op) ~> (~stopRequest \/ ~op \/ (pumpActive /\ pumpCrashed) \/ early)

\* Drives left in OP without a loop are held by the pump: the frames of the
\* handover are followed by its own, unless its transport crashed.
Rests == op /\ pc["worker"] = "idle" /\ pc["init"] = "idle"
PumpHolds == Rests ~> (pc["dispatch"] = "pump" \/ (pumpActive /\ pumpCrashed) \/ ~Rests \/ early)

\* Every handover comes to its end: nobody waits for good on a dispatch that
\* was told to leave, nor on a thread that is gone.
HandoversEnd ==
    \A t \in {"worker", "init"} :
        pc[t] \notin {"idle", "cycling"} ~> pc[t] \in {"idle", "cycling"} \/ early

\* The steps of the dispatch thread until it rests, once it is told to leave.
StepsLeft ==
    IF dispatchReq THEN 6
    ELSE CASE pc["dispatch"] = "called" -> 5
           [] pc["dispatch"] \in {"unowned", "bridge"} -> 4
           [] pc["dispatch"] \in {"bridged", "launch"} -> 3
           [] pc["dispatch"] = "pump" -> 2
           [] pc["dispatch"] = "done" -> 1
           [] OTHER -> 0
Waits == pc["worker"] = "awaiting" \/ pc["init"] \in {"asked", "reasked"}

\* What HandoversEnd rests on: who waits for a dispatch waits for six of its
\* steps at most.  It was told to leave, the flag that is waited for is up
\* only while it still has steps to take, each step brings it nearer to its
\* rest, and nobody sends it back; one told to end has but that to do.
WaitsAreShort ==
    /\ [](~early => /\ Waits => pumpStop
                    /\ dispatchBusy <=> StepsLeft > 0
                    /\ pc["init"] = "ending" => dispatchStop /\ pc["dispatch"] \in {"waiting", "ended"})
    /\ [][~early /\ Waits => IF Dispatch THEN StepsLeft' < StepsLeft ELSE StepsLeft' <= StepsLeft]_vars
=============================================================================
