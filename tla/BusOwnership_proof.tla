------------------------- MODULE BusOwnership_proof --------------------------
(***************************************************************************)
(* Proofs about BusOwnership: types, and, with no start that crossed the   *)
(* init worker, that the drives' process data has one writer and that no   *)
(* stop is lost between two of them.                                       *)
(***************************************************************************)
EXTENDS BusOwnership, TLAPS

Steps == WorkerSteps \cup DispatchSteps \cup InitSteps

\* Each thread is at one of its own steps.
PcType ==
    /\ pc \in [Threads -> Steps]
    /\ pc["worker"] \in WorkerSteps
    /\ pc["dispatch"] \in DispatchSteps
    /\ pc["init"] \in InitSteps

TypeInv == TypeOK /\ pc \in [Threads -> Steps]

LEMMA WorkerGoes == ASSUME PcType, NEW from, NEW to \in WorkerSteps, Goes("worker", from, to)
                    PROVE  PcType'
BY DEF Goes, PcType, Steps, Threads

LEMMA DispatchGoes == ASSUME PcType, NEW from, NEW to \in DispatchSteps, Goes("dispatch", from, to)
                      PROVE  PcType'
BY DEF Goes, PcType, Steps, Threads

LEMMA InitGoes == ASSUME PcType, NEW from, NEW to \in InitSteps, Goes("init", from, to)
                  PROVE  PcType'
BY DEF Goes, PcType, Steps, Threads

\* What a step of the worker does to the rest of the state.
LEMMA WorkerTypes == ASSUME TypeInv, Worker \/ StartLoop PROVE TypeInv'
<1> USE DEF TypeInv, TypeOK
<1>0. PcType
  BY DEF PcType
<1>1. CASE \/ AskPumpToStop("worker", "asking", "awaiting")
           \/ AwaitDispatch("worker", "awaiting", "taking")
           \/ PumpIsStopped("worker", "taking", "claiming")
  <2>1. PcType'
    BY <1>0, <1>1, WorkerGoes DEF AskPumpToStop, AwaitDispatch, PumpIsStopped, WorkerSteps
  <2>2. QED
    BY <1>1, <2>1 DEF AskPumpToStop, AwaitDispatch, PumpIsStopped, PcType, busVars, pumpVars,
       dispatchVars, driveVars
<1>2. CASE \/ ChecksPump("worker", "releasing", "posting", "idle")
           \/ PostsPump("worker", "posting", "idle")
  <2>1. PcType'
    BY <1>0, <1>2, WorkerGoes DEF ChecksPump, PostsPump, WorkerSteps
  <2>2. QED
    BY <1>2, <2>1 DEF ChecksPump, PostsPump, PcType, busVars, pumpVars, dispatchVars, driveVars
<1>3. CASE StartLoop \/ ClaimBus \/ ReleaseBus
  <2>1. PcType'
    BY <1>0, <1>3, WorkerGoes DEF StartLoop, ClaimBus, ReleaseBus, WorkerSteps
  <2>2. QED
    BY <1>3, <2>1 DEF StartLoop, ClaimBus, ReleaseBus, PcType, busVars, pumpVars, dispatchVars, driveVars
<1>4. CASE LoopFrame
  BY <1>4 DEF LoopFrame, Sends, busVars, pumpVars, dispatchVars
<1>5. QED
  BY <1>1, <1>2, <1>3, <1>4 DEF Worker

LEMMA DispatchTypes == ASSUME TypeInv, Dispatch \/ PumpCrashes PROVE TypeInv'
<1> USE DEF TypeInv, TypeOK
<1>0. PcType
  BY DEF PcType
<1>1. CASE DispatchWakes \/ BodyChecksOwner \/ BodyChecksPump
  <2>1. PcType'
    BY <1>0, <1>1, DispatchGoes DEF DispatchWakes, BodyChecksOwner, BodyChecksPump, DispatchSteps
  <2>2. QED
    <3>1. frames' \in 0..BridgeFrames
      BY <1>1 DEF DispatchWakes, BodyChecksOwner, BodyChecksPump, BridgeFrames
    <3>2. QED
      BY <1>1, <2>1, <3>1 DEF DispatchWakes, BodyChecksOwner, BodyChecksPump, PcType,
         busVars, pumpVars, dispatchVars, driveVars
<1>2. CASE BridgeEnds \/ PumpStarts \/ PumpLaunches
  <2>1. PcType'
    BY <1>0, <1>2, DispatchGoes DEF BridgeEnds, PumpStarts, PumpLaunches, DispatchSteps
  <2>2. QED
    BY <1>2, <2>1 DEF BridgeEnds, PumpStarts, PumpLaunches, PcType, busVars, pumpVars,
       dispatchVars, driveVars
<1>3. CASE PumpCrashes \/ PumpEnds \/ DispatchIsDone
  <2>1. PcType'
    BY <1>0, <1>3, DispatchGoes DEF PumpCrashes, PumpEnds, DispatchIsDone, DispatchSteps
  <2>2. QED
    BY <1>3, <2>1 DEF PumpCrashes, PumpEnds, DispatchIsDone, PcType, busVars, pumpVars,
       dispatchVars, driveVars
<1>4. CASE BridgeFrame
  <2>1. frames' \in 0..BridgeFrames
    BY <1>4 DEF BridgeFrame, BridgeFrames
  <2>2. {enabled', stopRequest', owed'} \subseteq BOOLEAN
    BY <1>4 DEF BridgeFrame, Sends
  <2>3. QED
    BY <1>4, <2>1, <2>2 DEF BridgeFrame, busVars, pumpVars, dispatchVars
<1>5. CASE PumpFrame
  BY <1>5 DEF PumpFrame, Sends, busVars, pumpVars, dispatchVars
<1>6. QED
  BY <1>1, <1>2, <1>3, <1>4, <1>5 DEF Dispatch

LEMMA InitTypes == ASSUME TypeInv, InitWorker \/ RequestInit \/ RequestDeinit PROVE TypeInv'
<1> USE DEF TypeInv, TypeOK
<1>0. PcType
  BY DEF PcType
<1>1. CASE RequestInit \/ RequestDeinit \/ InitializeClears
  <2>1. PcType'
    BY <1>0, <1>1, InitGoes DEF RequestInit, RequestDeinit, InitializeClears, InitSteps
  <2>2. QED
    BY <1>1, <2>1 DEF RequestInit, RequestDeinit, InitializeClears, PcType, busVars, pumpVars,
       dispatchVars, driveVars
<1>2. CASE InitializeRevives
  <2>1. PcType'
    BY <1>0, <1>2 DEF InitializeRevives, PcType, Steps, Threads, InitSteps, DispatchSteps
  <2>2. QED
    BY <1>2, <2>1 DEF InitializeRevives, PcType, pumpVars, driveVars
<1>3. CASE EntersOp \/ EnterFails
  <2>1. PcType'
    BY <1>0, <1>3, InitGoes DEF EntersOp, EnterFails, InitSteps
  <2>2. QED
    BY <1>3, <2>1 DEF EntersOp, EnterFails, PcType, pumpVars, dispatchVars, driveVars
<1>4. CASE ChecksPump("init", "starting", "posting", "idle") \/ PostsPump("init", "posting", "idle")
  <2>1. PcType'
    BY <1>0, <1>4, InitGoes DEF ChecksPump, PostsPump, InitSteps
  <2>2. QED
    BY <1>4, <2>1 DEF ChecksPump, PostsPump, PcType, busVars, pumpVars, dispatchVars, driveVars
<1>5. CASE DeinitSeats
  <2>1. PcType'
    BY <1>0, <1>5 DEF DeinitSeats, PcType, Steps, Threads, InitSteps, WorkerSteps
  <2>2. QED
    BY <1>5, <2>1 DEF DeinitSeats, PcType, busVars, pumpVars, dispatchVars, driveVars
<1>6. CASE DeinitJoins \/ DeinitSeated \/ DeinitSkipsSeat \/ EndsDispatch \/ JoinsDispatch
  <2>1. PcType'
    BY <1>0, <1>6, InitGoes DEF DeinitJoins, DeinitSeated, DeinitSkipsSeat, EndsDispatch,
       JoinsDispatch, InitSteps
  <2>2. QED
    BY <1>6, <2>1 DEF DeinitJoins, DeinitSeated, DeinitSkipsSeat, EndsDispatch, JoinsDispatch, PcType,
       busVars, pumpVars, dispatchVars, driveVars
<1>7. ASSUME NEW from, NEW to \in InitSteps,
             \/ AskPumpToStop("init", from, to)
             \/ AwaitDispatch("init", from, to)
             \/ PumpIsStopped("init", from, to)
      PROVE  TypeInv'
  <2>1. PcType'
    BY <1>0, <1>7, InitGoes DEF AskPumpToStop, AwaitDispatch, PumpIsStopped
  <2>2. QED
    BY <1>7, <2>1 DEF AskPumpToStop, AwaitDispatch, PumpIsStopped, PcType, busVars, pumpVars,
       dispatchVars, driveVars
<1>8. CASE DropsRequests \/ Disables \/ Closes
  <2>1. PcType'
    BY <1>0, <1>8, InitGoes DEF DropsRequests, Disables, Closes, InitSteps
  <2>2. QED
    BY <1>8, <2>1 DEF DropsRequests, Disables, Closes, PcType, busVars, pumpVars, dispatchVars, driveVars
<1>9. {"asked", "silencing", "quieted", "reasked", "resilencing", "silent"} \subseteq InitSteps
  BY DEF InitSteps
<1>10. QED
  BY <1>1, <1>2, <1>3, <1>4, <1>5, <1>6, <1>7, <1>8, <1>9 DEF InitWorker

LEMMA TypeInvariant == Spec => []TypeInv
<1>1. Init => TypeInv
  <2> SUFFICES ASSUME Init PROVE TypeInv
    OBVIOUS
  <2>1. PcType
    BY DEF Init, PcType, Threads, Steps, WorkerSteps, DispatchSteps, InitSteps
  <2>2. frames \in 0..BridgeFrames
    BY DEF Init, BridgeFrames
  <2>3. QED
    BY <2>1, <2>2 DEF Init, TypeInv, TypeOK, PcType
<1>2. TypeInv /\ [Next]_vars => TypeInv'
  <2> SUFFICES ASSUME TypeInv, [Next]_vars PROVE TypeInv'
    OBVIOUS
  <2>1. CASE RequestStopAll
    BY <2>1 DEF RequestStopAll, TypeInv, TypeOK, busVars, pumpVars, dispatchVars
  <2>2. CASE UNCHANGED vars
    BY <2>2 DEF vars, TypeInv, TypeOK, busVars, pumpVars, dispatchVars, driveVars
  <2>3. QED
    BY <2>1, <2>2, WorkerTypes, DispatchTypes, InitTypes DEF Next
<1>3. QED
  BY <1>1, <1>2, PTL DEF Spec

\* The flags and the three program counters keep their types.
THEOREM Typing == Spec => []TypeOK
<1>1. TypeInv => TypeOK
  BY DEF TypeInv
<1>2. QED
  BY <1>1, TypeInvariant, PTL

-----------------------------------------------------------------------------
(* Where the master and the dispatch thread stand, whenever a start comes. *)

\* Past its join the dispatch thread is gone, until an initialize revives it.
Joined == {"requieting", "reasked", "resilencing", "silent", "disabling", "closing"}

\* Where the master stands in the init worker's steps.
MasterInv ==
    /\ op => initialized
    /\ pc["init"] \in {"clearing", "bringup"} => ~initialized
    /\ pc["init"] = "entering" => initialized /\ ~op
    /\ pc["init"] \in {"starting", "posting"} => op

\* A dispatch thread told to end takes no request and is not busy once gone.
EndInv ==
    /\ dispatchStop <=> pc["init"] = "ending" \/ pc["dispatch"] = "ended"
    /\ dispatchStop => ~dispatchReq
    /\ pc["dispatch"] = "ended" => ~dispatchBusy
    /\ pc["init"] \in Joined => pc["dispatch"] = "ended"

BusInv == MasterInv /\ EndInv

\* A step of one thread leaves the others where they are.
LEMMA OneGoes == ASSUME TypeInv, NEW t \in Threads, NEW from, NEW to, Goes(t, from, to)
                 PROVE  /\ pc[t] = from /\ pc'[t] = to
                        /\ \A u \in Threads \ {t} : pc'[u] = pc[u]
BY DEF Goes, TypeInv

LEMMA WorkerBus == ASSUME TypeInv, BusInv, Worker \/ StartLoop PROVE BusInv'
<1> USE DEF BusInv, MasterInv, EndInv
<1>0. "worker" \in Threads /\ "dispatch" \in Threads /\ "init" \in Threads
  BY DEF Threads
<1>1. CASE StartLoop \/ ClaimBus \/ ReleaseBus
  BY <1>0, <1>1, OneGoes DEF StartLoop, ClaimBus, ReleaseBus, busVars, dispatchVars
<1>2. CASE \/ AskPumpToStop("worker", "asking", "awaiting")
           \/ AwaitDispatch("worker", "awaiting", "taking")
           \/ PumpIsStopped("worker", "taking", "claiming")
  BY <1>0, <1>2, OneGoes DEF AskPumpToStop, AwaitDispatch, PumpIsStopped, busVars, dispatchVars
<1>3. CASE LoopFrame
  BY <1>3 DEF LoopFrame, busVars, dispatchVars
<1>4. CASE ChecksPump("worker", "releasing", "posting", "idle") \/ PostsPump("worker", "posting", "idle")
  BY <1>0, <1>4, OneGoes DEF ChecksPump, PostsPump, busVars, dispatchVars
<1>5. QED
  BY <1>1, <1>2, <1>3, <1>4 DEF Worker

LEMMA DispatchBus == ASSUME TypeInv, BusInv, Dispatch \/ PumpCrashes PROVE BusInv'
<1> USE DEF BusInv, MasterInv, EndInv
<1>0. "worker" \in Threads /\ "dispatch" \in Threads /\ "init" \in Threads
  BY DEF Threads
<1>1. CASE DispatchWakes
  <2>1. /\ pc'["dispatch"] = IF dispatchStop THEN "ended" ELSE "called"
        /\ pc["dispatch"] = "waiting" /\ pc'["init"] = pc["init"]
        /\ UNCHANGED <<busVars, dispatchStop>>
    BY <1>0, <1>1, OneGoes DEF DispatchWakes
  <2>2. dispatchStop => ~dispatchBusy' /\ ~dispatchReq'
    BY <1>1 DEF DispatchWakes
  <2>3. QED
    BY <2>1, <2>2 DEF busVars
<1>2. CASE BodyChecksOwner \/ BodyChecksPump \/ BridgeEnds \/ PumpStarts \/ PumpLaunches
  BY <1>0, <1>2, OneGoes DEF BodyChecksOwner, BodyChecksPump, BridgeEnds, PumpStarts, PumpLaunches,
     busVars, dispatchVars
<1>3. CASE PumpCrashes \/ PumpEnds \/ DispatchIsDone
  BY <1>0, <1>3, OneGoes DEF PumpCrashes, PumpEnds, DispatchIsDone, busVars, dispatchVars
<1>4. CASE BridgeFrame \/ PumpFrame
  BY <1>4 DEF BridgeFrame, PumpFrame, busVars, dispatchVars
<1>5. QED
  BY <1>1, <1>2, <1>3, <1>4 DEF Dispatch

LEMMA InitBus == ASSUME TypeInv, BusInv, InitWorker \/ RequestInit \/ RequestDeinit PROVE BusInv'
<1> USE DEF BusInv, MasterInv, EndInv, Joined
<1>0. "worker" \in Threads /\ "dispatch" \in Threads /\ "init" \in Threads
  BY DEF Threads
<1>1. CASE RequestInit \/ RequestDeinit \/ InitializeClears
  BY <1>0, <1>1, OneGoes DEF RequestInit, RequestDeinit, InitializeClears, busVars, dispatchVars
<1>2. CASE InitializeRevives
  <2>1. /\ pc["init"] = "bringup" /\ pc'["init"] = "entering"
        /\ pc'["dispatch"] = IF pc["dispatch"] = "ended" THEN "waiting" ELSE pc["dispatch"]
    BY <1>0, <1>2 DEF InitializeRevives, TypeInv
  <2>2. ~dispatchStop' /\ initialized' /\ ~op'
    BY <1>2, <2>1 DEF InitializeRevives
  <2>3. QED
    BY <2>1, <2>2
<1>3. CASE EntersOp \/ EnterFails
  BY <1>0, <1>3, OneGoes DEF EntersOp, EnterFails, dispatchVars
<1>4. CASE ChecksPump("init", "starting", "posting", "idle") \/ PostsPump("init", "posting", "idle")
  BY <1>0, <1>4, OneGoes DEF ChecksPump, PostsPump, busVars, dispatchVars
<1>5. CASE DeinitSeats
  <2>1. /\ pc["init"] = "joined" /\ pc'["init"] = "seating" /\ pc'["dispatch"] = pc["dispatch"]
    BY <1>0, <1>5 DEF DeinitSeats, TypeInv
  <2>2. QED
    BY <1>5, <2>1 DEF DeinitSeats, busVars, dispatchVars
<1>6. CASE DeinitJoins \/ DeinitSeated \/ DeinitSkipsSeat
  BY <1>0, <1>6, OneGoes DEF DeinitJoins, DeinitSeated, DeinitSkipsSeat, busVars, dispatchVars
<1>7. CASE AskPumpToStop("init", "quieting", "asked") \/ AskPumpToStop("init", "requieting", "reasked")
  BY <1>0, <1>7, OneGoes DEF AskPumpToStop, busVars, dispatchVars
<1>8. CASE AwaitDispatch("init", "asked", "silencing") \/ AwaitDispatch("init", "reasked", "resilencing")
  BY <1>0, <1>8, OneGoes DEF AwaitDispatch, busVars, dispatchVars
<1>9. CASE PumpIsStopped("init", "silencing", "quieted") \/ PumpIsStopped("init", "resilencing", "silent")
  BY <1>0, <1>9, OneGoes DEF PumpIsStopped, busVars, dispatchVars
<1>10. CASE EndsDispatch \/ JoinsDispatch
  BY <1>0, <1>10, OneGoes DEF EndsDispatch, JoinsDispatch, busVars, dispatchVars
<1>11. CASE DropsRequests \/ Disables \/ Closes
  BY <1>0, <1>11, OneGoes DEF DropsRequests, Disables, Closes, busVars, dispatchVars
<1>12. QED
  BY <1>1, <1>2, <1>3, <1>4, <1>5, <1>6, <1>7, <1>8, <1>9, <1>10, <1>11 DEF InitWorker

LEMMA BusInvariant == Spec => []BusInv
<1>1. Init => BusInv
  BY DEF Init, BusInv, MasterInv, EndInv, Threads, Joined
<1>2. TypeInv /\ BusInv /\ [Next]_vars => BusInv'
  <2> SUFFICES ASSUME TypeInv, BusInv, [Next]_vars PROVE BusInv'
    OBVIOUS
  <2>1. CASE RequestStopAll \/ UNCHANGED vars
    BY <2>1 DEF RequestStopAll, vars, busVars, dispatchVars, BusInv, MasterInv, EndInv
  <2>2. QED
    BY <2>1, WorkerBus, DispatchBus, InitBus DEF Next
<1>3. QED
  BY <1>1, <1>2, TypeInvariant, PTL DEF Spec

-----------------------------------------------------------------------------
(* Who owns the bus, with no start that crossed the init worker. *)

\* The init worker past the join of the loop, with the dispatch thread told to
\* leave and awaited.
Quiet == {"entering", "starting", "posting", "silencing", "quieted", "ending"} \cup Joined

\* The init worker brings the bus up or down only over a loop that is gone;
\* a loop runs on a bus in OP only.
LoopInv ==
    /\ pc["init"] \notin {"idle", "joining", "seating"} => pc["worker"] = "idle"
    /\ pc["init"] = "joining" => pc["worker"] \notin Starting
    /\ pc["worker"] # "idle" => op

\* A dispatch is posted by the owner that leaves, and to a thread that rests:
\* who has awaited the last one meets no other.
DispatchInv ==
    /\ dispatchBusy => initialized
    /\ dispatchReq => dispatchBusy /\ ~dispatchStop
    /\ pc["dispatch"] \notin {"waiting", "ended"} => dispatchBusy /\ ~dispatchReq
    /\ pc["worker"] \in {"taking", "claiming", "cycling", "releasing", "posting"} => ~dispatchBusy
    /\ pc["init"] \in Quiet => ~dispatchBusy

\* Only a frame enables drives, and only an initialized master has frames.
EnabledInv ==
    /\ enabled => initialized
    /\ owed => enabled
    /\ pc["init"] \in {"entering", "closing"} => ~enabled

OwnerInv == LoopInv /\ DispatchInv /\ EnabledInv /\ StopKept

LEMMA WorkerOwns == ASSUME TypeInv, BusInv, OwnerInv, ~early, ~early', Worker \/ StartLoop
                    PROVE  OwnerInv'
<1> USE DEF BusInv, MasterInv, EndInv, OwnerInv, LoopInv, DispatchInv, EnabledInv, StopKept, Quiet,
        Joined, Starting
<1>0. "worker" \in Threads /\ "dispatch" \in Threads /\ "init" \in Threads
  BY DEF Threads
<1>1. CASE StartLoop
  <2>1. pc["init"] = "idle"
    BY <1>1 DEF StartLoop
  <2>2. QED
    BY <1>0, <1>1, <2>1, OneGoes DEF StartLoop, busVars, dispatchVars, driveVars
<1>2. CASE AskPumpToStop("worker", "asking", "awaiting")
  BY <1>0, <1>2, OneGoes DEF AskPumpToStop, busVars, dispatchVars, driveVars
<1>3. CASE AwaitDispatch("worker", "awaiting", "taking")
  BY <1>0, <1>3, OneGoes DEF AwaitDispatch, busVars, dispatchVars, driveVars
<1>4. CASE PumpIsStopped("worker", "taking", "claiming")
  BY <1>0, <1>4, OneGoes DEF PumpIsStopped, busVars, dispatchVars, driveVars
<1>5. CASE ClaimBus
  BY <1>0, <1>5, OneGoes DEF ClaimBus, busVars, dispatchVars, driveVars
<1>6. CASE LoopFrame
  BY <1>6 DEF LoopFrame, Sends, busVars, dispatchVars
<1>7. CASE ReleaseBus
  BY <1>0, <1>7, OneGoes DEF ReleaseBus, busVars, dispatchVars, driveVars
<1>8. CASE ChecksPump("worker", "releasing", "posting", "idle")
  BY <1>0, <1>8, OneGoes DEF ChecksPump, busVars, dispatchVars, driveVars
<1>9. CASE PostsPump("worker", "posting", "idle")
  BY <1>0, <1>9, OneGoes DEF PostsPump, busVars, dispatchVars, driveVars
<1>10. QED
  BY <1>1, <1>2, <1>3, <1>4, <1>5, <1>6, <1>7, <1>8, <1>9 DEF Worker

LEMMA DispatchOwns == ASSUME TypeInv, BusInv, OwnerInv, ~early, ~early', Dispatch \/ PumpCrashes
                      PROVE  OwnerInv'
<1> USE DEF BusInv, MasterInv, EndInv, OwnerInv, LoopInv, DispatchInv, EnabledInv, StopKept, Quiet,
        Joined, Starting
<1>0. "worker" \in Threads /\ "dispatch" \in Threads /\ "init" \in Threads
  BY DEF Threads
<1>1. CASE DispatchWakes
  <2>1. /\ pc'["dispatch"] = IF dispatchStop THEN "ended" ELSE "called"
        /\ pc["dispatch"] = "waiting" /\ (dispatchReq \/ dispatchStop)
        /\ pc'["worker"] = pc["worker"] /\ pc'["init"] = pc["init"]
    BY <1>0, <1>1, OneGoes DEF DispatchWakes
  <2>2. UNCHANGED <<busVars, driveVars>>
    BY <1>1 DEF DispatchWakes
  <2>3. CASE dispatchStop
    <3>1. ~dispatchBusy'
      BY <1>1, <2>3 DEF DispatchWakes
    <3>2. ~dispatchReq'
      BY <1>1, <2>3 DEF DispatchWakes
    <3>3. QED
      BY <2>1, <2>2, <2>3, <3>1, <3>2 DEF busVars, driveVars
  <2>4. CASE ~dispatchStop
    <3>1. ~dispatchReq'
      BY <1>1, <2>4 DEF DispatchWakes
    <3>2. dispatchBusy' => dispatchBusy
      BY <1>1 DEF DispatchWakes
    <3>3. dispatchBusy'
      BY <1>1, <2>1, <2>4 DEF DispatchWakes
    <3>4. QED
      BY <2>1, <2>2, <2>4, <3>1, <3>2, <3>3 DEF busVars, driveVars
  <2>5. QED
    BY <2>3, <2>4
<1>2. CASE BodyChecksOwner
  BY <1>0, <1>2, OneGoes DEF BodyChecksOwner, busVars, dispatchVars, driveVars
<1>3. CASE BodyChecksPump
  BY <1>0, <1>3, OneGoes DEF BodyChecksPump, busVars, dispatchVars, driveVars
<1>4. CASE BridgeFrame \/ PumpFrame
  <2>1. /\ pc["dispatch"] \notin {"waiting", "ended"}
        /\ UNCHANGED <<busVars, dispatchVars, pc>>
        /\ Sends(enabled)
    BY <1>4 DEF BridgeFrame, PumpFrame
  <2>2. pc["init"] \notin Quiet
    BY <2>1
  <2>3. (enabled' => enabled) /\ (owed' => owed /\ enabled' /\ ~stopRequest)
    BY <2>1 DEF Sends
  <2>4. QED
    BY <2>1, <2>2, <2>3 DEF busVars, dispatchVars
<1>5. CASE BridgeEnds
  BY <1>0, <1>5, OneGoes DEF BridgeEnds, busVars, dispatchVars, driveVars
<1>6. CASE PumpStarts
  BY <1>0, <1>6, OneGoes DEF PumpStarts, busVars, dispatchVars, driveVars
<1>7. CASE PumpLaunches
  BY <1>0, <1>7, OneGoes DEF PumpLaunches, busVars, dispatchVars, driveVars
<1>8. CASE PumpCrashes \/ PumpEnds
  BY <1>0, <1>8, OneGoes DEF PumpCrashes, PumpEnds, busVars, dispatchVars, driveVars
<1>9. CASE DispatchIsDone
  BY <1>0, <1>9, OneGoes DEF DispatchIsDone, busVars, driveVars
<1>10. QED
  BY <1>1, <1>2, <1>3, <1>4, <1>5, <1>6, <1>7, <1>8, <1>9 DEF Dispatch

LEMMA InitOwns == ASSUME TypeInv, BusInv, OwnerInv, ~early, ~early', InitWorker \/ RequestInit \/ RequestDeinit
                  PROVE  OwnerInv'
<1> USE DEF BusInv, MasterInv, EndInv, OwnerInv, LoopInv, DispatchInv, EnabledInv, StopKept, Quiet,
        Joined, Starting
<1>0. "worker" \in Threads /\ "dispatch" \in Threads /\ "init" \in Threads
  BY DEF Threads
<1>1. CASE RequestInit
  BY <1>0, <1>1, OneGoes DEF RequestInit, busVars, dispatchVars, driveVars
<1>2. CASE RequestDeinit
  <2>1. pc["worker"] \notin Starting
    BY <1>2 DEF RequestDeinit
  <2>2. QED
    BY <1>0, <1>2, <2>1, OneGoes DEF RequestDeinit, busVars, dispatchVars, driveVars
<1>3. CASE InitializeClears
  BY <1>0, <1>3, OneGoes DEF InitializeClears, busVars, dispatchVars
<1>4. CASE InitializeRevives
  <2>1. /\ pc["init"] = "bringup" /\ pc'["init"] = "entering" /\ pc'["worker"] = pc["worker"]
        /\ pc'["dispatch"] = IF pc["dispatch"] = "ended" THEN "waiting" ELSE pc["dispatch"]
    BY <1>0, <1>4 DEF InitializeRevives, TypeInv
  <2>2. QED
    BY <1>4, <2>1 DEF InitializeRevives, driveVars
<1>5. CASE EntersOp
  BY <1>0, <1>5, OneGoes DEF EntersOp, dispatchVars, driveVars
<1>6. CASE EnterFails
  BY <1>0, <1>6, OneGoes DEF EnterFails, dispatchVars, driveVars
<1>7. CASE ChecksPump("init", "starting", "posting", "idle")
  BY <1>0, <1>7, OneGoes DEF ChecksPump, busVars, dispatchVars, driveVars
<1>8. CASE PostsPump("init", "posting", "idle")
  BY <1>0, <1>8, OneGoes DEF PostsPump, busVars, dispatchVars, driveVars
<1>9. CASE DeinitSeats
  <2>1. /\ pc["init"] = "joined" /\ pc'["init"] = "seating" /\ pc["worker"] = "idle"
        /\ pc'["worker"] = "asking" /\ pc'["dispatch"] = pc["dispatch"]
    BY <1>0, <1>9 DEF DeinitSeats, TypeInv
  <2>2. QED
    BY <1>9, <2>1 DEF DeinitSeats, busVars, dispatchVars, driveVars
<1>10. CASE DeinitJoins \/ DeinitSeated \/ DeinitSkipsSeat
  BY <1>0, <1>10, OneGoes DEF DeinitJoins, DeinitSeated, DeinitSkipsSeat, busVars, dispatchVars, driveVars
<1>11. CASE AskPumpToStop("init", "quieting", "asked") \/ AskPumpToStop("init", "requieting", "reasked")
  BY <1>0, <1>11, OneGoes DEF AskPumpToStop, busVars, dispatchVars, driveVars
<1>12. CASE AwaitDispatch("init", "asked", "silencing") \/ AwaitDispatch("init", "reasked", "resilencing")
  BY <1>0, <1>12, OneGoes DEF AwaitDispatch, busVars, dispatchVars, driveVars
<1>13. CASE PumpIsStopped("init", "silencing", "quieted") \/ PumpIsStopped("init", "resilencing", "silent")
  BY <1>0, <1>13, OneGoes DEF PumpIsStopped, busVars, dispatchVars, driveVars
<1>14. CASE EndsDispatch
  BY <1>0, <1>14, OneGoes DEF EndsDispatch, busVars, driveVars
<1>15. CASE JoinsDispatch
  BY <1>0, <1>15, OneGoes DEF JoinsDispatch, busVars, dispatchVars, driveVars
<1>16. CASE DropsRequests
  BY <1>0, <1>16, OneGoes DEF DropsRequests, busVars, dispatchVars
<1>17. CASE Disables
  BY <1>0, <1>17, OneGoes DEF Disables, busVars, dispatchVars
<1>18. CASE Closes
  BY <1>0, <1>18, OneGoes DEF Closes, dispatchVars, driveVars
<1>19. QED
  BY <1>1, <1>2, <1>3, <1>4, <1>5, <1>6, <1>7, <1>8, <1>9, <1>10, <1>11, <1>12, <1>13, <1>14,
     <1>15, <1>16, <1>17, <1>18 DEF InitWorker

\* Whatever crossed before, a shutdown that finds the worker gone leaves
\* nothing of it.
LEMMA DisablesSettles == ASSUME TypeInv, BusInv, Disables, ~early' PROVE early => OwnerInv'
<1> SUFFICES ASSUME early PROVE OwnerInv'
  OBVIOUS
<1>1. /\ pc["worker"] = "idle" /\ pc'["worker"] = "idle"
      /\ pc["init"] = "disabling" /\ pc'["init"] = "closing"
      /\ pc["dispatch"] = "ended" /\ pc'["dispatch"] = "ended"
  BY OneGoes DEF Disables, BusInv, EndInv, Joined, Threads
<1>2. ~dispatchReq' /\ ~dispatchBusy' /\ ~enabled' /\ ~owed'
  BY <1>1 DEF Disables, BusInv, EndInv, dispatchVars
<1>3. QED
  BY <1>1, <1>2 DEF OwnerInv, LoopInv, DispatchInv, EnabledInv, StopKept

\* Nothing else is taken for settled.
LEMMA OnlyDisables == ASSUME [Next]_vars, early, ~early' PROVE Disables
BY DEF Next, Worker, Dispatch, InitWorker, StartLoop, ClaimBus, LoopFrame, ReleaseBus,
   AskPumpToStop, AwaitDispatch, PumpIsStopped, ChecksPump, PostsPump, DispatchWakes,
   BodyChecksOwner, BodyChecksPump, BridgeFrame, BridgeEnds, PumpStarts, PumpLaunches, PumpFrame,
   PumpCrashes, PumpEnds, DispatchIsDone, RequestInit, InitializeClears, InitializeRevives,
   EntersOp, EnterFails, RequestDeinit, DeinitJoins, DeinitSeats, DeinitSeated, DeinitSkipsSeat,
   EndsDispatch, JoinsDispatch, DropsRequests, Closes, RequestStopAll, vars

LEMMA OwnerInvariant == Spec => [](~early => OwnerInv)
<1>1. Init => OwnerInv
  BY DEF Init, OwnerInv, LoopInv, DispatchInv, EnabledInv, StopKept, Threads, Quiet, Joined
<1>2. TypeInv /\ BusInv /\ (~early => OwnerInv) /\ [Next]_vars => (~early' => OwnerInv')
  <2> SUFFICES ASSUME TypeInv, BusInv, ~early => OwnerInv, [Next]_vars, ~early' PROVE OwnerInv'
    OBVIOUS
  <2>1. CASE early
    <3>1. Disables
      BY <2>1, OnlyDisables
    <3>2. QED
      BY <2>1, <3>1, DisablesSettles
  <2>2. CASE ~early /\ RequestStopAll
    BY <2>2 DEF RequestStopAll, busVars, dispatchVars, OwnerInv, LoopInv, DispatchInv, EnabledInv, StopKept
  <2>3. CASE ~early /\ UNCHANGED vars
    BY <2>3 DEF vars, busVars, dispatchVars, driveVars, OwnerInv, LoopInv, DispatchInv, EnabledInv, StopKept
  <2>4. QED
    BY <2>1, <2>2, <2>3, WorkerOwns, DispatchOwns, InitOwns DEF Next
<1>3. QED
  BY <1>1, <1>2, TypeInvariant, BusInvariant, PTL DEF Spec

\* No two threads write the drives' process data at a time, unless a start and
\* the init worker crossed since the last shutdown (OneOwner shows what then).
THEOREM SingleOwner == Spec => []OwnersTakeTurns
<1>1. TypeInv /\ BusInv /\ (~early => OwnerInv) => OwnersTakeTurns
  BY DEF BusInv, MasterInv, EndInv, OwnerInv, LoopInv, DispatchInv, OwnersTakeTurns, OneOwner, Owners,
     Threads, Quiet, Joined
<1>2. QED
  BY <1>1, TypeInvariant, BusInvariant, OwnerInvariant, PTL

\* No handover loses a stop that was asked of enabled drives, with the same
\* exception.
THEOREM StopsKept == Spec => []StopKept
<1>1. (~early => OwnerInv) => StopKept
  BY DEF OwnerInv, StopKept
<1>2. QED
  BY <1>1, OwnerInvariant, PTL

-----------------------------------------------------------------------------
(* How long a handover waits. *)

\* Who waits has told the dispatch to leave, and the busy flag is up only for
\* a dispatch that is posted to a thread that waits for it, or is under way.
WaitInv ==
    /\ Waits => pumpStop
    /\ dispatchBusy => dispatchReq \/ pc["dispatch"] \notin {"waiting", "ended"}

LEMMA ReqIsWaiting ==
    ASSUME TypeInv, BusInv, OwnerInv, dispatchReq PROVE pc["dispatch"] = "waiting"
BY DEF OwnerInv, DispatchInv, BusInv, EndInv

LEMMA WorkerWaits == ASSUME TypeInv, BusInv, OwnerInv, WaitInv, ~early', Worker \/ StartLoop PROVE WaitInv'
<1> USE DEF WaitInv, Waits
<1>0. "worker" \in Threads /\ "dispatch" \in Threads /\ "init" \in Threads
  BY DEF Threads
<1>1. CASE StartLoop \/ ClaimBus \/ ReleaseBus
  BY <1>0, <1>1, OneGoes DEF StartLoop, ClaimBus, ReleaseBus, pumpVars, dispatchVars
<1>2. CASE AskPumpToStop("worker", "asking", "awaiting")
  BY <1>0, <1>2, OneGoes DEF AskPumpToStop, dispatchVars
<1>3. CASE AwaitDispatch("worker", "awaiting", "taking") \/ PumpIsStopped("worker", "taking", "claiming")
  BY <1>0, <1>3, OneGoes DEF AwaitDispatch, PumpIsStopped, pumpVars, dispatchVars
<1>4. CASE LoopFrame
  BY <1>4 DEF LoopFrame, pumpVars, dispatchVars
<1>5. CASE ChecksPump("worker", "releasing", "posting", "idle")
  BY <1>0, <1>5, OneGoes DEF ChecksPump, pumpVars, dispatchVars
<1>6. CASE PostsPump("worker", "posting", "idle")
  BY <1>0, <1>6, OneGoes DEF PostsPump, OwnerInv, LoopInv
<1>7. QED
  BY <1>1, <1>2, <1>3, <1>4, <1>5, <1>6 DEF Worker

LEMMA DispatchWaits == ASSUME TypeInv, BusInv, OwnerInv, WaitInv, Dispatch \/ PumpCrashes PROVE WaitInv'
<1> USE DEF WaitInv, Waits
<1>0. "worker" \in Threads /\ "dispatch" \in Threads /\ "init" \in Threads
  BY DEF Threads
<1>1. CASE DispatchWakes
  <2>1. /\ pc'["dispatch"] = IF dispatchStop THEN "ended" ELSE "called"
        /\ pc'["worker"] = pc["worker"] /\ pc'["init"] = pc["init"]
        /\ UNCHANGED <<pumpStop, dispatchStop>>
    BY <1>0, <1>1, OneGoes DEF DispatchWakes, pumpVars
  <2>2. dispatchStop => ~dispatchBusy'
    BY <1>1 DEF DispatchWakes
  <2>3. QED BY <2>1, <2>2
<1>2. CASE BodyChecksOwner \/ BodyChecksPump
  BY <1>0, <1>2, OneGoes DEF BodyChecksOwner, BodyChecksPump, pumpVars, dispatchVars
<1>3. CASE BridgeFrame \/ PumpFrame
  BY <1>3 DEF BridgeFrame, PumpFrame, pumpVars, dispatchVars
<1>4. CASE BridgeEnds \/ PumpStarts \/ PumpLaunches
  BY <1>0, <1>4, OneGoes DEF BridgeEnds, PumpStarts, PumpLaunches, pumpVars, dispatchVars
<1>5. CASE PumpCrashes \/ PumpEnds \/ DispatchIsDone
  BY <1>0, <1>5, OneGoes DEF PumpCrashes, PumpEnds, DispatchIsDone, pumpVars, dispatchVars
<1>6. QED
  BY <1>1, <1>2, <1>3, <1>4, <1>5 DEF Dispatch

LEMMA InitWaits == ASSUME TypeInv, BusInv, OwnerInv, WaitInv, InitWorker \/ RequestInit \/ RequestDeinit
                   PROVE  WaitInv'
<1> USE DEF WaitInv, Waits
<1>0. "worker" \in Threads /\ "dispatch" \in Threads /\ "init" \in Threads
  BY DEF Threads
<1>1. CASE RequestInit \/ RequestDeinit \/ InitializeClears \/ EntersOp \/ EnterFails
  BY <1>0, <1>1, OneGoes DEF RequestInit, RequestDeinit, InitializeClears, EntersOp, EnterFails,
     pumpVars, dispatchVars
<1>2. CASE InitializeRevives
  <2>1. /\ pc["init"] = "bringup" /\ pc'["init"] = "entering" /\ pc'["worker"] = pc["worker"]
        /\ pc'["dispatch"] = IF pc["dispatch"] = "ended" THEN "waiting" ELSE pc["dispatch"]
    BY <1>0, <1>2 DEF InitializeRevives, TypeInv
  <2>2. ~dispatchBusy /\ ~dispatchBusy' /\ UNCHANGED pumpStop
    BY <1>2, <2>1 DEF InitializeRevives, BusInv, MasterInv, OwnerInv, DispatchInv, pumpVars
  <2>3. dispatchStop => pc["dispatch"] = "ended"
    BY <2>1 DEF BusInv, EndInv
  <2>4. ~dispatchStop'
    BY <1>2, <2>3 DEF InitializeRevives
  <2>5. QED BY <2>1, <2>2, <2>4
<1>3. CASE ChecksPump("init", "starting", "posting", "idle")
  BY <1>0, <1>3, OneGoes DEF ChecksPump, pumpVars, dispatchVars
<1>4. CASE PostsPump("init", "posting", "idle")
  BY <1>0, <1>4, OneGoes DEF PostsPump, OwnerInv, LoopInv
<1>5. CASE DeinitSeats
  <2>1. /\ pc["init"] = "joined" /\ pc'["init"] = "seating"
        /\ pc'["worker"] = "asking" /\ pc'["dispatch"] = pc["dispatch"]
    BY <1>0, <1>5 DEF DeinitSeats, TypeInv
  <2>2. QED BY <1>5, <2>1 DEF DeinitSeats, pumpVars, dispatchVars
<1>6. CASE DeinitJoins \/ DeinitSeated \/ DeinitSkipsSeat \/ JoinsDispatch \/ DropsRequests \/ Disables \/ Closes
  BY <1>0, <1>6, OneGoes DEF DeinitJoins, DeinitSeated, DeinitSkipsSeat, JoinsDispatch, DropsRequests, Disables, Closes, pumpVars,
     dispatchVars
<1>7. CASE AskPumpToStop("init", "quieting", "asked") \/ AskPumpToStop("init", "requieting", "reasked")
  BY <1>0, <1>7, OneGoes DEF AskPumpToStop, dispatchVars
<1>8. CASE AwaitDispatch("init", "asked", "silencing") \/ AwaitDispatch("init", "reasked", "resilencing")
  BY <1>0, <1>8, OneGoes DEF AwaitDispatch, pumpVars, dispatchVars
<1>9. CASE PumpIsStopped("init", "silencing", "quieted") \/ PumpIsStopped("init", "resilencing", "silent")
  BY <1>0, <1>9, OneGoes DEF PumpIsStopped, dispatchVars
<1>10. CASE EndsDispatch
  BY <1>0, <1>10, OneGoes DEF EndsDispatch, pumpVars, OwnerInv, DispatchInv, Quiet
<1>11. QED
  BY <1>1, <1>2, <1>3, <1>4, <1>5, <1>6, <1>7, <1>8, <1>9, <1>10 DEF InitWorker

LEMMA WaitInvariant == Spec => [](~early => WaitInv)
<1>1. Init => WaitInv
  BY DEF Init, WaitInv, Waits, Threads
<1>2. TypeInv /\ BusInv /\ (~early => OwnerInv) /\ (~early => WaitInv) /\ [Next]_vars
        => (~early' => WaitInv')
  <2> SUFFICES ASSUME TypeInv, BusInv, ~early => OwnerInv, ~early => WaitInv, [Next]_vars, ~early'
               PROVE  WaitInv'
    OBVIOUS
  <2>1. CASE early
    <3>1. Disables
      BY <2>1, OnlyDisables
    <3>2. /\ pc'["worker"] = "idle" /\ pc'["init"] = "closing" /\ pc["dispatch"] = "ended"
      BY <2>1, <3>1, OneGoes DEF Disables, BusInv, EndInv, Joined, Threads
    <3>3. ~dispatchBusy'
      BY <3>1, <3>2 DEF Disables, BusInv, EndInv, dispatchVars
    <3>4. QED
      BY <3>2, <3>3 DEF WaitInv, Waits
  <2>2. CASE ~early /\ (RequestStopAll \/ UNCHANGED vars)
    BY <2>2 DEF RequestStopAll, vars, pumpVars, dispatchVars, WaitInv, Waits
  <2>3. QED
    BY <2>1, <2>2, WorkerWaits, DispatchWaits, InitWaits DEF Next
<1>3. QED
  BY <1>1, <1>2, TypeInvariant, BusInvariant, OwnerInvariant, PTL DEF Spec

\* A dispatch that was told to leave comes nearer to its rest with each step.
LEMMA DispatchLeaves ==
    ASSUME TypeInv, BusInv, OwnerInv, WaitInv, Waits, Dispatch PROVE StepsLeft' < StepsLeft
<1> USE DEF StepsLeft
<1>0. "dispatch" \in Threads /\ pumpStop
  BY DEF Threads, WaitInv
<1>1. dispatchReq => pc["dispatch"] = "waiting"
  BY ReqIsWaiting
<1>2. pc["dispatch"] = "waiting" => ~dispatchStop
  BY DEF BusInv, EndInv, Waits, OwnerInv, LoopInv
<1>3. CASE DispatchWakes
  <2>1. pc["dispatch"] = "waiting" /\ pc'["dispatch"] = "called" /\ dispatchReq /\ ~dispatchReq'
    BY <1>0, <1>2, <1>3, OneGoes DEF DispatchWakes
  <2>2. QED BY <2>1
<1>4. CASE BodyChecksOwner \/ BodyChecksPump
  <2>1. /\ ~dispatchReq /\ ~dispatchReq'
        /\ \/ pc["dispatch"] = "called" /\ pc'["dispatch"] \in {"done", "unowned"}
           \/ pc["dispatch"] = "unowned" /\ pc'["dispatch"] = "done"
    BY <1>0, <1>1, <1>4, OneGoes DEF BodyChecksOwner, BodyChecksPump, dispatchVars
  <2>2. QED BY <2>1
<1>5. CASE BridgeEnds \/ PumpStarts \/ PumpLaunches
  <2>1. pc["dispatch"] # "waiting" /\ UNCHANGED dispatchReq
    BY <1>5 DEF BridgeEnds, PumpStarts, PumpLaunches, Goes, dispatchVars
  <2>2. \/ pc["dispatch"] = "bridge" /\ pc'["dispatch"] = "bridged"
        \/ pc["dispatch"] = "bridged" /\ pc'["dispatch"] = "done"
        \/ pc["dispatch"] = "launch" /\ pc'["dispatch"] = "pump"
    BY <1>0, <1>5, OneGoes DEF BridgeEnds, PumpStarts, PumpLaunches
  <2>3. QED BY <1>1, <2>1, <2>2
<1>6. CASE PumpEnds \/ DispatchIsDone
  <2>1. /\ ~dispatchReq /\ ~dispatchReq'
        /\ \/ pc["dispatch"] = "pump" /\ pc'["dispatch"] = "done"
           \/ pc["dispatch"] = "done" /\ pc'["dispatch"] = "waiting"
    BY <1>0, <1>1, <1>6, OneGoes DEF PumpEnds, DispatchIsDone, dispatchVars
  <2>2. QED BY <2>1
<1>7. CASE BridgeFrame \/ PumpFrame
  BY <1>0, <1>7 DEF BridgeFrame, PumpFrame
<1>8. QED
  BY <1>3, <1>4, <1>5, <1>6, <1>7 DEF Dispatch

\* Nobody sends a dispatch back that somebody waits for.
LEMMA NobodyPosts ==
    ASSUME TypeInv, BusInv, OwnerInv, WaitInv, Waits, [Next]_vars, ~Dispatch
    PROVE  StepsLeft' <= StepsLeft
<1>0. "worker" \in Threads /\ "dispatch" \in Threads /\ "init" \in Threads
  BY DEF Threads
<1>1. /\ pc["worker"] # "posting" /\ pc["init"] \notin {"posting", "bringup"}
  BY DEF Waits, OwnerInv, LoopInv
<1>2. dispatchReq' => dispatchReq
  BY <1>1 DEF Next, Worker, InitWorker, StartLoop, ClaimBus, LoopFrame, ReleaseBus, AskPumpToStop,
     AwaitDispatch, PumpIsStopped, ChecksPump, PostsPump, Goes, InitializeClears, InitializeRevives,
     EntersOp, EnterFails, DeinitJoins, DeinitSeats, DeinitSeated, DeinitSkipsSeat, EndsDispatch,
     JoinsDispatch, DropsRequests, Disables, Closes, RequestInit, RequestDeinit, RequestStopAll,
     PumpCrashes, vars, dispatchVars
<1>3. \/ pc'["dispatch"] = pc["dispatch"]
      \/ pc["dispatch"] = "pump" /\ pc'["dispatch"] = "done"
  <2>1. CASE \E from, to : Goes("worker", from, to) \/ Goes("init", from, to)
    BY <1>0, <2>1, OneGoes
  <2>2. CASE PumpCrashes
    BY <1>0, <2>2, OneGoes DEF PumpCrashes
  <2>3. CASE LoopFrame \/ RequestStopAll \/ UNCHANGED vars
    BY <2>3 DEF LoopFrame, RequestStopAll, vars
  <2>4. CASE DeinitSeats
    BY <1>0, <2>4 DEF DeinitSeats, TypeInv
  <2>5. QED
    BY <1>1, <2>1, <2>2, <2>3, <2>4 DEF Next, Worker, InitWorker, StartLoop, ClaimBus, ReleaseBus,
       AskPumpToStop, AwaitDispatch, PumpIsStopped, ChecksPump, PostsPump, InitializeClears,
       InitializeRevives, EntersOp, EnterFails, DeinitJoins, DeinitSeated, DeinitSkipsSeat,
       EndsDispatch, JoinsDispatch, DropsRequests, Disables, Closes, RequestInit, RequestDeinit
<1>4. dispatchReq => pc["dispatch"] = "waiting"
  BY ReqIsWaiting
<1>5. CASE dispatchReq /\ ~dispatchReq'
  <2>1. pc'["dispatch"] = "waiting"
    BY <1>3, <1>4, <1>5
  <2>2. QED BY <1>5, <2>1 DEF StepsLeft
<1>6. CASE dispatchReq /\ dispatchReq'
  BY <1>6 DEF StepsLeft
<1>7. CASE ~dispatchReq /\ ~dispatchReq'
  BY <1>3, <1>7 DEF StepsLeft
<1>8. QED
  BY <1>2, <1>5, <1>6, <1>7

\* A handover waits for six steps of the dispatch thread at most.
THEOREM WaitsEnd == Spec => WaitsAreShort
<1>1. TypeInv /\ BusInv /\ OwnerInv /\ WaitInv => (dispatchBusy <=> StepsLeft > 0)
  <2> SUFFICES ASSUME TypeInv, BusInv, OwnerInv, WaitInv PROVE dispatchBusy <=> StepsLeft > 0
    OBVIOUS
  <2>1. CASE dispatchReq
    BY <2>1 DEF StepsLeft, OwnerInv, DispatchInv
  <2>2. CASE ~dispatchReq
    <3>1. StepsLeft > 0 <=> pc["dispatch"] \notin {"waiting", "ended"}
      BY <2>2 DEF StepsLeft, TypeInv, TypeOK, DispatchSteps
    <3>2. dispatchBusy <=> pc["dispatch"] \notin {"waiting", "ended"}
      BY <2>2 DEF WaitInv, OwnerInv, DispatchInv
    <3>3. QED BY <3>1, <3>2
  <2>3. QED BY <2>1, <2>2
<1>2. BusInv /\ OwnerInv
        => (pc["init"] = "ending" => dispatchStop /\ pc["dispatch"] \in {"waiting", "ended"})
  BY DEF BusInv, EndInv, OwnerInv, DispatchInv, Quiet
<1>3. TypeInv /\ BusInv /\ (~early => OwnerInv) /\ (~early => WaitInv)
        => (~early => /\ Waits => pumpStop
                      /\ dispatchBusy <=> StepsLeft > 0
                      /\ pc["init"] = "ending" => dispatchStop /\ pc["dispatch"] \in {"waiting", "ended"})
  BY <1>1, <1>2 DEF WaitInv
<1>4. TypeInv /\ BusInv /\ (~early => OwnerInv) /\ (~early => WaitInv) /\ [Next]_vars
        => [~early /\ Waits => IF Dispatch THEN StepsLeft' < StepsLeft ELSE StepsLeft' <= StepsLeft]_vars
  BY DispatchLeaves, NobodyPosts
<1>5. QED
  BY <1>3, <1>4, TypeInvariant, BusInvariant, OwnerInvariant, WaitInvariant, PTL DEF Spec, WaitsAreShort
=============================================================================
