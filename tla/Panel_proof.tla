----------------------------- MODULE Panel_proof -----------------------------
(***************************************************************************)
(* Proofs about Panel, for any debounce, any time-out of a re-initialize   *)
(* and any number of presses.                                              *)
(***************************************************************************)
EXTENDS Panel, TLAPS

-----------------------------------------------------------------------------
(* Types. *)

\* The types a poll is about, and those of the rest.
FlagsType ==
    /\ mushroom \in BOOLEAN /\ latched \in BOOLEAN /\ autoStart \in BOOLEAN /\ sawBusy \in BOOLEAN
    /\ prevBusy \in BOOLEAN /\ op \in BOOLEAN /\ initBusy \in BOOLEAN /\ overtaken \in BOOLEAN
    /\ input \in BOOLEAN /\ tripped \in BOOLEAN /\ seen \in BOOLEAN
    /\ late \in BOOLEAN /\ wish \in {"none", "alive", "lapsed"}
StatusType ==
    st \in [open : BOOLEAN, run : BOOLEAN, masterOp : BOOLEAN, loopRunning : BOOLEAN, fault : BOOLEAN,
            estop : BOOLEAN, estopInput : BOOLEAN, initBusy : BOOLEAN]
CountsType ==
    /\ poll \in {"read", "act"}
    /\ reads \in 0..EngageReads + ReleaseReads
    /\ stage \in 0..3 /\ ticks \in 0..ReinitPolls
    /\ events \in 0..MaxEvents
WorkerType ==
    /\ asked \subseteq {"init", "deinit"} /\ (asked # {} \/ worker # "idle" <=> initBusy)
    /\ worker \in {"idle", "joining", "seating", "seat pass", "closing", "init", "op"}
    /\ loop \in {"off", "starting", "on", "ending"}
    /\ worker # "idle" => asked = {}

LEMMA EventCounts == ASSUME events \in 0..MaxEvents, Event PROVE events' \in 0..MaxEvents
BY BoundAssumption DEF Event

LEMMA ReadTypes == ASSUME FlagsType, StatusType, CountsType, WorkerType, Read
                   PROVE  FlagsType' /\ StatusType' /\ CountsType' /\ WorkerType'
<1>1. StatusType'
  BY DEF Read, Status, StatusType, FlagsType, EstopHolds, Running
<1>2. events' \in 0..MaxEvents
  BY EventCounts DEF Read, CountsType
<1>3. FlagsType'
  BY DEF Read, FlagsType, chainVars, initVars, stopVars
<1>4. CountsType'
  BY <1>2 DEF Read, CountsType, chainVars
<1>5. WorkerType'
  BY DEF Read, WorkerType, initVars
<1>6. QED
  BY <1>1, <1>3, <1>4, <1>5

LEMMA RequestTypes == ASSUME FlagsType, WorkerType, NEW rs \in SUBSET {"init", "deinit"}, Requests(rs),
                             UNCHANGED worker
                      PROVE  /\ asked' \subseteq {"init", "deinit"} /\ initBusy' \in BOOLEAN
                             /\ asked' # {} \/ worker' # "idle" <=> initBusy'
                             /\ worker' # "idle" => asked' = {}
<1>1. CASE initBusy
  <2>1. {r \in rs : Accepts(r)} = {}
    BY <1>1 DEF Accepts
  <2>2. QED
    BY <1>1, <2>1 DEF Requests, FlagsType, WorkerType
<1>2. CASE ~initBusy
  BY <1>2 DEF Requests, FlagsType, WorkerType
<1>3. QED
  BY <1>1, <1>2 DEF FlagsType

LEMMA FilterTypes == ASSUME FlagsType, StatusType, CountsType, Filter
                     PROVE  latched' \in BOOLEAN /\ reads' \in 0..EngageReads + ReleaseReads
<1>1. latched' \in BOOLEAN
  BY DEF Filter, FlagsType, StatusType
<1>2. CASE Settles \/ st.open = latched
  <2>1. reads' = 0
    BY <1>2 DEF Filter
  <2>2. 0 \in 0..EngageReads + ReleaseReads
    BY ReadAssumption
  <2>3. QED
    BY <1>1, <2>1, <2>2
<1>3. CASE ~Settles /\ st.open # latched
  <2>1. reads' = reads + 1
    BY <1>3 DEF Filter
  <2>2. reads + 1 < EngageReads + ReleaseReads
    BY <1>3, ReadAssumption DEF Settles, CountsType
  <2>3. reads' \in 0..EngageReads + ReleaseReads
    BY <2>1, <2>2, ReadAssumption DEF CountsType
  <2>4. QED
    BY <1>1, <2>3
<1>4. QED
  BY <1>1, <1>2, <1>3

LEMMA ChainTypes == ASSUME FlagsType, StatusType, CountsType, Chains, latched' \in BOOLEAN
                    PROVE  /\ autoStart' \in BOOLEAN /\ prevBusy' \in BOOLEAN /\ sawBusy' \in BOOLEAN
                           /\ stage' \in 0..3 /\ ticks' \in 0..ReinitPolls
<1>1. autoStart' \in BOOLEAN /\ prevBusy' \in BOOLEAN
  BY DEF Chains, StatusType
<1>2. sawBusy' \in BOOLEAN
  BY DEF Chains
<1>3. StageNow \in 0..3 /\ NextStage \in {2, 3}
  BY DEF StageNow, NextStage, CountsType
<1>4. stage' \in 0..3
  BY <1>3 DEF Chains
<1>5. TicksNow \in 0..ReinitPolls
  BY BoundAssumption DEF TicksNow, CountsType
<1>6. ticks' \in 0..ReinitPolls
  <2>1. CASE StageNow = 0
    BY <1>5, <2>1 DEF Chains
  <2>2. CASE StageNow # 0 /\ (StepsOn \/ stage' = 0)
    BY <2>2, BoundAssumption DEF Chains
  <2>3. CASE StageNow # 0 /\ ~StepsOn /\ stage' # 0
    <3>1. ~GivesUp /\ ticks' = TicksNow + 1
      BY <2>3 DEF Chains, ReinitOver
    <3>2. QED
      BY <1>5, <3>1, BoundAssumption DEF GivesUp
  <2>4. QED
    BY <2>1, <2>2, <2>3
<1>7. QED
  BY <1>1, <1>2, <1>4, <1>6

LEMMA ActTypes == ASSUME FlagsType, StatusType, CountsType, WorkerType, Act
                  PROVE  FlagsType' /\ StatusType' /\ CountsType' /\ WorkerType'
<1>1. latched' \in BOOLEAN /\ reads' \in 0..EngageReads + ReleaseReads
  BY FilterTypes DEF Act
<1>2. /\ autoStart' \in BOOLEAN /\ prevBusy' \in BOOLEAN /\ sawBusy' \in BOOLEAN
      /\ stage' \in 0..3 /\ ticks' \in 0..ReinitPolls
  BY <1>1, ChainTypes DEF Act
<1>3. input' \in BOOLEAN /\ tripped' \in BOOLEAN /\ overtaken' \in BOOLEAN
  BY DEF Act, PanelEstop, Presses, FlagsType
<1>4. /\ asked' \subseteq {"init", "deinit"} /\ initBusy' \in BOOLEAN
      /\ asked' # {} \/ worker' # "idle" <=> initBusy'
      /\ worker' # "idle" => asked' = {}
  BY RequestTypes DEF Act
<1>5. wish' \in {"none", "alive", "lapsed"}
  BY DEF Act, FlagsType
<1>6. late' \in BOOLEAN
  BY DEF Act
<1>7. loop' \in {"off", "starting", "on", "ending"}
  BY DEF Act, WorkerType
<1>8. FlagsType' /\ WorkerType'
  BY <1>1, <1>2, <1>3, <1>4, <1>5, <1>6, <1>7 DEF Act, FlagsType, WorkerType
<1>9. StatusType' /\ CountsType'
  BY <1>1, <1>2 DEF Act, StatusType, CountsType
<1>10. QED
  BY <1>8, <1>9

LEMMA SurfaceTypes == ASSUME FlagsType, StatusType, CountsType, WorkerType, Surfaces
                      PROVE  FlagsType' /\ StatusType' /\ CountsType' /\ WorkerType'
<1> USE DEF MoveMushroom, WebEstop, WebRelease, WebStart, WebStop, WebRequest
<1>1. events' \in 0..MaxEvents
  BY EventCounts DEF Surfaces, CountsType
<1>2. UNCHANGED <<st, poll, chainVars, worker, seen, op>>
  BY DEF Surfaces, lineVars, initVars
<1>3. StatusType'
  BY <1>2 DEF StatusType
<1>4. CountsType'
  BY <1>1, <1>2 DEF CountsType, chainVars
<1>5. FlagsType' /\ WorkerType'
  <2>1. CASE MoveMushroom \/ WebEstop \/ WebRelease \/ WebStart \/ WebStop
    <3>1. UNCHANGED <<asked, initBusy, worker>>
      BY <2>1 DEF initVars
    <3>2. loop' \in {"off", "starting", "on", "ending"}
      BY <2>1 DEF WorkerType
    <3>3. /\ mushroom' \in BOOLEAN /\ input' \in BOOLEAN /\ tripped' \in BOOLEAN
          /\ overtaken' \in BOOLEAN /\ wish' \in {"none", "alive", "lapsed"} /\ late' \in BOOLEAN
      BY <2>1 DEF FlagsType, Presses, Lapses, lineVars, initVars, stopVars
    <3>4. FlagsType'
      BY <1>2, <3>1, <3>3 DEF FlagsType, chainVars
    <3>5. WorkerType'
      BY <3>1, <3>2 DEF WorkerType
    <3>6. QED
      BY <3>4, <3>5
  <2>2. ASSUME NEW r \in {"init", "deinit"}, WebRequest(r)
        PROVE  FlagsType' /\ WorkerType'
    <3>1. /\ asked' \subseteq {"init", "deinit"} /\ initBusy' \in BOOLEAN
          /\ asked' # {} \/ worker' # "idle" <=> initBusy'
          /\ worker' # "idle" => asked' = {}
      <4>1. {r} \in SUBSET {"init", "deinit"}
        OBVIOUS
      <4>2. QED
        BY <2>2, <4>1, RequestTypes, <1>2
    <3>2. FlagsType'
      BY <1>2, <2>2, <3>1 DEF FlagsType, lineVars, chainVars, stopVars
    <3>3. WorkerType'
      BY <1>2, <2>2, <3>1 DEF WorkerType
    <3>4. QED
      BY <3>2, <3>3
  <2>3. QED
    BY <2>1, <2>2 DEF Surfaces
<1>6. QED
  BY <1>3, <1>4, <1>5

LEMMA WorkerTypes == ASSUME FlagsType, StatusType, CountsType, WorkerType,
                            InitWorker \/ LoopStarts \/ LoopEnds
                     PROVE  FlagsType' /\ StatusType' /\ CountsType' /\ WorkerType'
<1> USE DEF InitWorker, LoopStarts, LoopEnds, TakeDeinit, JoinLoop, Seat, SeatPassEnds, ShutDown,
            TakeInit, InitReachesOp, InitFails, InitEnds, Worker
<1>1. UNCHANGED <<lineVars, chainVars, input, events>>
  BY DEF stopVars
<1>2. StatusType'
  BY <1>1 DEF StatusType, lineVars
<1>3. CountsType'
  BY <1>1 DEF CountsType, lineVars, chainVars
<1>4. FlagsType'
  <2>1. /\ op' \in BOOLEAN /\ initBusy' \in BOOLEAN /\ overtaken' \in BOOLEAN
        /\ tripped' \in BOOLEAN /\ seen' \in BOOLEAN /\ late' \in BOOLEAN
        /\ wish' \in {"none", "alive", "lapsed"}
    BY DEF FlagsType, initVars, stopVars, Lapses
  <2>2. QED
    BY <1>1, <2>1 DEF FlagsType, lineVars, chainVars
<1>5. WorkerType'
  <2>1. loop' \in {"off", "starting", "on", "ending"}
    BY DEF WorkerType
  <2>2. worker' \in {"idle", "joining", "seating", "seat pass", "closing", "init", "op"}
    BY DEF WorkerType, initVars
  <2>3. asked' \subseteq {"init", "deinit"} /\ (worker' # "idle" => asked' = {})
    BY DEF WorkerType, initVars
  <2>4. asked' # {} \/ worker' # "idle" <=> initBusy'
    <3>1. CASE LoopStarts \/ LoopEnds \/ JoinLoop \/ SeatPassEnds \/ Seat \/ InitReachesOp
      <4>1. asked' = asked /\ initBusy' = initBusy
        BY <3>1 DEF initVars
      <4>2. worker = "idle" <=> worker' = "idle"
        BY <3>1 DEF initVars
      <4>3. QED
        BY <4>1, <4>2 DEF WorkerType
    <3>2. CASE TakeDeinit \/ TakeInit
      BY <3>2 DEF WorkerType, FlagsType
    <3>3. CASE ShutDown \/ InitFails \/ InitEnds
      BY <3>3 DEF WorkerType
    <3>4. QED
      BY <3>1, <3>2, <3>3
  <2>5. QED
    BY <2>1, <2>2, <2>3, <2>4 DEF WorkerType
<1>6. QED
  BY <1>2, <1>3, <1>4, <1>5

LEMMA TypeInvariant == Spec => [](FlagsType /\ StatusType /\ CountsType /\ WorkerType)
<1>1. Init => FlagsType /\ StatusType /\ CountsType /\ WorkerType
  <2> SUFFICES ASSUME Init PROVE FlagsType /\ StatusType /\ CountsType /\ WorkerType
    OBVIOUS
  <2>1. StatusType
    <3>1. EstopHolds \in BOOLEAN /\ Running \in BOOLEAN
      BY DEF EstopHolds, Running
    <3>2. QED
      BY <3>1 DEF Init, Status, StatusType
  <2>2. FlagsType /\ WorkerType
    <3>1. FlagsType
      BY DEF Init, FlagsType
    <3>2. asked = {} /\ worker = "idle" /\ loop = "off" /\ ~initBusy
      BY DEF Init
    <3>3. WorkerType
      BY <3>1, <3>2 DEF WorkerType, FlagsType
    <3>4. QED
      BY <3>1, <3>3
  <2>3. CountsType
    BY ReadAssumption, BoundAssumption DEF Init, CountsType
  <2>4. QED
    BY <2>1, <2>2, <2>3
<1>2. FlagsType /\ StatusType /\ CountsType /\ WorkerType /\ [Next]_vars
        => FlagsType' /\ StatusType' /\ CountsType' /\ WorkerType'
  <2>1. ASSUME FlagsType, StatusType, CountsType, WorkerType, UNCHANGED vars
        PROVE  FlagsType' /\ StatusType' /\ CountsType' /\ WorkerType'
    <3> USE <2>1 DEF vars, lineVars, chainVars, initVars, stopVars
    <3>1. FlagsType'
      BY DEF FlagsType
    <3>2. StatusType' /\ WorkerType'
      BY DEF StatusType, WorkerType
    <3>3. CountsType'
      BY DEF CountsType
    <3>4. QED
      BY <3>1, <3>2, <3>3
  <2>2. QED
    BY <2>1, ReadTypes, ActTypes, SurfaceTypes, WorkerTypes DEF Next
<1>3. QED
  BY <1>1, <1>2, PTL DEF Spec

\* The panel's filter, its chains and what it sees of the program keep their
\* types: no count runs past its bound, and the busy flag tells whether the
\* init worker is asked or at work.
THEOREM PanelTyping == Spec => []TypeOK
<1>1. FlagsType /\ StatusType /\ CountsType /\ WorkerType => TypeOK
  <2> SUFFICES ASSUME FlagsType, StatusType, CountsType, WorkerType PROVE TypeOK
    OBVIOUS
  <2>1. {mushroom, latched, autoStart, sawBusy, prevBusy, op, initBusy, overtaken,
         input, tripped, seen, late} \subseteq BOOLEAN
    BY DEF FlagsType
  <2>2. QED
    BY <2>1 DEF TypeOK, FlagsType, StatusType, CountsType, WorkerType
<1>2. QED
  BY <1>1, TypeInvariant, PTL
-----------------------------------------------------------------------------
(* The latch. *)

\* Once latched, nothing of the panel's own goes on: neither the chained
\* start nor a re-initialize survives the poll that latches.
THEOREM LatchWins == Spec => []LatchDropsChains
<1>1. Init => LatchDropsChains
  BY DEF Init, LatchDropsChains
<1>2. LatchDropsChains /\ [Next]_vars => LatchDropsChains'
  <2> SUFFICES ASSUME LatchDropsChains, [Next]_vars PROVE LatchDropsChains'
    OBVIOUS
  <2>1. CASE Act
    <3>1. ASSUME latched' PROVE ~autoStart'
      BY <2>1, <3>1 DEF Act, Chains, ChainDrops
    <3>2. ASSUME latched' PROVE stage' = 0
      BY <2>1, <3>2 DEF Act, Chains, ReinitOver
    <3>3. QED
      BY <3>1, <3>2 DEF LatchDropsChains
  <2>2. CASE Read \/ UNCHANGED vars
    BY <2>2 DEF Read, vars, chainVars, LatchDropsChains
  <2>3. CASE Surfaces
    BY <2>3 DEF Surfaces, MoveMushroom, WebEstop, WebRelease, WebStart, WebStop, WebRequest,
                chainVars, LatchDropsChains
  <2>4. CASE LoopStarts \/ LoopEnds \/ InitWorker
    BY <2>4 DEF LoopStarts, LoopEnds, InitWorker, TakeDeinit, JoinLoop, Seat, SeatPassEnds, ShutDown,
                TakeInit, InitReachesOp, InitFails, InitEnds, chainVars, LatchDropsChains
  <2>5. QED
    BY <2>1, <2>2, <2>3, <2>4 DEF Next
<1>3. QED
  BY <1>1, <1>2, PTL DEF Spec

-----------------------------------------------------------------------------
(* The chained start. *)

\* A chain whose RUN was revoked still stands only where the panel is bound
\* to notice: this poll has read the e-stop, or an init over without OP that
\* the last one saw at work, or the trip holds and no init will clear it
\* before a poll reads it.
Revoked ==
    \/ poll = "act" /\ st.estop
    \/ poll = "act" /\ prevBusy /\ ~st.initBusy /\ ~st.masterOp
    \/ tripped /\ (overtaken \/ worker \notin {"init", "op"} \/ (worker = "init" /\ ~seen))
ChainInv ==
    /\ autoStart /\ wish = "none" => Revoked
    /\ poll = "read" => prevBusy = st.initBusy

\* A poll that keeps the chain has read no e-stop and no init that is over
\* without OP, asserted no e-stop, and pressed neither to stop nor to
\* re-initialize.
LEMMA ChainKept ==
    ASSUME StatusType, Act, ArmedNow, ~st.estop, ~Asserts, wish' = "none"
    PROVE  autoStart /\ wish = "none" /\ UNCHANGED <<tripped, overtaken>>
<1>1. ~RunsTripped /\ ~(RunsFree /\ st.loopRunning)
  BY DEF ArmedNow
<1>2. wish = "none" /\ RunCall \cap {"init", "start"} = {}
  BY <1>1 DEF Act
<1>3. autoStart
  BY <1>1, <1>2 DEF ArmedNow
<1>4. QED
  BY <1>2, <1>3 DEF Act, PanelEstop

LEMMA ChainAct == ASSUME StatusType, FlagsType, ChainInv, Act PROVE ChainInv'
<1>1. poll' = "read" /\ prevBusy' = st'.initBusy
  BY DEF Act, Chains
<1> SUFFICES ASSUME autoStart', wish' = "none" PROVE Revoked'
  BY <1>1 DEF ChainInv
<1>2. ArmedNow /\ ~latched' /\ ~st.estop /\ ~(prevBusy /\ ~st.initBusy /\ ~st.masterOp)
  BY DEF Act, Chains, ChainDrops
<1>3. ~Asserts
  BY <1>2 DEF Asserts, Engages, Releases, Act, Filter
<1>4. autoStart /\ wish = "none" /\ UNCHANGED <<tripped, overtaken>>
  BY <1>2, <1>3, ChainKept
<1>5. Revoked /\ UNCHANGED <<worker, seen>>
  BY <1>4 DEF ChainInv, Act
<1>6. QED
  BY <1>2, <1>4, <1>5 DEF Revoked

LEMMA ChainRead == ASSUME FlagsType, ChainInv, Read PROVE ChainInv'
<1>1. poll = "read" /\ poll' = "act" /\ UNCHANGED <<autoStart, prevBusy>> /\ prevBusy = st.initBusy
  BY DEF Read, chainVars, ChainInv
<1> SUFFICES ASSUME autoStart, wish' = "none" PROVE Revoked'
  BY <1>1 DEF ChainInv
<1>2. st'.estop = EstopHolds /\ st'.initBusy = initBusy /\ st'.masterOp = op
  BY DEF Read, Status
<1>3. CASE st.initBusy /\ ~initBusy /\ ~op
  BY <1>1, <1>2, <1>3 DEF Revoked
<1>4. CASE ~(st.initBusy /\ ~initBusy /\ ~op)
  <2>1. wish = "none"
    BY <1>4 DEF Read
  <2>2. tripped
    BY <1>1, <2>1 DEF ChainInv, Revoked
  <2>3. QED
    BY <1>1, <1>2, <2>2 DEF Revoked, EstopHolds
<1>5. QED
  BY <1>3, <1>4

LEMMA ChainOthers == ASSUME FlagsType, ChainInv, Surfaces \/ LoopStarts \/ LoopEnds \/ InitWorker
                     PROVE  ChainInv'
<1>1. UNCHANGED <<poll, st, autoStart, prevBusy>>
  <2>1. CASE Surfaces
    BY <2>1 DEF Surfaces, MoveMushroom, WebEstop, WebRelease, WebStart, WebStop, WebRequest,
                lineVars, chainVars
  <2>2. CASE LoopStarts \/ LoopEnds \/ InitWorker
    BY <2>2 DEF LoopStarts, LoopEnds, InitWorker, TakeDeinit, JoinLoop, Seat, SeatPassEnds, ShutDown,
                TakeInit, InitReachesOp, InitFails, InitEnds, lineVars, chainVars
  <2>3. QED
    BY <2>1, <2>2
<1> SUFFICES ASSUME autoStart', wish' = "none" PROVE Revoked'
  BY <1>1 DEF ChainInv
<1>2. CASE WebEstop
  BY <1>2 DEF WebEstop, Presses, Revoked
<1>3. CASE MoveMushroom \/ WebRelease \/ WebStart \/ WebStop \/ LoopStarts \/ LoopEnds
           \/ \E r \in {"init", "deinit"} : WebRequest(r)
  <2>1. UNCHANGED <<tripped, overtaken, worker, seen>> /\ wish = "none"
    BY <1>3 DEF MoveMushroom, WebRelease, WebStart, WebStop, WebRequest, LoopStarts, LoopEnds,
                Lapses, initVars, stopVars
  <2>2. QED
    BY <1>1, <2>1 DEF ChainInv, Revoked
<1>4. CASE InitWorker
  <2>1. wish = "none"
    BY <1>4 DEF InitWorker, TakeDeinit, JoinLoop, Seat, SeatPassEnds, ShutDown, TakeInit,
                InitReachesOp, InitFails, InitEnds, Lapses
  <2>2. Revoked
    BY <1>1, <2>1 DEF ChainInv
  <2>3. CASE TakeDeinit \/ JoinLoop \/ Seat \/ SeatPassEnds \/ ShutDown
    BY <1>1, <2>2, <2>3 DEF TakeDeinit, JoinLoop, Seat, SeatPassEnds, ShutDown, Worker, stopVars, Revoked
  <2>4. CASE TakeInit \/ InitFails
    BY <1>1, <2>2, <2>4 DEF TakeInit, InitFails, Worker, stopVars, Revoked
  <2>5. CASE InitReachesOp
    BY <1>1, <2>2, <2>5 DEF InitReachesOp, Worker, stopVars, Revoked
  <2>6. CASE InitEnds
    BY <1>1, <2>2, <2>6 DEF InitEnds, Worker, Revoked
  <2>7. QED
    BY <1>4, <2>3, <2>4, <2>5, <2>6 DEF InitWorker
<1>5. QED
  BY <1>2, <1>3, <1>4 DEF Surfaces

LEMMA ChainInvariant == Spec => []ChainInv
<1>1. Init => ChainInv
  <2> SUFFICES ASSUME Init PROVE ChainInv
    OBVIOUS
  <2>1. autoStart = FALSE /\ prevBusy = FALSE /\ st.initBusy = FALSE
    BY DEF Init, Status
  <2>2. QED
    BY <2>1 DEF ChainInv
<1>2. FlagsType /\ StatusType /\ ChainInv /\ [Next]_vars => ChainInv'
  <2>1. ASSUME ChainInv, UNCHANGED vars PROVE ChainInv'
    BY <2>1 DEF vars, lineVars, chainVars, initVars, stopVars, ChainInv, Revoked
  <2>2. QED
    BY <2>1, ChainAct, ChainRead, ChainOthers DEF Next
<1>3. QED
  BY <1>1, <1>2, TypeInvariant, PTL DEF Spec

\* The panel starts the loop only for a press of RUN that no e-stop, no other
\* RUN and no init the panel saw fail has come after: a revoked chain is bound
\* to read the e-stop or the failure before it may start.  (A failure within
\* one poll and a web Stop revoke nothing: StartsOnlyWanted.)
THEOREM NoUnwantedStart == Spec => StartsOnlyAsked
<1>1. FlagsType /\ StatusType /\ ChainInv /\ [Next]_vars => [StartsLoop => wish' # "none"]_vars
  <2> SUFFICES ASSUME FlagsType, StatusType, ChainInv, Next,
                      PanelStarts, poll = "act", poll' = "read", wish' = "none"
               PROVE  FALSE
    BY DEF FlagsType, Act, StartsLoop
  <2>1. Act
    BY DEF Next, Read, Surfaces, MoveMushroom, WebEstop, WebRelease, WebStart, WebStop, WebRequest,
           LoopStarts, LoopEnds, InitWorker, TakeDeinit, JoinLoop, Seat, SeatPassEnds, ShutDown,
           TakeInit, InitReachesOp, InitFails, InitEnds, lineVars
  <2>2. ~Asserts /\ ~tripped'
    BY <2>1 DEF Act, PanelEstop, Presses, PanelStarts
  <2>3. CASE "start" \in RunCall
    BY <2>1, <2>2, <2>3 DEF Act, RunCall, RunsTripped, RunsFree, Reinits
  <2>4. CASE ChainStarts
    <3>1. ArmedNow /\ ~st.estop /\ st.masterOp
      BY <2>4 DEF ChainStarts
    <3>2. autoStart /\ wish = "none" /\ UNCHANGED <<tripped, overtaken>>
      BY <2>1, <2>2, <3>1, ChainKept
    <3>3. QED
      BY <2>2, <3>1, <3>2 DEF ChainInv, Revoked
  <2>5. "start" \notin ReinitCall
    BY DEF ReinitCall
  <2>6. QED
    BY <2>3, <2>4, <2>5 DEF PanelStarts, Calls
<1>2. QED
  BY <1>1, TypeInvariant, ChainInvariant, PTL DEF Spec, StartsOnlyAsked

-----------------------------------------------------------------------------
(* The de-init. *)

\* A de-init that has found the loop running waits for its end, and one past
\* the join finds it off, unless a start came in between.
AloneInv ==
    /\ worker = "joining" => loop \in {"ending", "off"} \/ late
    /\ worker \in {"seating", "seat pass", "closing"} => loop = "off" \/ late

LEMMA AloneStep == ASSUME WorkerType, AloneInv, [Next]_vars PROVE AloneInv'
<1>1. CASE Act
  <2>1. worker' = worker /\ (late' <=> late \/ PanelStarts)
    BY <1>1 DEF Act
  <2>2. CASE ~PanelStarts /\ "stop" \in Calls /\ Running
    BY <1>1, <2>1, <2>2 DEF Act, Running, AloneInv
  <2>3. CASE ~PanelStarts /\ ~("stop" \in Calls /\ Running)
    <3>1. loop' = loop
      BY <1>1, <2>3 DEF Act
    <3>2. QED
      BY <2>1, <2>3, <3>1 DEF AloneInv
  <2>4. CASE PanelStarts
    BY <2>1, <2>4 DEF AloneInv
  <2>5. QED
    BY <2>2, <2>3, <2>4
<1>2. CASE Read \/ UNCHANGED vars
  BY <1>2 DEF Read, vars, initVars, AloneInv
<1>3. CASE Surfaces
  BY <1>3 DEF Surfaces, MoveMushroom, WebEstop, WebRelease, WebStart, WebStop, WebRequest,
              initVars, AloneInv
<1>4. CASE LoopStarts \/ LoopEnds
  BY <1>4 DEF LoopStarts, LoopEnds, initVars, AloneInv
<1>5. CASE TakeDeinit
  BY <1>5 DEF TakeDeinit, Worker, Running, WorkerType, AloneInv
<1>6. CASE JoinLoop \/ Seat \/ SeatPassEnds
  BY <1>6 DEF JoinLoop, Seat, SeatPassEnds, Worker, AloneInv
<1>7. CASE ShutDown \/ TakeInit \/ InitReachesOp \/ InitFails \/ InitEnds
  BY <1>7 DEF ShutDown, TakeInit, InitReachesOp, InitFails, InitEnds, Worker, AloneInv
<1>8. QED
  BY <1>1, <1>2, <1>3, <1>4, <1>5, <1>6, <1>7 DEF Next, InitWorker

\* The bus leaves OP only once the loop is off, or beside a loop that came
\* with a start after the de-init had looked.
THEOREM ClosedAlone == Spec => BusClosesAlone
<1>1. Init => AloneInv
  BY DEF Init, AloneInv
<1>2. FlagsType /\ WorkerType /\ AloneInv /\ [Next]_vars
        => AloneInv' /\ [op /\ ~op' => loop = "off" \/ late]_vars
  <2> SUFFICES ASSUME FlagsType, WorkerType, AloneInv, [Next]_vars
               PROVE  AloneInv' /\ [op /\ ~op' => loop = "off" \/ late]_vars
    OBVIOUS
  <2>1. AloneInv'
    BY AloneStep
  <2>2. ASSUME Next, op, ~op' PROVE ShutDown
    BY <2>2 DEF Next, Read, Act, Surfaces, MoveMushroom, WebEstop, WebRelease, WebStart, WebStop,
                WebRequest, LoopStarts, LoopEnds, InitWorker, TakeDeinit, JoinLoop, Seat, SeatPassEnds,
                TakeInit, InitReachesOp, InitFails, InitEnds, initVars
  <2>3. ASSUME ShutDown PROVE loop = "off" \/ late
    BY <2>3 DEF ShutDown, Worker, AloneInv
  <2>4. QED
    BY <2>1, <2>2, <2>3
<1>3. QED
  BY <1>1, <1>2, TypeInvariant, PTL DEF Spec, BusClosesAlone

-----------------------------------------------------------------------------
(* The trip. *)

\* Presses of any surface stop the latch, of the panel's poll too.
LEMMA PressStops ==
    ASSUME WorkerType, Presses, UNCHANGED worker PROVE Latch!Stop
BY DEF Presses, Latch!Stop, WorkerType

LEMMA LatchSteps ==
    ASSUME FlagsType, WorkerType, [Next]_vars PROVE [Latch!Next]_(Latch!vars)
<1>1. CASE Act
  <2>1. CASE Asserts
    BY <1>1, <2>1, PressStops DEF Act, PanelEstop, Latch!Next
  <2>2. CASE ~Asserts
    BY <1>1, <2>2 DEF Act, PanelEstop, Latch!vars
  <2>3. QED BY <2>1, <2>2
<1>2. CASE WebEstop
  BY <1>2, PressStops DEF WebEstop, Latch!Next
<1>3. CASE MoveMushroom \/ WebRelease \/ WebStart \/ WebStop
           \/ \E r \in {"init", "deinit"} : WebRequest(r)
  BY <1>3 DEF MoveMushroom, WebRelease, WebStart, WebStop, WebRequest, initVars, stopVars, Latch!vars
<1>4. CASE Read \/ LoopStarts \/ LoopEnds
  BY <1>4 DEF Read, LoopStarts, LoopEnds, initVars, stopVars, Latch!vars
<1>5. CASE TakeDeinit \/ JoinLoop \/ Seat \/ SeatPassEnds \/ ShutDown
  BY <1>5 DEF TakeDeinit, JoinLoop, Seat, SeatPassEnds, ShutDown, Worker, stopVars, Latch!vars
<1>6. CASE TakeInit
  BY <1>6 DEF TakeInit, Worker, stopVars, Latch!Next, Latch!Begin
<1>7. CASE InitReachesOp
  BY <1>7 DEF InitReachesOp, Worker, stopVars, Latch!vars
<1>8. CASE InitFails
  BY <1>8 DEF InitFails, Worker, stopVars, Latch!Next, Latch!GiveUp
<1>9. CASE InitEnds
  <2>1. CASE overtaken \/ tripped' = tripped
    BY <1>9, <2>1 DEF InitEnds, Worker, FlagsType, Latch!Next, Latch!GiveUp
  <2>2. CASE ~overtaken /\ tripped' # tripped
    <3>1. tripped' = FALSE
      BY <1>9, <2>2 DEF InitEnds, FlagsType
    <3>2. QED
      BY <1>9, <2>2, <3>1 DEF InitEnds, Worker, Latch!Next, Latch!Clear
  <2>3. QED BY <2>1, <2>2
<1>10. CASE UNCHANGED vars
  BY <1>10 DEF vars, initVars, stopVars, Latch!vars
<1>11. QED
  BY <1>1, <1>2, <1>3, <1>4, <1>5, <1>6, <1>7, <1>8, <1>9, <1>10 DEF Next, Surfaces, InitWorker

\* The panel is no way around the latch.
THEOREM PanelKeepsLatch == Spec => KeepsLatch
<1>1. Init => Latch!Init
  BY DEF Init, Latch!Init
<1>2. FlagsType /\ WorkerType /\ [Next]_vars => [Latch!Next]_(Latch!vars)
  BY LatchSteps
<1>3. QED
  BY <1>1, <1>2, TypeInvariant, PTL DEF Spec, KeepsLatch, Latch!Spec

-----------------------------------------------------------------------------
(* The polls of a re-initialize. *)

\* A poll without a press of RUN to re-initialize uses one up.
LEMMA PollsFewer ==
    ASSUME StatusType, CountsType, Act, stage # 0, ~RunsTripped PROVE PollsLeft' < PollsLeft
<1> USE BoundAssumption DEF CountsType
<1>1. Chains /\ StageNow = stage /\ TicksNow = ticks
  <2>1. Chains
    BY DEF Act
  <2>2. ~Reinits
    BY DEF Reinits
  <2>3. StageNow = stage
    BY <2>2 DEF StageNow
  <2>4. TicksNow = ticks
    BY DEF TicksNow
  <2>5. QED
    BY <2>1, <2>3, <2>4
<1>2. CASE ReinitOver
  <2>1. stage' = 0
    BY <1>1, <1>2 DEF Chains
  <2>2. QED
    BY <2>1 DEF PollsLeft
<1>3. CASE ~ReinitOver /\ StepsOn
  <2>1. stage \in {1, 2} /\ stage' \in {2, 3} /\ stage' > stage /\ ticks' = 0
    BY <1>1, <1>3 DEF Chains, StepsOn, NextStage
  <2>2. QED
    BY <2>1 DEF PollsLeft
<1>4. CASE ~ReinitOver /\ ~StepsOn
  <2>1. stage' = stage /\ ticks' = ticks + 1
    BY <1>1, <1>4 DEF Chains
  <2>2. QED
    BY <2>1 DEF PollsLeft
<1>5. QED
  BY <1>2, <1>3, <1>4

\* Nobody but the poll has a hand in the re-initialize.
LEMMA ChainsKept ==
    ASSUME [Next]_vars, ~Act PROVE UNCHANGED <<stage, ticks>>
<1>1. CASE Read \/ LoopStarts \/ LoopEnds \/ InitWorker
  BY <1>1 DEF Read, LoopStarts, LoopEnds, InitWorker, TakeDeinit, JoinLoop, Seat, SeatPassEnds,
     ShutDown, TakeInit, InitReachesOp, InitFails, InitEnds, Worker, chainVars
<1>2. CASE Surfaces
  BY <1>2 DEF Surfaces, MoveMushroom, WebEstop, WebRelease, WebStart, WebStop, WebRequest, chainVars
<1>3. CASE UNCHANGED vars
  BY <1>3 DEF vars, chainVars
<1>4. QED
  BY <1>1, <1>2, <1>3 DEF Next

\* A re-initialize is over after three full counts of polls at most, whatever
\* the other surfaces, the loop and the init worker do meanwhile.
THEOREM ReinitIsBounded == Spec => ReinitIsShort
<1>1. ASSUME StatusType, CountsType, [Next]_vars, stage # 0
      PROVE  \/ Act /\ (RunsTripped \/ PollsLeft' < PollsLeft)
             \/ ~Act /\ PollsLeft' = PollsLeft
  <2>1. CASE Act
    BY <1>1, <2>1, PollsFewer
  <2>2. CASE ~Act
    BY <1>1, <2>2, ChainsKept DEF PollsLeft
  <2>3. QED
    BY <2>1, <2>2
<1>2. QED
  BY <1>1, TypeInvariant, PTL DEF Spec, ReinitIsShort
=============================================================================
