-------------------------- MODULE BusThreads_proof ---------------------------
(***************************************************************************)
(* Proofs about Recovery and BusThreads, for any number of slaves, attempts *)
(* and events.  The invariants are shown one after the other, each with the *)
(* help of those before it.                                                 *)
(***************************************************************************)
EXTENDS BusThreads, TLAPS

-----------------------------------------------------------------------------
(* Who is alive in which state of the master. *)

\* Every thread in the context needs the master in OP; the init worker has
\* joined what it must have joined where it is.
LifeInv ==
    /\ sdo \in {"off", "free", "gated", "reads"}
    /\ recovery # "off" => master = "op"
    /\ loop # "off" => master = "op"
    /\ sdo \in {"gated", "reads"} => master = "op"
    /\ worker = "init" => master # "op"
    /\ worker = "opens" => master = "closed" /\ sdo = "off"
    /\ worker = "starts" => master = "op"
    /\ worker \in {"joinsLoop", "joinsRecovery"} => sdo = "off"
    /\ worker = "joinsRecovery" => loop = "off"

\* The invariant speaks of these only.
lifeView == <<recovery, loop, sdo, master, worker>>

LEMMA LifeStutters == LifeInv /\ UNCHANGED lifeView => LifeInv'
BY DEF LifeInv, lifeView

LEMMA ScanKeepsLife == ASSUME LifeInv, RecoveryThread, UNCHANGED <<sdoVars, lifeVars>>
                       PROVE  LifeInv'
<1>1. recovery # "off"
  BY DEF RecoveryThread, ScanBegins, Decides, Reconfigures, Checks, Recovers, ThreadEnds
<1>2. UNCHANGED <<loop, sdo, master, worker>>
  BY DEF RecoveryThread, ScanBegins, Decides, Reconfigures, Checks, Recovers, ThreadEnds,
         loopVars, sdoVars, lifeVars
<1>3. QED
  BY <1>1, <1>2 DEF LifeInv

LEMMA SdoKeepsLife == ASSUME LifeInv, SdoThread PROVE LifeInv'
<1>1. UNCHANGED <<recovery, loop, master, worker>>
  BY DEF SdoThread, recoveryVars, threadVars, loopVars, lifeVars
<1>2. CASE PicksTemp
  BY <1>1, <1>2 DEF LifeInv, PicksTemp, Gate
<1>3. CASE StartsTransfer
  BY <1>1, <1>3 DEF LifeInv, StartsTransfer, Gate
<1>4. CASE TransferEnds
  BY <1>1, <1>4 DEF LifeInv, TransferEnds
<1>5. CASE SdoEnds
  BY <1>1, <1>5 DEF LifeInv, SdoEnds
<1>6. QED
  BY <1>2, <1>3, <1>4, <1>5 DEF SdoThread

LEMMA WorkerKeepsLife == ASSUME LifeInv, InitWorker PROVE LifeInv'
<1>1. CASE InitQuiesces
  BY <1>1 DEF LifeInv, InitQuiesces, recoveryVars, threadVars, loopVars
<1>2. CASE Opens
  BY <1>2 DEF LifeInv, Opens, threadVars, loopVars, sdoVars
<1>3. CASE StartsThreads
  BY <1>3 DEF LifeInv, StartsThreads, loopVars
<1>4. CASE JoinsSdo
  BY <1>4 DEF LifeInv, JoinsSdo, recoveryVars, threadVars, loopVars, sdoVars
<1>5. CASE JoinsLoop
  BY <1>5 DEF LifeInv, JoinsLoop, loopVars, sdoVars
<1>6. CASE Closes
  BY <1>6 DEF LifeInv, Closes, RecoveryIsJoined, loopVars
<1>7. QED
  BY <1>1, <1>2, <1>3, <1>4, <1>5, <1>6 DEF InitWorker

LEMMA LifeInvariant == Spec => []LifeInv
<1>1. Init => LifeInv
  BY DEF Init, RecoveryInit, LifeInv
<1>2. LifeInv /\ [Next]_vars => LifeInv'
  <2> SUFFICES ASSUME LifeInv, [Next]_vars PROVE LifeInv'
    OBVIOUS
  <2>1. CASE Disturbed /\ UNCHANGED <<sdoVars, lifeVars>>
    BY <2>1, LifeStutters DEF Disturbed, lifeView, threadVars, sdoVars, lifeVars
  <2>2. CASE Cycle /\ UNCHANGED <<sdoVars, lifeVars>>
    BY <2>2, LifeStutters DEF Cycle, lifeView, threadVars, sdoVars, lifeVars
  <2>3. CASE RecoveryThread /\ UNCHANGED <<sdoVars, lifeVars>>
    BY <2>3, ScanKeepsLife
  <2>4. CASE SdoThread
    BY <2>4, SdoKeepsLife
  <2>5. CASE RequestInit \/ RequestDeinit
    BY <2>5 DEF LifeInv, RequestInit, RequestDeinit, Requests, threadVars, loopVars
  <2>6. CASE InitWorker
    BY <2>6, WorkerKeepsLife
  <2>7. CASE StartLoop
    BY <2>7 DEF LifeInv, StartLoop, threadVars, sdoVars, lifeVars
  <2>8. CASE StopLoop \/ JoinedLoopEnds
    BY <2>8 DEF LifeInv, StopLoop, JoinedLoopEnds, LoopEnds, threadVars, sdoVars, lifeVars
  <2>9. CASE UNCHANGED vars
    BY <2>9, LifeStutters DEF vars, lifeView, recoveryVars, threadVars, loopVars, sdoVars, lifeVars
  <2>10. QED
    BY <2>1, <2>2, <2>3, <2>4, <2>5, <2>6, <2>7, <2>8, <2>9 DEF Next, Bus
<1>3. QED
  BY <1>1, <1>2, PTL DEF Spec

\* Nobody is in the context when it is gone, however many slaves, whatever
\* the wire does and whoever asks for an initialize or a de-init.
THEOREM NobodyInClosedContext == Spec => []ContextAlive
<1>1. LifeInv => ContextAlive
  BY DEF LifeInv, ContextAlive
<1>2. QED
  BY <1>1, LifeInvariant, PTL

-----------------------------------------------------------------------------
(* Types. *)

\* A walk has begun only for a slave with an attempt left, so the count of
\* its failures stays within its bound.
TypeInv == TypeOK /\ (recovery = "reconfigs" => ~GivenUp(at))

\* The part of it each step of the scan is about.
ScanType ==
    /\ al \in [Slaves -> ALStates]
    /\ state \in [Slaves -> (ALStates \ {"off", "blank"}) \cup {"none"}]
    /\ recovery \in {"off", "waits", "decides", "reconfigs", "checks", "recovers"}
    /\ at \in Slaves
    /\ events \in 0..MaxEvents

LEMMA EventCounts == ASSUME events \in 0..MaxEvents, Event PROVE events' \in 0..MaxEvents
BY EventsAssumption DEF Event

LEMMA ClimbsTypes == ASSUME ScanType, NEW s \in Slaves, Climbs(s)
                     PROVE  al' \in [Slaves -> ALStates] /\ events' \in 0..MaxEvents
BY EventCounts DEF Climbs, ScanType, ALStates

LEMMA DoneTypes == ASSUME ScanType, DoneWith(at)
                   PROVE  /\ state' \in [Slaves -> (ALStates \ {"off", "blank"}) \cup {"none"}]
                          /\ recovery' \in {"decides", "waits"}
                          /\ at' \in Slaves
BY SlavesAssumption DEF DoneWith, ScanType, Slaves

LEMMA DecidesTypes == ASSUME TypeInv, Decides PROVE RecoveryTypeOK' /\ (recovery' = "reconfigs" => ~GivenUp(at)')
<1>1. ScanType
  BY DEF TypeInv, TypeOK, RecoveryTypeOK, ScanType
<1>2. /\ UNCHANGED <<lossy, islost, fails, recoveryStop, needsRecovery, loop, misses, since, hwEstop>>
      /\ pending' \subseteq Slaves
  BY DEF Decides, loopVars, TypeInv, TypeOK, RecoveryTypeOK
<1>3. /\ ScanType'
      /\ armed' \subseteq Slaves /\ mbxLost' \subseteq Slaves
      /\ recovery' = "reconfigs" => ~GivenUp(at)'
  <2> USE DEF TypeInv, TypeOK, RecoveryTypeOK
  <2>1. CASE InOp(at) /\ DoneWith(at) /\ UNCHANGED <<al, mbxLost, armed, events>>
    BY <1>1, <2>1, DoneTypes DEF ScanType
  <2>2. CASE Acks(at)
    BY <1>1, <2>2, DoneTypes DEF ScanType, Acks, ALStates
  <2>3. CASE AsksForOp(at)
    BY <1>1, <2>3, DoneTypes, ClimbsTypes DEF ScanType, AsksForOp
  <2>4. CASE Disarms(at)
    <3>1. CASE GivenUp(at)
      BY <1>1, <2>4, <3>1, DoneTypes DEF ScanType, Disarms
    <3>2. CASE ~GivenUp(at)
      BY <1>1, <1>2, <2>4, <3>2 DEF ScanType, Disarms, GivenUp
    <3>3. QED
      BY <3>1, <3>2
  <2>5. CASE NoneRead(at)
    BY <1>1, <2>5 DEF ScanType, NoneRead
  <2>6. QED
    BY <2>1, <2>2, <2>3, <2>4, <2>5 DEF Decides
<1>4. QED
  BY <1>2, <1>3 DEF TypeInv, TypeOK, RecoveryTypeOK, ScanType

LEMMA ReconfiguresTypes == ASSUME TypeInv, Reconfigures
                           PROVE  RecoveryTypeOK' /\ recovery' # "reconfigs"
<1>1. ScanType
  BY DEF TypeInv, TypeOK, RecoveryTypeOK, ScanType
<1>2. /\ UNCHANGED <<lossy, mbxLost, pending, recoveryStop, needsRecovery, loop, misses, since, hwEstop>>
      /\ recovery = "reconfigs"
  BY DEF Reconfigures, loopVars
<1>3. /\ ScanType' /\ recovery' # "reconfigs"
      /\ armed' \subseteq Slaves /\ islost' \subseteq Slaves
      /\ fails' \in [Slaves -> 0..MaxFails]
  <2> USE DEF TypeInv, TypeOK, RecoveryTypeOK
  <2>1. CASE WalkSucceeds
    <3>1. ScanType' /\ recovery' # "reconfigs"
      BY <1>1, <2>1, DoneTypes, ClimbsTypes DEF ScanType, WalkSucceeds
    <3>2. QED
      BY <2>1, <3>1, SlavesAssumption DEF WalkSucceeds
  <2>2. CASE WalkFails
    <3>1. fails' \in [Slaves -> 0..MaxFails]
      BY <1>2, <2>2, SlavesAssumption DEF WalkFails, GivenUp
    <3>2. al' \in [Slaves -> ALStates] /\ events' = events
      BY <2>2 DEF WalkFails, ALStates
    <3>3. QED
      BY <1>1, <2>2, <3>1, <3>2, DoneTypes DEF ScanType, WalkFails
  <2>3. QED
    BY <2>1, <2>2 DEF Reconfigures
<1>4. QED
  BY <1>2, <1>3 DEF TypeInv, TypeOK, RecoveryTypeOK, ScanType

LEMMA ScanTypes == ASSUME TypeInv, RecoveryThread
                   PROVE  RecoveryTypeOK' /\ (recovery' = "reconfigs" => ~GivenUp(at)')
<1>1. ScanType
  BY DEF TypeInv, TypeOK, RecoveryTypeOK, ScanType
<1>2. CASE ScanBegins
  <2>1. state' \in [Slaves -> (ALStates \ {"off", "blank"}) \cup {"none"}]
    BY <1>1, <1>2 DEF ScanBegins, Replies, Answers, ScanType
  <2>2. QED
    BY <1>2, <2>1 DEF ScanBegins, slaveVars, loopVars, TypeInv, TypeOK, RecoveryTypeOK
<1>3. CASE Decides
  BY <1>3, DecidesTypes
<1>4. CASE Reconfigures
  BY <1>4, ReconfiguresTypes
<1>5. CASE Checks
  <2>1. ScanType' /\ recovery' # "reconfigs"
    BY <1>1, <1>5, DoneTypes DEF Checks, ScanType, slaveVars
  <2>2. QED
    BY <1>5, <2>1 DEF Checks, ScanType, loopVars, slaveVars, TypeInv, TypeOK, RecoveryTypeOK
<1>6. CASE Recovers
  <2>1. ScanType' /\ recovery' # "reconfigs"
    BY <1>1, <1>6, DoneTypes DEF Recovers, ScanType, ALStates
  <2>2. QED
    BY <1>6, <2>1, SlavesAssumption DEF Recovers, ScanType, loopVars, TypeInv, TypeOK, RecoveryTypeOK
<1>7. CASE ThreadEnds
  BY <1>7, SlavesAssumption DEF ThreadEnds, slaveVars, loopVars, TypeInv, TypeOK, RecoveryTypeOK, Slaves
<1>8. QED
  BY <1>2, <1>3, <1>4, <1>5, <1>6, <1>7 DEF RecoveryThread

LEMMA WorkerTypes == ASSUME TypeInv, LifeInv, InitWorker PROVE TypeInv'
<1> USE DEF TypeInv, TypeOK, RecoveryTypeOK, GivenUp
<1>1. CASE InitQuiesces
  BY <1>1 DEF InitQuiesces, Discards, recoveryVars, slaveVars, viewVars, threadVars, loopVars
<1>2. CASE Opens
  <2>1. al' \in [Slaves -> ALStates] /\ armed' \subseteq Slaves
    BY <1>2 DEF Opens, ALStates
  <2>2. QED
    BY <1>2, <2>1 DEF Opens, threadVars, loopVars, sdoVars
<1>3. CASE StartsThreads
  <2>1. fails' \in [Slaves -> 0..MaxFails] /\ pending' \subseteq Slaves
    BY <1>3, SlavesAssumption DEF StartsThreads
  <2>2. UNCHANGED <<slaveVars, state, islost, mbxLost, armed, at, loopVars, events, temps, master>>
    BY <1>3 DEF StartsThreads
  <2>3. /\ recovery' = "waits" /\ recoveryStop' = FALSE /\ needsRecovery' = FALSE
        /\ sdo' = "free" /\ sdoStop' = FALSE /\ stale' = FALSE /\ worker' = "idle"
    BY <1>3 DEF StartsThreads
  <2>4. QED
    BY <2>1, <2>2, <2>3 DEF slaveVars, loopVars
<1>4. CASE JoinsSdo
  BY <1>4 DEF JoinsSdo, recoveryVars, slaveVars, viewVars, threadVars, loopVars, sdoVars
<1>5. CASE JoinsLoop
  BY <1>5 DEF JoinsLoop, slaveVars, viewVars, loopVars, sdoVars
<1>6. CASE Closes
  <2>1. al' \in [Slaves -> ALStates]
    BY <1>6 DEF Closes, ALStates
  <2>2. QED
    BY <1>6, <2>1 DEF Closes, loopVars
<1>7. QED
  BY <1>1, <1>2, <1>3, <1>4, <1>5, <1>6 DEF InitWorker

LEMMA TypeInvariant == Spec => []TypeInv
<1>1. Init => TypeInv
  <2> SUFFICES ASSUME Init PROVE TypeInv
    OBVIOUS
  <2>1. /\ al \in [Slaves -> ALStates]
        /\ state \in [Slaves -> (ALStates \ {"off", "blank"}) \cup {"none"}]
    BY DEF Init, RecoveryInit, ALStates
  <2>2. fails \in [Slaves -> 0..MaxFails] /\ at \in Slaves
    BY SlavesAssumption DEF Init, RecoveryInit, Slaves
  <2>3. misses \in 0..Threshold /\ since \in 0..(Interval + 1) /\ events \in 0..MaxEvents
    BY CyclesAssumption, EventsAssumption DEF Init, RecoveryInit
  <2>4. QED
    BY <2>1, <2>2, <2>3 DEF Init, RecoveryInit, TypeInv, TypeOK, RecoveryTypeOK
<1>2. TypeInv /\ LifeInv /\ [Next]_vars => TypeInv'
  <2> SUFFICES ASSUME TypeInv, LifeInv, [Next]_vars PROVE TypeInv'
    OBVIOUS
  <2> USE DEF TypeInv, TypeOK, RecoveryTypeOK, GivenUp
  <2>1. CASE Disturbed /\ UNCHANGED <<sdoVars, lifeVars>>
    <3>1. events' \in 0..MaxEvents
      BY <2>1, EventCounts DEF Disturbed
    <3>2. al' \in [Slaves -> ALStates] /\ armed' \subseteq Slaves
      BY <2>1 DEF Disturbed, Falls, LosesPower, ReturnsBlank, ALStates
    <3>3. {lossy', hwEstop'} \subseteq BOOLEAN
      BY <2>1 DEF Disturbed
    <3>4. QED
      BY <2>1, <3>1, <3>2, <3>3 DEF Disturbed, threadVars, sdoVars, lifeVars
  <2>2. CASE Cycle /\ UNCHANGED <<sdoVars, lifeVars>>
    <3>1. misses' \in 0..Threshold
      BY <2>2, CyclesAssumption DEF Cycle, Missed
    <3>2. since' \in 0..(Interval + 1)
      BY <2>2, CyclesAssumption DEF Cycle
    <3>3. needsRecovery' \in BOOLEAN
      BY <2>2 DEF Cycle
    <3>4. QED
      BY <2>2, <3>1, <3>2, <3>3 DEF Cycle, slaveVars, viewVars, threadVars, sdoVars, lifeVars
  <2>3. CASE RecoveryThread /\ UNCHANGED <<sdoVars, lifeVars>>
    BY <2>3, ScanTypes DEF sdoVars, lifeVars
  <2>4. CASE SdoThread
    BY <2>4 DEF SdoThread, PicksTemp, StartsTransfer, TransferEnds, SdoEnds, recoveryVars,
       slaveVars, viewVars, threadVars, loopVars, lifeVars
  <2>5. CASE RequestInit \/ RequestDeinit
    BY <2>5, EventCounts DEF RequestInit, RequestDeinit, Requests, slaveVars, viewVars, threadVars, loopVars
  <2>6. CASE InitWorker
    BY <2>6, WorkerTypes
  <2>7. CASE StartLoop
    <3>1. events' \in 0..MaxEvents /\ misses' \in 0..Threshold /\ since' \in 0..(Interval + 1)
      BY <2>7, EventCounts, CyclesAssumption DEF StartLoop
    <3>2. QED
      BY <2>7, <3>1 DEF StartLoop, slaveVars, viewVars, threadVars, sdoVars, lifeVars
  <2>8. CASE StopLoop \/ JoinedLoopEnds
    <3>1. events' \in 0..MaxEvents
      BY <2>8, EventCounts DEF StopLoop, JoinedLoopEnds
    <3>2. misses' \in 0..Threshold /\ since' \in 0..(Interval + 1)
      BY <2>8, CyclesAssumption DEF StopLoop, JoinedLoopEnds, LoopEnds
    <3>3. LoopEnds
      BY <2>8 DEF StopLoop, JoinedLoopEnds
    <3>4. QED
      BY <3>1, <3>2, <3>3 DEF LoopEnds, slaveVars, viewVars, threadVars, sdoVars, lifeVars
  <2>9. CASE UNCHANGED vars
    BY <2>9 DEF vars, recoveryVars, slaveVars, viewVars, threadVars, loopVars, sdoVars, lifeVars
  <2>10. QED
    BY <2>1, <2>2, <2>3, <2>4, <2>5, <2>6, <2>7, <2>8, <2>9 DEF Next, Bus
<1>3. QED
  BY <1>1, <1>2, LifeInvariant, PTL DEF Spec

\* No variable of the recovery and of its companions leaves its type; the
\* failed attempts of a slave never exceed their cap.
THEOREM ThreadTyping == Spec => []TypeOK
<1>1. TypeInv => TypeOK
  BY DEF TypeInv
<1>2. QED
  BY <1>1, TypeInvariant, PTL

-----------------------------------------------------------------------------
(* The temperatures of an old chain. *)

\* What was read from a chain that is gone is dropped before the next opens.
TempsInv ==
    /\ "old" \in temps => master = "closed" /\ worker \in {"idle", "init"}
    /\ worker = "opens" => temps = {}

LEMMA TempsInvariant == Spec => []TempsInv
<1>1. Init => TempsInv
  BY DEF Init, TempsInv
<1>2. TempsInv /\ LifeInv /\ [Next]_vars => TempsInv'
  <2> SUFFICES ASSUME TempsInv, LifeInv, [Next]_vars PROVE TempsInv'
    OBVIOUS
  <2> USE DEF TempsInv
  <2>1. CASE Bus \/ StartLoop \/ StopLoop \/ JoinedLoopEnds \/ UNCHANGED vars
    BY <2>1 DEF Bus, StartLoop, StopLoop, JoinedLoopEnds, LoopEnds, vars, sdoVars, lifeVars
  <2>2. CASE SdoThread
    BY <2>2 DEF SdoThread, PicksTemp, StartsTransfer, TransferEnds, SdoEnds, LifeInv, lifeVars
  <2>3. CASE RequestInit \/ RequestDeinit
    BY <2>3 DEF RequestInit, RequestDeinit, Requests
  <2>4. CASE InitWorker
    BY <2>4 DEF InitWorker, InitQuiesces, Discards, Opens, StartsThreads, JoinsSdo, JoinsLoop,
       Closes, sdoVars, LifeInv
  <2>5. QED
    BY <2>1, <2>2, <2>3, <2>4 DEF Next
<1>3. QED
  BY <1>1, <1>2, LifeInvariant, PTL DEF Spec

\* Once an initialize is over no temperature of an older chain is shown, for
\* any number of slaves and whatever was under way when it began.
THEOREM OnlyFreshTemps == Spec => []FreshTemps
<1>1. TempsInv => FreshTemps
  BY DEF TempsInv, FreshTemps
<1>2. QED
  BY <1>1, TempsInvariant, PTL

-----------------------------------------------------------------------------
(* Who is given up. *)

\* The walk that uses the last attempt up began with SYNC0 disarmed.
GiveUpInv ==
    /\ GiveUpDisarms
    /\ recovery = "reconfigs" => at \notin armed

LEMMA ScanGivesUp == ASSUME TypeInv, GiveUpInv, RecoveryThread PROVE GiveUpInv'
<1> USE DEF GiveUpInv, GiveUpDisarms, GivenUp
<1>1. CASE ScanBegins
  BY <1>1 DEF ScanBegins
<1>2. CASE Decides
  BY <1>2 DEF Decides, Acks, AsksForOp, Disarms, NoneRead, DoneWith
<1>3. CASE Reconfigures
  <2>1. fails \in [Slaves -> 0..MaxFails] /\ at \in Slaves
    BY DEF TypeInv, TypeOK, RecoveryTypeOK
  <2>2. CASE WalkSucceeds
    BY <1>3, <2>1, <2>2, SlavesAssumption DEF Reconfigures, WalkSucceeds, DoneWith
  <2>3. CASE WalkFails
    BY <1>3, <2>1, <2>3 DEF Reconfigures, WalkFails, DoneWith
  <2>4. QED
    BY <1>3, <2>2, <2>3 DEF Reconfigures
<1>4. CASE Checks
  BY <1>4 DEF Checks, DoneWith
<1>5. CASE Recovers
  <2>1. fails \in [Slaves -> 0..MaxFails] /\ at \in Slaves
    BY DEF TypeInv, TypeOK, RecoveryTypeOK
  <2>2. QED
    BY <1>5, <2>1, SlavesAssumption DEF Recovers, DoneWith
<1>6. CASE ThreadEnds
  BY <1>6 DEF ThreadEnds
<1>7. QED
  BY <1>1, <1>2, <1>3, <1>4, <1>5, <1>6 DEF RecoveryThread

LEMMA GiveUpInvariant == Spec => []GiveUpInv
<1>1. Init => GiveUpInv
  BY DEF Init, RecoveryInit, GiveUpInv, GiveUpDisarms
<1>2. GiveUpInv /\ TypeInv /\ LifeInv /\ [Next]_vars => GiveUpInv'
  <2> SUFFICES ASSUME GiveUpInv, TypeInv, LifeInv, [Next]_vars PROVE GiveUpInv'
    OBVIOUS
  <2> USE DEF GiveUpInv, GiveUpDisarms, GivenUp
  <2>1. CASE Disturbed
    BY <2>1 DEF Disturbed, Falls, LosesPower, ReturnsBlank, threadVars
  <2>2. CASE Cycle \/ SdoThread \/ RequestInit \/ RequestDeinit \/ StartLoop \/ StopLoop
             \/ JoinedLoopEnds \/ UNCHANGED vars
    BY <2>2 DEF Cycle, SdoThread, RequestInit, RequestDeinit, Requests, StartLoop, StopLoop,
       JoinedLoopEnds, LoopEnds, vars, recoveryVars, viewVars, threadVars
  <2>3. CASE RecoveryThread
    BY <2>3, ScanGivesUp
  <2>4. CASE InitWorker
    <3>1. CASE InitQuiesces \/ JoinsSdo \/ JoinsLoop
      BY <2>4, <3>1 DEF InitQuiesces, JoinsSdo, JoinsLoop, recoveryVars, viewVars, threadVars
    <3>2. CASE Opens
      BY <3>2 DEF Opens, LifeInv, threadVars
    <3>3. CASE StartsThreads
      BY <3>3, SlavesAssumption DEF StartsThreads
    <3>4. CASE Closes
      BY <3>4 DEF Closes
    <3>5. QED
      BY <2>4, <3>1, <3>2, <3>3, <3>4 DEF InitWorker
  <2>5. QED
    BY <2>1, <2>2, <2>3, <2>4 DEF Next, Bus
<1>3. QED
  BY <1>1, <1>2, TypeInvariant, LifeInvariant, PTL DEF Spec

\* A slave given up is left with its SYNC0 off, for any cap on the attempts.
THEOREM GivenUpAreDisarmed == Spec => []GiveUpDisarms
<1>1. GiveUpInv => GiveUpDisarms
  BY DEF GiveUpInv
<1>2. QED
  BY <1>1, GiveUpInvariant, PTL

-----------------------------------------------------------------------------
(* Who is healthy. *)

\* Only the scan itself and an initialize, which has joined the scan, take a
\* slave to OP: whatever else was read of a slave ahead, it is in no OP now.
AheadInv ==
    /\ \A s \in Slaves : state[s] \in {"init", "preop", "safeop", "safeerr"} => al[s] # "op"
    /\ recovery = "off" => \A s \in Slaves : state[s] = "none"
    /\ recovery = "reconfigs" => state[at] \in {"init", "preop"}

LEMMA DecidesAhead == ASSUME TypeInv, AheadInv, Decides
                      PROVE  AheadInv' /\ \A s \in Slaves : al[s] = "op" => al'[s] = "op"
<1> USE DEF AheadInv
<1>1. /\ al \in [Slaves -> ALStates] /\ at \in Slaves
      /\ state \in [Slaves -> (ALStates \ {"off", "blank"}) \cup {"none"}]
  BY DEF TypeInv, TypeOK, RecoveryTypeOK
<1>2. recovery = "decides"
  BY DEF Decides
<1>3. CASE InOp(at) /\ DoneWith(at) /\ UNCHANGED <<al, mbxLost, armed, events>>
  BY <1>1, <1>3 DEF DoneWith
<1>4. CASE Acks(at)
  BY <1>1, <1>4 DEF Acks, DoneWith
<1>5. CASE AsksForOp(at)
  BY <1>1, <1>5 DEF AsksForOp, Climbs, DoneWith
<1>6. CASE ~InOp(at) /\ Disarms(at)
  BY <1>1, <1>2, <1>6 DEF Disarms, InOp, DoneWith, ALStates
<1>7. CASE NoneRead(at)
  BY <1>1, <1>7 DEF NoneRead
<1>8. QED
  BY <1>3, <1>4, <1>5, <1>6, <1>7 DEF Decides

LEMMA ScanAhead == ASSUME TypeInv, AheadInv, RecoveryThread
                   PROVE  AheadInv' /\ \A s \in Slaves : al[s] = "op" => al'[s] = "op"
<1> USE DEF AheadInv
<1>1. /\ al \in [Slaves -> ALStates] /\ at \in Slaves
      /\ state \in [Slaves -> (ALStates \ {"off", "blank"}) \cup {"none"}]
  BY DEF TypeInv, TypeOK, RecoveryTypeOK
<1>2. CASE ScanBegins
  <2>1. /\ UNCHANGED al
        /\ \A s \in Slaves : state'[s] \in {al[s], "none"}
        /\ recovery' = "decides"
    BY <1>2 DEF ScanBegins, Replies, slaveVars
  <2>2. QED
    BY <2>1
<1>3. CASE Decides
  BY <1>3, DecidesAhead
<1>4. CASE Reconfigures
  <2>1. al[at] # "op"
    BY <1>1, <1>4 DEF Reconfigures
  <2>2. CASE WalkSucceeds
    BY <1>1, <2>1, <2>2 DEF WalkSucceeds, Climbs, DoneWith
  <2>3. CASE WalkFails
    BY <1>1, <1>4, <2>1, <2>3 DEF WalkFails, Reconfigures, DoneWith
  <2>4. QED
    BY <1>4, <2>2, <2>3 DEF Reconfigures
<1>5. CASE Checks
  BY <1>1, <1>5 DEF Checks, DoneWith, slaveVars
<1>6. CASE Recovers
  BY <1>1, <1>6 DEF Recovers, DoneWith
<1>7. CASE ThreadEnds
  BY <1>1, <1>7 DEF ThreadEnds, slaveVars
<1>8. QED
  BY <1>2, <1>3, <1>4, <1>5, <1>6, <1>7 DEF RecoveryThread

LEMMA AheadInvariant == Spec => []AheadInv
<1>1. Init => AheadInv
  BY DEF Init, RecoveryInit, AheadInv
<1>2. AheadInv /\ TypeInv /\ LifeInv /\ [Next]_vars => AheadInv'
  <2> SUFFICES ASSUME AheadInv, TypeInv, LifeInv, [Next]_vars PROVE AheadInv'
    OBVIOUS
  <2>0. al \in [Slaves -> ALStates]
    BY DEF TypeInv, TypeOK, RecoveryTypeOK
  <2> USE DEF AheadInv
  <2>1. CASE Disturbed
    BY <2>0, <2>1 DEF Disturbed, Falls, LosesPower, ReturnsBlank, threadVars
  <2>2. CASE Cycle \/ SdoThread \/ RequestInit \/ RequestDeinit \/ StartLoop \/ StopLoop
             \/ JoinedLoopEnds \/ UNCHANGED vars
    BY <2>2 DEF Cycle, SdoThread, RequestInit, RequestDeinit, Requests, StartLoop, StopLoop,
       JoinedLoopEnds, LoopEnds, vars, recoveryVars, slaveVars, viewVars, threadVars
  <2>3. CASE RecoveryThread
    BY <2>3, ScanAhead
  <2>4. CASE InitWorker
    <3>1. CASE InitQuiesces \/ JoinsSdo \/ JoinsLoop
      BY <3>1 DEF InitQuiesces, JoinsSdo, JoinsLoop, recoveryVars, slaveVars, viewVars, threadVars
    <3>2. CASE Opens
      BY <3>2 DEF Opens, LifeInv, threadVars
    <3>3. CASE StartsThreads
      BY <3>3 DEF StartsThreads, slaveVars
    <3>4. CASE Closes
      BY <3>4 DEF Closes, RecoveryIsJoined
    <3>5. QED
      BY <2>4, <3>1, <3>2, <3>3, <3>4 DEF InitWorker
  <2>5. QED
    BY <2>1, <2>2, <2>3, <2>4 DEF Next, Bus
<1>3. QED
  BY <1>1, <1>2, TypeInvariant, LifeInvariant, PTL DEF Spec

\* No step of the scan takes a slave out of OP, however old the states it
\* read are.
THEOREM HealthyAreKept == Spec => HealthyKept
<1>1. TypeInv /\ AheadInv /\ [Next]_vars =>
          [RecoveryThread => \A s \in Slaves : al[s] = "op" => al'[s] = "op"]_recoveryVars
  BY ScanAhead
<1>2. QED
  BY <1>1, TypeInvariant, AheadInvariant, PTL DEF Spec, HealthyKept

-----------------------------------------------------------------------------
(* How long a join waits. *)

JoinInv ==
    /\ worker \in {"init", "deinit"} /\ sdo # "off" => sdoStop
    /\ worker = "joinsRecovery" /\ recovery # "off" => recoveryStop

LEMMA JoinInvariant == Spec => []JoinInv
<1>1. Init => JoinInv
  BY DEF Init, JoinInv
<1>2. JoinInv /\ [Next]_vars => JoinInv'
  <2> SUFFICES ASSUME JoinInv, [Next]_vars PROVE JoinInv'
    OBVIOUS
  <2> USE DEF JoinInv
  <2>1. CASE (Disturbed \/ Cycle) /\ UNCHANGED <<sdoVars, lifeVars>>
    BY <2>1 DEF Disturbed, Cycle, threadVars, sdoVars, lifeVars
  <2>2. CASE RecoveryThread /\ UNCHANGED <<sdoVars, lifeVars>>
    <3>1. recovery # "off" /\ UNCHANGED recoveryStop
      BY <2>2 DEF RecoveryThread, ScanBegins, Decides, Reconfigures, Checks, Recovers, ThreadEnds
    <3>2. QED BY <2>2, <3>1 DEF sdoVars, lifeVars
  <2>3. CASE SdoThread
    <3>1. UNCHANGED <<sdoStop, recovery, recoveryStop, worker>>
      BY <2>3 DEF SdoThread, PicksTemp, StartsTransfer, TransferEnds, SdoEnds, recoveryVars,
         threadVars, lifeVars
    <3>2. sdo # "off"
      BY <2>3 DEF SdoThread, PicksTemp, StartsTransfer, TransferEnds, SdoEnds
    <3>3. QED BY <3>1, <3>2
  <2>4. CASE RequestInit \/ RequestDeinit
    BY <2>4 DEF RequestInit, RequestDeinit, Requests, threadVars
  <2>5. CASE InitWorker
    BY <2>5 DEF InitWorker, InitQuiesces, Opens, StartsThreads, JoinsSdo, JoinsLoop, Closes,
       recoveryVars, threadVars, sdoVars
  <2>6. CASE StartLoop \/ StopLoop \/ JoinedLoopEnds \/ UNCHANGED vars
    BY <2>6 DEF StartLoop, StopLoop, JoinedLoopEnds, LoopEnds, vars, recoveryVars, threadVars,
       sdoVars, lifeVars
  <2>7. QED
    BY <2>1, <2>2, <2>3, <2>4, <2>5, <2>6 DEF Next, Bus
<1>3. QED
  BY <1>1, <1>2, PTL DEF Spec

\* Told to stop, the SDO worker begins no transfer ...
LEMMA SdoLeaves == ASSUME LifeInv, SdoThread, sdoStop PROVE SdoLeft' < SdoLeft
<1>1. ~PicksTemp
  BY DEF PicksTemp
<1>2. \/ sdo = "gated" /\ sdo' \in {"reads", "free"}
      \/ sdo = "reads" /\ sdo' = "free"
      \/ sdo = "free" /\ sdo' = "off"
  BY <1>1 DEF SdoThread, StartsTransfer, TransferEnds, SdoEnds
<1>3. QED
  BY <1>2 DEF SdoLeft

\* ... and the recovery thread neither a scan nor another slave of one.
LEMMA ScanLeaves == ASSUME TypeInv, RecoveryThread, recoveryStop PROVE ScanLeft' < ScanLeft
<1> USE DEF ScanLeft
<1>1. CASE ScanBegins \/ Decides
  BY <1>1 DEF ScanBegins, Decides
<1>2. CASE Reconfigures
  <2>1. recovery = "reconfigs" /\ recovery' \in {"decides", "waits", "recovers"}
    BY <1>2 DEF Reconfigures, WalkSucceeds, WalkFails, DoneWith
  <2>2. QED BY <2>1
<1>3. CASE Checks
  <2>1. recovery = "checks" /\ recovery' \in {"decides", "waits", "recovers"}
    BY <1>3 DEF Checks, DoneWith
  <2>2. QED BY <2>1
<1>4. CASE Recovers
  <2>1. recovery = "recovers" /\ recovery' \in {"decides", "waits"}
    BY <1>4 DEF Recovers, DoneWith
  <2>2. QED BY <2>1
<1>5. CASE ThreadEnds
  BY <1>5 DEF ThreadEnds
<1>6. QED
  BY <1>1, <1>2, <1>3, <1>4, <1>5 DEF RecoveryThread

\* Nobody but StartsThreads moves the two from outside.
LEMMA OthersLeaveThem ==
    ASSUME LifeInv, [Next]_vars, worker # "starts"
    PROVE  (~SdoThread => sdo' = sdo) /\ (~RecoveryThread => recovery' = recovery)
<1>1. CASE (Disturbed \/ Cycle) /\ UNCHANGED <<sdoVars, lifeVars>>
  BY <1>1 DEF Disturbed, Cycle, threadVars, sdoVars
<1>2. CASE RecoveryThread /\ UNCHANGED <<sdoVars, lifeVars>>
  BY <1>2 DEF sdoVars
<1>3. CASE SdoThread
  BY <1>3 DEF SdoThread, recoveryVars, threadVars
<1>4. CASE RequestInit \/ RequestDeinit
  BY <1>4 DEF RequestInit, RequestDeinit, Requests, threadVars
<1>5. CASE InitWorker
  BY <1>5 DEF InitWorker, InitQuiesces, Opens, StartsThreads, JoinsSdo, JoinsLoop, Closes,
     recoveryVars, threadVars, sdoVars
<1>6. CASE StartLoop \/ StopLoop \/ JoinedLoopEnds \/ UNCHANGED vars
  BY <1>6 DEF StartLoop, StopLoop, JoinedLoopEnds, LoopEnds, vars, recoveryVars, threadVars, sdoVars
<1>7. QED
  BY <1>1, <1>2, <1>3, <1>4, <1>5, <1>6 DEF Next, Bus

\* A thread that is joined is off after three of its steps at most, for any
\* number of slaves and wherever the scan is.
THEOREM JoinsEnd == Spec => JoinsAreShort
<1>1. JoinInv => (worker \in {"init", "deinit"} /\ sdo # "off" => sdoStop)
  BY DEF JoinInv
<1>2. JoinInv => (worker = "joinsRecovery" /\ recovery # "off" => recoveryStop)
  BY DEF JoinInv
<1>3. LifeInv /\ [Next]_vars
        => [sdoStop /\ worker # "starts" =>
             IF SdoThread THEN SdoLeft' < SdoLeft ELSE SdoLeft' = SdoLeft]_vars
  BY SdoLeaves, OthersLeaveThem DEF SdoLeft
<1>4. LifeInv /\ TypeInv /\ [Next]_vars
        => [recoveryStop /\ worker # "starts" =>
             IF RecoveryThread THEN ScanLeft' < ScanLeft ELSE ScanLeft' = ScanLeft]_vars
  BY ScanLeaves, OthersLeaveThem DEF ScanLeft
<1>5. QED
  BY <1>1, <1>2, <1>3, <1>4, TypeInvariant, LifeInvariant, JoinInvariant, PTL DEF Spec, JoinsAreShort
=============================================================================
