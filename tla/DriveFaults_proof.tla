-------------------------- MODULE DriveFaults_proof --------------------------
(***************************************************************************)
(* Proofs about DriveFaults, for any number of drives, retries and cycles  *)
(* and any number of events.                                               *)
(***************************************************************************)
EXTENDS DriveFaults, TLAPS

-----------------------------------------------------------------------------
(* The values the turns compute. *)

LEMMA SetsType == ASSUME NEW S, NEW f \in [Drives -> S], NEW i \in Drives, NEW v \in S
                  PROVE  Sets(f, i, v) \in [Drives -> S]
BY DEF Sets

LEMMA TicksType == ASSUME NEW bound \in Nat \ {0}, NEW age \in 0..bound
                   PROVE  Ticks(age, bound) \in 0..bound
BY DEF Ticks, Min2

LEMMA NextCallType == ASSUME NEW n \in 0..ResetCycles PROVE NextCall(n) \in 0..ResetCycles
BY BoundsAssumption DEF NextCall

LEMMA ResetCmdType == ASSUME NEW n, NEW c \in Commands PROVE ResetCmd(n, c) \in Commands
BY DEF ResetCmd, Commands

LEMMA EnableCmdType == ASSUME NEW s, NEW n, NEW c \in Commands PROVE EnableCmd(s, n, c) \in Commands
BY DEF EnableCmd, Commands

LEMMA EnableSyncType == ASSUME NEW s, NEW n \in 0..SyncCycles PROVE EnableSync(s, n) \in 0..SyncCycles
BY BoundsAssumption DEF EnableSync, Min2

LEMMA ObeysType == ASSUME NEW s \in Statuses, NEW c PROVE Obeys(s, c) \in Statuses
BY DEF Obeys, Statuses, Faults

LEMMA ReportsType == ASSUME TypeOK, NEW i \in Drives PROVE Reports(i) \subseteq Statuses
<1>1. status[i] \in Statuses
  BY DEF TypeOK
<1>2. Answers(i) \subseteq Statuses
  BY <1>1, ObeysType DEF Answers
<1>3. Befalls(status[i]) \subseteq Statuses
  BY <1>1 DEF Befalls, Statuses, Faults
<1>4. QED
  BY <1>2, <1>3 DEF Reports

\* A homing's step leaves what may be left.
LEMMA HomingTypes == ASSUME TypeOK, NEW i \in Drives, NEW s
                     PROVE  /\ CallsAfterHoming(i, s) \in 0..ResetCycles
                            /\ CmdAfterHoming(i, s) \in Commands
                            /\ SyncAfterHoming(i, s) \in 0..SyncCycles
<1>1. resetCalls[i] \in 0..ResetCycles /\ cmd[i] \in Commands /\ syncCount[i] \in 0..SyncCycles
  BY DEF TypeOK
<1>2. CallsAfterHoming(i, s) \in 0..ResetCycles
  BY <1>1, NextCallType DEF CallsAfterHoming
<1>3. CmdAfterHoming(i, s) \in Commands
  BY <1>1, ResetCmdType, EnableCmdType DEF CmdAfterHoming
<1>4. SyncAfterHoming(i, s) \in 0..SyncCycles
  BY <1>1, EnableSyncType DEF SyncAfterHoming
<1>5. QED
  BY <1>2, <1>3, <1>4

-----------------------------------------------------------------------------
(* Types. *)

LEMMA EventCounts == ASSUME events \in 0..MaxEvents, Event PROVE events' \in 0..MaxEvents
BY BoundsAssumption DEF Event

LEMMA ReadsTypes == ASSUME TypeOK, NEW i \in Drives, NEW s \in Statuses, NEW h, Reads(i, s, h)
                    PROVE  /\ turn' \in 0..NumDrives
                           /\ status' \in [Drives -> Statuses]
                           /\ upFor' \in [Drives -> 0..StableCycles + 1]
                           /\ events' \in 0..MaxEvents
<1>1. turn' \in 0..NumDrives
  <2>1. CASE i = NumDrives
    <3>1. (NumDrives + 1) % (NumDrives + 1) = 0
      BY BoundsAssumption
    <3>2. QED
      BY <2>1, <3>1, BoundsAssumption DEF Reads
  <2>2. CASE i < NumDrives
    <3>1. (i + 1) % (NumDrives + 1) = i + 1
      BY <2>2, BoundsAssumption DEF Drives
    <3>2. QED
      BY <2>2, <3>1, BoundsAssumption DEF Reads, Drives
  <2>3. QED
    BY <2>1, <2>2, BoundsAssumption DEF Drives
<1>2. status' \in [Drives -> Statuses]
  BY DEF Reads, TypeOK
<1>3. upFor' \in [Drives -> 0..StableCycles + 1]
  BY BoundsAssumption DEF Reads, TypeOK, Min2
<1>4. events' \in 0..MaxEvents
  BY EventCounts DEF Reads, TypeOK
<1>5. QED
  BY <1>1, <1>2, <1>3, <1>4

LEMMA ClockTypes == ASSUME TypeOK, NEW i \in Drives
                    PROVE  /\ HealthyTicks(i) \in 0..HealthyCycles + 2
                           /\ StableTicks(i) \in 0..StableCycles + 1
<1>1. healthyFor[i] \in 0..HealthyCycles + 2 /\ stableFor[i] \in 0..StableCycles + 1
  BY DEF TypeOK
<1>2. HealthyCycles + 2 \in Nat \ {0} /\ StableCycles + 1 \in Nat \ {0}
  BY BoundsAssumption
<1>3. QED
  BY <1>1, <1>2, TicksType DEF HealthyTicks, StableTicks

\* The parts of the type that most turns set alike.
ClocksType ==
    /\ healthyFor \in [Drives -> 0..HealthyCycles + 2]
    /\ stableFor \in [Drives -> 0..StableCycles + 1]
SeedsType == seeded \in [Drives -> BOOLEAN] /\ dropped \in [Drives -> BOOLEAN]
BasedType == based \in [Drives -> BOOLEAN]
ReadType ==
    /\ turn \in 0..NumDrives
    /\ status \in [Drives -> Statuses]
    /\ upFor \in [Drives -> 0..StableCycles + 1]
    /\ events \in 0..MaxEvents
MonitorType ==
    /\ faultSeen \in [Drives -> BOOLEAN]
    /\ retries \in [Drives -> 0..MaxRetries]
    /\ locked \in [Drives -> BOOLEAN]
    /\ resetActive \in [Drives -> BOOLEAN]
DriveType ==
    /\ cmd \in [Drives -> Commands]
    /\ resetCalls \in [Drives -> 0..ResetCycles]
    /\ syncCount \in [Drives -> 0..SyncCycles]
LoopType ==
    /\ homing \in [Drives -> {"no", "enabling", "moving"}]
    /\ needsRehome \in BOOLEAN /\ held \in BOOLEAN /\ estop \in BOOLEAN
    /\ clearAsked \in SUBSET Drives

LEMMA TicksTypes == ASSUME TypeOK, NEW i \in Drives, ClocksTick(i) PROVE ClocksType'
BY ClockTypes, SetsType DEF ClocksTick, ClocksType, TypeOK

LEMMA SeedsTypes == ASSUME TypeOK, NEW i \in Drives, NEW s, NEW b \in BOOLEAN, Seeds(i, s, b)
                    PROVE  SeedsType'
BY DEF Seeds, Sets, SeedsType, TypeOK

LEMMA RebasedTypes == ASSUME TypeOK, NEW i \in Drives, NEW s, Rebased(i, s) PROVE BasedType'
BY DEF Rebased, Sets, BasedType, StillBased, HomingSeeds, TypeOK

LEMMA AskedTypes == ASSUME TypeOK, NEW i \in Drives, NEW s \in Statuses, NEW h, Asked(i, s, h)
                    PROVE  /\ ReadType'
                           /\ held' \in BOOLEAN /\ estop' \in BOOLEAN /\ clearAsked' \in SUBSET Drives
BY ReadsTypes DEF Asked, ReadType, TypeOK

LEMMA HomingOnlyTypes == ASSUME TypeOK, NEW i \in Drives, NEW s,
                                NEW h \in {"no", "enabling", "moving"}, HomingOnly(i, s, h)
                         PROVE  /\ homing' \in [Drives -> {"no", "enabling", "moving"}]
                                /\ syncCount' \in [Drives -> 0..SyncCycles]
BY HomingTypes, SetsType DEF HomingOnly, TypeOK

LEMMA AskedOfMonitor == ASSUME TypeOK, NEW i \in Drives
                        PROVE  /\ Seen(i) \in BOOLEAN /\ Locked(i) \in BOOLEAN /\ Active(i) \in BOOLEAN
                               /\ Tries(i) \in 0..MaxRetries
BY BoundsAssumption DEF Seen, Locked, Active, Tries, TypeOK

LEMMA FaultedTypes == ASSUME TypeOK, NEW i \in Drives, NEW s \in Statuses,
                             NEW h \in {"no", "enabling", "moving"}, Faulted(i, s, h)
                      PROVE  /\ ReadType' /\ ClocksType' /\ SeedsType' /\ BasedType' /\ LoopType'
                             /\ faultSeen' \in [Drives -> BOOLEAN]
                             /\ syncCount' \in [Drives -> 0..SyncCycles]
<1>1. seeded[i] \in BOOLEAN
  BY DEF TypeOK
<1>2. ReadType' /\ ClocksType' /\ SeedsType' /\ BasedType'
  BY <1>1, AskedTypes, TicksTypes, SeedsTypes, RebasedTypes DEF Faulted
<1>3. LoopType' /\ syncCount' \in [Drives -> 0..SyncCycles]
  BY AskedTypes, HomingOnlyTypes DEF Faulted, LoopType, TypeOK
<1>4. faultSeen' \in [Drives -> BOOLEAN]
  BY SetsType DEF Faulted, TypeOK
<1>5. QED
  BY <1>2, <1>3, <1>4

LEMMA FaultFreeTypes == ASSUME TypeOK, NEW i \in Drives, NEW s \in Statuses, NEW h, FaultFree(i, s, h)
                        PROVE  /\ ReadType' /\ ClocksType' /\ MonitorType'
                               /\ held' \in BOOLEAN /\ estop' \in BOOLEAN
                               /\ clearAsked' \in SUBSET Drives
                               /\ resetCalls' \in [Drives -> 0..ResetCycles]
<1>1. StableNow(i, s) \in 0..StableCycles + 1
  BY ClockTypes, BoundsAssumption DEF StableNow
<1>2. HealthyNow(i, s) \in 0..HealthyCycles + 2
  BY ClockTypes, BoundsAssumption DEF HealthyNow
<1>3. TriesNow(i, s) \in 0..MaxRetries
  BY AskedOfMonitor, BoundsAssumption DEF TriesNow
<1>4. ClocksType'
  BY <1>1, <1>2, SetsType DEF FaultFree, ClocksType, TypeOK
<1>5. MonitorType'
  BY <1>3, SetsType DEF FaultFree, MonitorType, TypeOK
<1>6. QED
  BY <1>4, <1>5, AskedTypes DEF FaultFree, TypeOK

LEMMA TurnTypes == ASSUME TypeOK, NEW i \in Drives, Turn(i) PROVE TypeOK'
<1>1. PICK s \in Statuses :
          \/ EstopTurn(i, s)
          \/ EnableTurn(i, s)
          \/ \E h \in {"no", "enabling", "moving"} :
                \/ LockedTurn(i, s, h) \/ ReactionTurn(i, s, h)
                \/ LockoutTurn(i, s, h) \/ ResetTurn(i, s, h)
                \/ RehomeTurn(i, s, h) \/ HomingTurn(i, s, h)
  BY ReportsType DEF Turn
<1>2. seeded[i] \in BOOLEAN /\ {"zero", "quickStop"} \subseteq Commands
  BY DEF TypeOK, Commands
<1>3. CASE EstopTurn(i, s)
  <2>1. ReadType' /\ ClocksType' /\ SeedsType' /\ LoopType' /\ MonitorType'
    BY <1>3, ReadsTypes, TicksTypes, SeedsTypes
       DEF EstopTurn, ReadType, LoopType, MonitorType, TypeOK, loopVars
  <2>2. BasedType'
    BY <1>3 DEF EstopTurn, BasedType, Sets, StillBased, TypeOK
  <2>3. DriveType'
    BY <1>2, <1>3, SetsType DEF EstopTurn, DriveType, TypeOK
  <2>4. QED
    BY <2>1, <2>2, <2>3
       DEF TypeOK, ReadType, ClocksType, SeedsType, BasedType,
       MonitorType, DriveType, LoopType
<1>4. CASE EnableTurn(i, s)
  <2>1. FaultFree(i, s, "no")
    BY <1>4 DEF EnableTurn
  <2>2. SeedsType'
    BY <1>2, <1>4, SeedsTypes DEF EnableTurn
  <2>3. BasedType'
    BY <1>4 DEF EnableTurn, BasedType, Sets, StillBased, HomingSeeds, TypeOK
  <2>4. DriveType'
    BY <1>4, <2>1, FaultFreeTypes, HomingTypes, EnableCmdType, EnableSyncType, SetsType
       DEF EnableTurn, DriveType, TypeOK
  <2>5. LoopType'
    BY <1>4, <2>1, FaultFreeTypes, SetsType DEF EnableTurn, LoopType, TypeOK
  <2>6. QED
    BY <2>1, <2>2, <2>3, <2>4, <2>5, FaultFreeTypes
       DEF TypeOK, ReadType, ClocksType, SeedsType, BasedType,
       MonitorType, DriveType, LoopType
<1>5. ASSUME NEW h \in {"no", "enabling", "moving"}, LockedTurn(i, s, h) PROVE TypeOK'
  <2>1. ReadType' /\ ClocksType' /\ SeedsType' /\ BasedType'
    BY <1>2, <1>5, AskedTypes, TicksTypes, SeedsTypes, RebasedTypes DEF LockedTurn
  <2>2. MonitorType' /\ LoopType'
    BY <1>5, AskedTypes, HomingOnlyTypes DEF LockedTurn, MonitorType, LoopType, TypeOK
  <2>3. DriveType'
    BY <1>2, <1>5, HomingTypes, HomingOnlyTypes, SetsType DEF LockedTurn, DriveType, TypeOK
  <2>4. QED
    BY <2>1, <2>2, <2>3
       DEF TypeOK, ReadType, ClocksType, SeedsType, BasedType,
       MonitorType, DriveType, LoopType
<1>6. ASSUME NEW h \in {"no", "enabling", "moving"},
             ReactionTurn(i, s, h) \/ LockoutTurn(i, s, h) \/ ResetTurn(i, s, h)
      PROVE  TypeOK'
  <2>1. Faulted(i, s, h)
    BY <1>6 DEF ReactionTurn, LockoutTurn, ResetTurn
  <2>2. MonitorType'
    <3>1. retries' \in [Drives -> 0..MaxRetries]
      <4>1. retries \in [Drives -> 0..MaxRetries]
        BY DEF TypeOK
      <4>2. PICK n \in 0..MaxRetries : retries' = Sets(retries, i, n)
        <5>1. CASE ReactionTurn(i, s, h)
          BY <5>1, AskedOfMonitor DEF ReactionTurn
        <5>2. CASE LockoutTurn(i, s, h)
          BY <5>2, AskedOfMonitor DEF LockoutTurn
        <5>3. CASE ResetTurn(i, s, h)
          <6>1. (IF Seen(i) /\ Active(i) THEN Tries(i) ELSE Tries(i) + 1) \in 0..MaxRetries
            BY <5>3, AskedOfMonitor, BoundsAssumption DEF ResetTurn
          <6>2. QED
            BY <5>3, <6>1 DEF ResetTurn
        <5>4. QED
          BY <1>6, <5>1, <5>2, <5>3
      <4>3. QED
        BY <4>1, <4>2, SetsType
    <3>2. locked' \in [Drives -> BOOLEAN]
      BY <1>6 DEF ReactionTurn, LockoutTurn, ResetTurn, Sets, TypeOK
    <3>4. resetActive' \in [Drives -> BOOLEAN]
      BY <1>6 DEF ReactionTurn, LockoutTurn, ResetTurn, Sets, TypeOK
    <3>3. QED
      BY <2>1, <3>1, <3>2, <3>4, FaultedTypes DEF MonitorType
  <2>3. DriveType'
    <3>1. CASE ReactionTurn(i, s, h)
      BY <2>1, <3>1, FaultedTypes, HomingTypes, SetsType DEF ReactionTurn, DriveType, TypeOK
    <3>2. CASE LockoutTurn(i, s, h)
      BY <1>2, <2>1, <3>2, FaultedTypes, HomingTypes, SetsType DEF LockoutTurn, DriveType, TypeOK
    <3>3. CASE ResetTurn(i, s, h)
      BY <2>1, <3>3, FaultedTypes, HomingTypes, NextCallType, ResetCmdType, SetsType
         DEF ResetTurn, DriveType, TypeOK
    <3>4. QED
      BY <1>6, <3>1, <3>2, <3>3
  <2>4. QED
    BY <2>1, <2>2, <2>3, FaultedTypes
       DEF TypeOK, ReadType, ClocksType, SeedsType, BasedType,
       MonitorType, DriveType, LoopType
<1>7. ASSUME NEW h \in {"no", "enabling", "moving"}, RehomeTurn(i, s, h) \/ HomingTurn(i, s, h)
      PROVE  TypeOK'
  <2>1. FaultFree(i, s, h)
    BY <1>7 DEF RehomeTurn, HomingTurn
  <2>2. SeedsType' /\ BasedType'
    BY <1>7, SeedsTypes, RebasedTypes DEF RehomeTurn, HomingTurn
  <2>3. homing' \in [Drives -> {"no", "enabling", "moving"}] /\ needsRehome' \in BOOLEAN
    <3>1. CASE RehomeTurn(i, s, h)
      BY <3>1 DEF RehomeTurn, HomeAll, All, TypeOK
    <3>2. CASE HomingTurn(i, s, h)
      BY <3>2 DEF HomingTurn, HomingOnly, Sets, TypeOK
    <3>3. QED
      BY <1>7, <3>1, <3>2
  <2>4. cmd' \in [Drives -> Commands] /\ syncCount' \in [Drives -> 0..SyncCycles]
    <3>1. /\ cmd' = Sets(cmd, i, CmdAfterHoming(i, s))
          /\ syncCount' = Sets(syncCount, i, SyncAfterHoming(i, s))
      BY <1>7 DEF RehomeTurn, HomingTurn, HomingOnly
    <3>2. cmd \in [Drives -> Commands] /\ syncCount \in [Drives -> 0..SyncCycles]
      BY DEF TypeOK
    <3>3. QED
      BY <3>1, <3>2, HomingTypes, SetsType
  <2>5. QED
    BY <2>1, <2>2, <2>3, <2>4, FaultFreeTypes DEF TypeOK, ReadType, ClocksType, SeedsType, BasedType,
       MonitorType, DriveType, LoopType
<1>8. QED
  BY <1>1, <1>3, <1>4, <1>5, <1>6, <1>7

LEMMA RestartTypes == ASSUME TypeOK, StartsAgain \/ InitializesAgain PROVE TypeOK'
<1>1. Restarts
  BY DEF StartsAgain, InitializesAgain
<1>2. 0 \in 0..MaxRetries /\ 0 \in 0..HealthyCycles + 2 /\ 0 \in 0..StableCycles + 1
      /\ 0 \in 0..ResetCycles /\ 0 \in 0..SyncCycles
  BY BoundsAssumption
<1>3. ClocksType' /\ MonitorType'
  BY <1>1, <1>2 DEF Restarts, ResetMonitor, All, ClocksType, MonitorType
<1>4. SeedsType'
  BY <1>1 DEF Restarts, All, SeedsType
<1>5. ReadType' /\ BasedType'
  <2>1. events' \in 0..MaxEvents
    BY EventCounts DEF StartsAgain, InitializesAgain, TypeOK
  <2>2. status' \in [Drives -> Statuses] /\ based' \in [Drives -> BOOLEAN]
    BY DEF StartsAgain, InitializesAgain, All, Statuses, TypeOK
  <2>3. upFor' = All(0) /\ turn' = turn
    BY <1>1 DEF Restarts
  <2>4. QED
    BY <1>2, <2>1, <2>2, <2>3 DEF ReadType, BasedType, All, TypeOK
<1>6. DriveType'
  BY <1>2 DEF StartsAgain, InitializesAgain, All, DriveType, Commands, TypeOK
<1>7. LoopType'
  BY <1>1 DEF StartsAgain, InitializesAgain, Restarts, All, LoopType, TypeOK
<1>8. QED
  BY <1>3, <1>4, <1>5, <1>6, <1>7
       DEF TypeOK, ReadType, ClocksType, SeedsType, BasedType,
       MonitorType, DriveType, LoopType

LEMMA TypeInvariant == Spec => []TypeOK
<1>1. Init => TypeOK
  <2> SUFFICES ASSUME Init PROVE TypeOK
    OBVIOUS
  <2>1. 0 \in 0..MaxRetries /\ 0 \in 0..HealthyCycles + 2 /\ 0 \in 0..StableCycles + 1
        /\ 0 \in 0..ResetCycles /\ 0 \in 0..SyncCycles /\ 0 \in 0..NumDrives /\ 0 \in 0..MaxEvents
    BY BoundsAssumption
  <2>2. ClocksType /\ MonitorType
    BY <2>1 DEF Init, All, ClocksType, MonitorType
  <2>3. ReadType /\ SeedsType /\ BasedType
    BY <2>1 DEF Init, All, ReadType, SeedsType, BasedType, Statuses
  <2>4. DriveType /\ LoopType
    BY <2>1 DEF Init, All, DriveType, LoopType, Commands
  <2>5. QED
    BY <2>2, <2>3, <2>4
       DEF TypeOK, ReadType, ClocksType, SeedsType, BasedType,
       MonitorType, DriveType, LoopType
<1>2. TypeOK /\ [Next]_vars => TypeOK'
  <2> SUFFICES ASSUME TypeOK, [Next]_vars PROVE TypeOK'
    OBVIOUS
  <2>1. CASE Process
    <3>1. homing' \in [Drives -> {"no", "enabling", "moving"}]
      BY <2>1 DEF Process, All, TypeOK
    <3>2. turn' \in 0..NumDrives /\ held' \in BOOLEAN /\ estop' \in BOOLEAN
      BY <2>1, BoundsAssumption DEF Process, TypeOK
    <3>3. QED
      BY <2>1, <3>1, <3>2 DEF Process, TypeOK, monVars, driveVars
  <2>2. CASE \E i \in Drives : Turn(i)
    BY <2>2, TurnTypes
  <2>3. CASE StartsAgain \/ InitializesAgain
    BY <2>3, RestartTypes
  <2>4. CASE PressEstop \/ AskClear \/ AskHome
    <3>1. events' \in 0..MaxEvents
      BY <2>4, EventCounts DEF PressEstop, AskClear, AskHome, TypeOK
    <3>2. LoopType'
      BY <2>4 DEF PressEstop, AskClear, AskHome, HomeAll, All, LoopType, TypeOK
    <3>3. QED
      BY <2>4, <3>1, <3>2 DEF PressEstop, AskClear, AskHome, LoopType, TypeOK, monVars, driveVars
  <2>5. CASE UNCHANGED vars
    BY <2>5 DEF vars, monVars, driveVars, loopVars, TypeOK
  <2>6. QED
    BY <2>1, <2>2, <2>3, <2>4, <2>5 DEF Next, Loop, Surfaces
<1>3. QED
  BY <1>1, <1>2, PTL DEF Spec

\* The monitor's arrays, the drives' counters and the loop's flags keep their
\* types: no retry, clock or reset call counts past its bound.
THEOREM Typing == Spec => []TypeOK
BY TypeInvariant

-----------------------------------------------------------------------------
(* Who is locked out. *)

\* A drive that is locked out was last told to disable.
DownInv == \A i \in Drives : locked[i] => status[i] # "Enabled" /\ faultSeen[i] /\ cmd[i] = "quickStop"

\* What the turn of one drive leaves of the others.
LEMMA OthersStay == ASSUME TypeOK, NEW i \in Drives, Turn(i), NEW j \in Drives \ {i}
                    PROVE  /\ status'[j] = status[j] /\ cmd'[j] = cmd[j]
                           /\ faultSeen'[j] = faultSeen[j] /\ locked'[j] = locked[j]
                           /\ stableFor'[j] = stableFor[j] /\ upFor'[j] = upFor[j]
                           /\ seeded'[j] = seeded[j] /\ dropped'[j] = dropped[j]
                           /\ based'[j] = based[j]
<1>1. status'[j] = status[j] /\ upFor'[j] = upFor[j]
  <2>1. \E s, h : Reads(i, s, h)
    <3>1. ASSUME NEW s, EstopTurn(i, s) PROVE Reads(i, s, homing[i])
      BY <3>1 DEF EstopTurn
    <3>2. ASSUME NEW s, NEW h, Asked(i, s, h) PROVE Reads(i, s, h)
      BY <3>2 DEF Asked
    <3>3. (\E s : EstopTurn(i, s)) \/ (\E s, h : Asked(i, s, h))
      BY DEF Turn, EnableTurn, LockedTurn, ReactionTurn, LockoutTurn, ResetTurn, RehomeTurn,
         HomingTurn, FaultFree, Faulted
    <3>4. QED
      BY <3>1, <3>2, <3>3
  <2>2. QED
    BY <2>1 DEF Reads, TypeOK
<1>2. faultSeen'[j] = faultSeen[j] /\ locked'[j] = locked[j]
  BY DEF Turn, EstopTurn, EnableTurn, LockedTurn, ReactionTurn, LockoutTurn, ResetTurn, RehomeTurn,
     HomingTurn, FaultFree, Faulted, Sets, TypeOK
<1>3. cmd'[j] = cmd[j]
  BY DEF Turn, EstopTurn, EnableTurn, LockedTurn, ReactionTurn, LockoutTurn, ResetTurn, RehomeTurn,
     HomingTurn, Sets, TypeOK
<1>4. stableFor'[j] = stableFor[j]
  BY DEF Turn, EstopTurn, EnableTurn, LockedTurn, ReactionTurn, LockoutTurn, ResetTurn, RehomeTurn,
     HomingTurn, FaultFree, Faulted, ClocksTick, Sets, TypeOK
<1>5. seeded'[j] = seeded[j] /\ dropped'[j] = dropped[j]
  <2>1. \E s, b : Seeds(i, s, b)
    BY DEF Turn, EstopTurn, EnableTurn, LockedTurn, ReactionTurn, LockoutTurn, ResetTurn, RehomeTurn,
       HomingTurn, Faulted
  <2>2. QED
    BY <2>1 DEF Seeds, Sets, TypeOK
<1>6. based'[j] = based[j]
  <2>1. \E v : based' = Sets(based, i, v)
    <3>1. ASSUME NEW s, EstopTurn(i, s) \/ EnableTurn(i, s) PROVE \E v : based' = Sets(based, i, v)
      BY <3>1 DEF EstopTurn, EnableTurn
    <3>2. ASSUME NEW s, NEW h,
                 LockedTurn(i, s, h) \/ ReactionTurn(i, s, h) \/ LockoutTurn(i, s, h)
                 \/ ResetTurn(i, s, h) \/ RehomeTurn(i, s, h) \/ HomingTurn(i, s, h)
          PROVE  \E v : based' = Sets(based, i, v)
      BY <3>2 DEF LockedTurn, ReactionTurn, LockoutTurn, ResetTurn, RehomeTurn, HomingTurn, Faulted, Rebased
    <3>3. QED
      BY <3>1, <3>2 DEF Turn
  <2>2. QED
    BY <2>1 DEF Sets, TypeOK
<1>7. QED
  BY <1>1, <1>2, <1>3, <1>4, <1>5, <1>6

\* A drive that is not enabled gets there only if it is told to.
LEMMA NotByItself == ASSUME TypeOK, NEW i \in Drives, status[i] # "Enabled",
                            status[i] # "SwitchedOn" \/ cmd[i] # "operate"
                     PROVE  "Enabled" \notin Reports(i)
<1>1. status[i] \in Statuses
  BY DEF TypeOK
<1>2. Obeys(status[i], cmd[i]) # "Enabled"
  BY <1>1 DEF Obeys, Statuses, Faults
<1>3. "Enabled" \notin Befalls(status[i])
  BY DEF Befalls
<1>4. QED
  BY <1>2, <1>3 DEF Reports, Answers

LEMMA TurnKeepsDown == ASSUME TypeOK, DownInv, NEW i \in Drives, Turn(i) PROVE DownInv'
<1>1. ASSUME locked'[i]
      PROVE  status'[i] # "Enabled" /\ faultSeen'[i] /\ cmd'[i] = "quickStop"
  <2>1. PICK s \in Reports(i) :
          \/ EstopTurn(i, s)
          \/ EnableTurn(i, s)
          \/ \E h \in {"no", "enabling", "moving"} :
                \/ LockedTurn(i, s, h) \/ ReactionTurn(i, s, h)
                \/ LockoutTurn(i, s, h) \/ ResetTurn(i, s, h)
                \/ RehomeTurn(i, s, h) \/ HomingTurn(i, s, h)
    BY DEF Turn
  <2>2. ASSUME NEW h, LockedTurn(i, s, h) PROVE locked[i]
    BY <2>2 DEF LockedTurn, Locked
  <2>3. ASSUME locked[i] PROVE s # "Enabled"
    BY <2>3, NotByItself DEF DownInv
  <2>4. CASE EstopTurn(i, s)
    BY <1>1, <2>3, <2>4 DEF EstopTurn, Reads, Sets, DownInv, TypeOK
  <2>5. ASSUME NEW h, LockedTurn(i, s, h)
        PROVE  status'[i] # "Enabled" /\ faultSeen'[i] /\ cmd'[i] = "quickStop"
    BY <2>2, <2>3, <2>5 DEF LockedTurn, Asked, Reads, Sets, DownInv, TypeOK
  <2>6. ASSUME NEW h, LockoutTurn(i, s, h)
        PROVE  status'[i] # "Enabled" /\ faultSeen'[i] /\ cmd'[i] = "quickStop"
    BY <2>6 DEF LockoutTurn, Faulted, Asked, Reads, Sets, TypeOK
  <2>7. ASSUME NEW h, EnableTurn(i, s) \/ ReactionTurn(i, s, h) \/ ResetTurn(i, s, h)
                      \/ RehomeTurn(i, s, h) \/ HomingTurn(i, s, h)
        PROVE  ~locked'[i]
    BY <2>7 DEF EnableTurn, ReactionTurn, ResetTurn, RehomeTurn, HomingTurn, FaultFree, Sets, TypeOK
  <2>8. QED
    BY <1>1, <2>1, <2>4, <2>5, <2>6, <2>7
<1>2. QED
  BY <1>1, OthersStay DEF DownInv

LEMMA DownInvariant == Spec => []DownInv
<1>1. Init => DownInv
  BY DEF Init, All, DownInv
<1>2. TypeOK /\ DownInv /\ [Next]_vars => DownInv'
  <2> SUFFICES ASSUME TypeOK, DownInv, [Next]_vars PROVE DownInv'
    OBVIOUS
  <2>1. CASE \E i \in Drives : Turn(i)
    BY <2>1, TurnKeepsDown
  <2>2. CASE StartsAgain \/ InitializesAgain
    BY <2>2 DEF StartsAgain, InitializesAgain, Restarts, ResetMonitor, All, DownInv
  <2>3. CASE Process \/ PressEstop \/ AskClear \/ AskHome \/ UNCHANGED vars
    BY <2>3 DEF Process, PressEstop, AskClear, AskHome, vars, monVars, DownInv
  <2>4. QED
    BY <2>1, <2>2, <2>3 DEF Next, Loop, Surfaces
<1>3. QED
  BY <1>1, <1>2, TypeInvariant, PTL DEF Spec

\* A drive that is locked out reports no enabled state and keeps its episode
\* open until somebody clears the lockout, for any number of drives.
THEOREM LockedStayDown == Spec => []LockedIsDown
<1>1. DownInv => LockedIsDown
  BY DEF DownInv, LockedIsDown
<1>2. QED
  BY <1>1, DownInvariant, PTL

-----------------------------------------------------------------------------
(* Where a drive is commanded from. *)

\* While the e-stop of a cycle holds, no homing runs.
EstopInv == estop => held /\ homing = All("no")

\* What was seeded without a break since is enabled and has its base; a
\* homing that moves has seeded its drive by itself.
BaseInv ==
    \A i \in Drives :
        /\ seeded[i] /\ ~dropped[i] => status[i] = "Enabled" /\ based[i]
        /\ homing[i] = "moving" => based[i]

LEMMA EstopInvariant == Spec => []EstopInv
<1>1. Init => EstopInv
  BY DEF Init, EstopInv
<1>2. TypeOK /\ EstopInv /\ [Next]_vars => EstopInv'
  <2> SUFFICES ASSUME TypeOK, EstopInv, [Next]_vars PROVE EstopInv'
    OBVIOUS
  <2> USE DEF EstopInv
  <2>1. CASE Process
    BY <2>1 DEF Process
  <2>2. ASSUME NEW i \in Drives, Turn(i) PROVE EstopInv'
    <3>1. (estop /\ UNCHANGED <<homing, held, estop>>) \/ ~estop'
      <4>1. ASSUME NEW s, EstopTurn(i, s) PROVE estop /\ UNCHANGED <<homing, held, estop>>
        BY <4>1 DEF EstopTurn, loopVars
      <4>2. ASSUME NEW s, NEW h, Asked(i, s, h) PROVE ~estop'
        BY <4>2 DEF Asked
      <4>3. (\E s : EstopTurn(i, s)) \/ (\E s, h : Asked(i, s, h))
        BY <2>2 DEF Turn, EnableTurn, LockedTurn, ReactionTurn, LockoutTurn, ResetTurn, RehomeTurn,
           HomingTurn, FaultFree, Faulted
      <4>4. QED
        BY <4>1, <4>2, <4>3
    <3>2. QED
      BY <3>1
  <2>3. CASE StartsAgain \/ InitializesAgain
    BY <2>3 DEF StartsAgain, InitializesAgain, Restarts
  <2>4. CASE PressEstop \/ AskClear \/ AskHome \/ UNCHANGED vars
    BY <2>4 DEF PressEstop, AskClear, AskHome, HomeAll, vars, loopVars
  <2>5. QED
    BY <2>1, <2>2, <2>3, <2>4 DEF Next, Loop, Surfaces
<1>3. QED
  BY <1>1, <1>2, TypeInvariant, PTL DEF Spec

\* The parts of the invariant that the turn of a drive is about, for it.
BasedHere(i) ==
    /\ seeded[i] /\ ~dropped[i] => status[i] = "Enabled" /\ based[i]
    /\ homing[i] = "moving" => based[i]

LEMMA TurnBases == ASSUME TypeOK, EstopInv, BaseInv, NEW i \in Drives, Turn(i)
                   PROVE  BasedHere(i)'
<1> USE DEF BasedHere
<1>1. PICK s \in Reports(i) :
        \/ EstopTurn(i, s)
        \/ EnableTurn(i, s)
        \/ \E h \in {"no", "enabling", "moving"} :
              \/ LockedTurn(i, s, h) \/ ReactionTurn(i, s, h)
              \/ LockoutTurn(i, s, h) \/ ResetTurn(i, s, h)
              \/ RehomeTurn(i, s, h) \/ HomingTurn(i, s, h)
  BY DEF Turn
<1>2. /\ seeded[i] \in BOOLEAN /\ dropped[i] \in BOOLEAN /\ based[i] \in BOOLEAN
      /\ seeded[i] /\ ~dropped[i] => status[i] = "Enabled" /\ based[i]
      /\ homing[i] = "moving" => based[i]
  BY DEF TypeOK, BaseInv
<1>3. CASE EstopTurn(i, s)
  <2>1. ~seeded'[i] /\ homing'[i] = "no"
    BY <1>3 DEF EstopTurn, Seeds, Sets, EstopInv, All, loopVars, TypeOK
  <2>2. QED
    BY <2>1
<1>4. CASE EnableTurn(i, s)
  <2>1. /\ homing'[i] = "no"
        /\ status'[i] = s
        /\ seeded'[i] = (seeded[i] \/ s = "Enabled")
        /\ dropped'[i] = ((seeded[i] \/ s = "Enabled") /\ seeded[i] /\ (dropped[i] \/ s # "Enabled"))
    BY <1>4 DEF EnableTurn, FaultFree, Asked, Reads, Seeds, Sets, TypeOK
  <2>2. based'[i] = (StillBased(i, s) \/ HomingSeeds(i, s) \/ (s = "Enabled" /\ ~seeded[i]))
    BY <1>4 DEF EnableTurn, Sets, TypeOK
  <2>3. QED
    BY <1>2, <2>1, <2>2 DEF StillBased
<1>5. ASSUME NEW h \in {"no", "enabling", "moving"},
             \/ LockedTurn(i, s, h) \/ ReactionTurn(i, s, h)
             \/ LockoutTurn(i, s, h) \/ ResetTurn(i, s, h)
      PROVE  BasedHere(i)'
  <2>1. /\ Asked(i, s, h) /\ HomingOnly(i, s, h)
        /\ Seeds(i, s, seeded[i]) /\ Rebased(i, s)
    BY <1>5 DEF LockedTurn, ReactionTurn, LockoutTurn, ResetTurn, Faulted
  <2>2. /\ status'[i] = s /\ homing'[i] = h
        /\ HomingSteps(i, s, h)
        /\ seeded'[i] = seeded[i]
        /\ dropped'[i] = (seeded[i] /\ seeded[i] /\ (dropped[i] \/ s # "Enabled"))
        /\ based'[i] = (StillBased(i, s) \/ HomingSeeds(i, s))
    BY <2>1 DEF Asked, Reads, HomingOnly, Seeds, Rebased, Sets, TypeOK
  <2>3. h = "moving" => HomingSeeds(i, s)
    BY <2>2 DEF HomingSteps, HomingSeeds, TypeOK
  <2>4. QED
    BY <1>2, <2>2, <2>3 DEF StillBased
<1>6. ASSUME NEW h \in {"no", "enabling", "moving"}, RehomeTurn(i, s, h) PROVE BasedHere(i)'
  <2>1. ~seeded'[i]
    BY <1>6 DEF RehomeTurn, Seeds, Sets, TypeOK
  <2>2. homing'[i] = "enabling"
    BY <1>6 DEF RehomeTurn, Rehoming, HomeAll, All
  <2>3. QED
    BY <2>1, <2>2
<1>7. ASSUME NEW h \in {"no", "enabling", "moving"}, HomingTurn(i, s, h) PROVE BasedHere(i)'
  <2>1. ~seeded'[i] /\ homing'[i] = h /\ HomingSteps(i, s, h)
    BY <1>7 DEF HomingTurn, HomingOnly, FaultFree, Asked, Seeds, Sets, TypeOK
  <2>2. based'[i] = (StillBased(i, s) \/ HomingSeeds(i, s))
    BY <1>7 DEF HomingTurn, Rebased, Sets, TypeOK
  <2>3. h = "moving" => HomingSeeds(i, s)
    BY <2>1 DEF HomingSteps, HomingSeeds, TypeOK
  <2>4. QED
    BY <2>1, <2>2, <2>3
<1>8. QED
  BY <1>1, <1>3, <1>4, <1>5, <1>6, <1>7

LEMMA TurnHomings == ASSUME TypeOK, NEW i \in Drives, Turn(i), NEW j \in Drives \ {i}
                     PROVE  homing'[j] = homing[j] \/ homing'[j] = "enabling"
<1>1. homing' = homing \/ homing' = All("enabling") \/ \E h : homing' = Sets(homing, i, h)
  <2>1. ASSUME NEW s, EstopTurn(i, s) \/ EnableTurn(i, s)
        PROVE  homing' = homing \/ \E h : homing' = Sets(homing, i, h)
    BY <2>1 DEF EstopTurn, EnableTurn, loopVars
  <2>2. ASSUME NEW s, NEW h, HomingOnly(i, s, h) PROVE homing' = Sets(homing, i, h)
    BY <2>2 DEF HomingOnly
  <2>3. ASSUME NEW s, NEW h, RehomeTurn(i, s, h) PROVE homing' = All("enabling")
    BY <2>3 DEF RehomeTurn, Rehoming, HomeAll
  <2>4. \/ \E s : EstopTurn(i, s) \/ EnableTurn(i, s)
        \/ \E s, h : HomingOnly(i, s, h) \/ RehomeTurn(i, s, h)
    BY DEF Turn, LockedTurn, ReactionTurn, LockoutTurn, ResetTurn, HomingTurn, Faulted
  <2>5. QED
    BY <2>1, <2>2, <2>3, <2>4
<1>2. QED
  BY <1>1 DEF All, Sets, TypeOK

LEMMA BaseInvariant == Spec => []BaseInv
<1>1. Init => BaseInv
  BY DEF Init, All, BaseInv
<1>2. TypeOK /\ EstopInv /\ BaseInv /\ [Next]_vars => BaseInv'
  <2> SUFFICES ASSUME TypeOK, EstopInv, BaseInv, [Next]_vars PROVE BaseInv'
    OBVIOUS
  <2>1. ASSUME NEW i \in Drives, Turn(i) PROVE BaseInv'
    <3>1. BasedHere(i)'
      BY <2>1, TurnBases
    <3>2. ASSUME NEW j \in Drives \ {i} PROVE BasedHere(j)'
      BY <2>1, OthersStay, TurnHomings DEF BasedHere, BaseInv
    <3>3. QED
      BY <3>1, <3>2 DEF BasedHere, BaseInv
  <2>2. CASE Process
    BY <2>2 DEF Process, All, driveVars, BaseInv
  <2>3. CASE StartsAgain \/ InitializesAgain
    BY <2>3 DEF StartsAgain, InitializesAgain, Restarts, All, BaseInv
  <2>4. CASE PressEstop \/ AskClear \/ AskHome \/ UNCHANGED vars
    BY <2>4 DEF PressEstop, AskClear, AskHome, HomeAll, All, vars, driveVars, loopVars, BaseInv
  <2>5. QED
    BY <2>1, <2>2, <2>3, <2>4 DEF Next, Loop, Surfaces
<1>3. QED
  BY <1>1, <1>2, TypeInvariant, EstopInvariant, PTL DEF Spec

\* No axis is commanded from where it was before a start, an e-stop or a
\* homing, for any number of drives and events.
THEOREM NobodyJumps == Spec => []NoJump
<1>1. BaseInv => NoJump
  BY DEF BaseInv, NoJump
<1>2. QED
  BY <1>1, BaseInvariant, PTL

-----------------------------------------------------------------------------
(* Who is forgiven. *)

\* In an episode the stable clock of a drive that is enabled is no older than
\* the time it has been enabled for; in a fault it says nothing, as no drive
\* gets from a fault to its enabled state in one turn.
ClockInv ==
    \A i \in Drives :
        faultSeen[i] /\ ~locked[i] /\ ~estop =>
            \/ status[i] \in Faults
            \/ stableFor[i] = 0
            \/ status[i] = "Enabled" /\ stableFor[i] <= upFor[i]

LEMMA FaultsLast == ASSUME TypeOK, NEW i \in Drives, status[i] \in Faults
                    PROVE  "Enabled" \notin Reports(i)
BY NotByItself DEF Faults

\* The stable clock and the time enabled run at the same pace.
LEMMA SamePace == ASSUME NEW b \in Nat \ {0}, NEW m \in 0..b, NEW n \in 0..b, m <= n
                  PROVE  Ticks(m, b) <= Min2(n + 1, b)
BY DEF Ticks, Min2

LEMMA StableFollows == ASSUME TypeOK, ClockInv, NEW i \in Drives, NEW s \in Reports(i), NEW h,
                              ~locked[i], FaultFree(i, s, h), s = "Enabled", Seen(i)
                       PROVE  StableNow(i, s) <= upFor'[i]
<1>1. /\ faultSeen[i] /\ ~estop
      /\ stableFor[i] \in 0..StableCycles + 1 /\ upFor[i] \in 0..StableCycles + 1
      /\ StableCycles + 1 \in Nat \ {0} /\ StableCycles \in Nat \ {0}
  BY BoundsAssumption DEF FaultFree, Asked, Seen, TypeOK
<1>2. upFor'[i] = Min2(upFor[i] + 1, StableCycles + 1)
  BY DEF FaultFree, Asked, Reads, TypeOK
<1>3. stableFor[i] = 0 \/ stableFor[i] <= upFor[i]
  BY <1>1, FaultsLast DEF ClockInv
<1>4. CASE stableFor[i] = 0
  BY <1>1, <1>2, <1>4 DEF StableNow, Min2
<1>5. CASE stableFor[i] # 0
  <2>1. StableNow(i, s) = Ticks(stableFor[i], StableCycles + 1)
    BY <1>5 DEF StableNow, StableTicks
  <2>2. QED
    BY <1>1, <1>2, <1>3, <1>5, <2>1, SamePace
<1>6. QED
  BY <1>4, <1>5

\* The clock of the drive whose turn it is.
ClockHere(i) ==
    faultSeen[i] /\ ~locked[i] /\ ~estop =>
        \/ status[i] \in Faults
        \/ stableFor[i] = 0
        \/ status[i] = "Enabled" /\ stableFor[i] <= upFor[i]

LEMMA FreeTurns == ASSUME TypeOK, DownInv, ClockInv, NEW i \in Drives, NEW s \in Reports(i), NEW h,
                          FaultFree(i, s, h)
                   PROVE  /\ ClockHere(i)'
                          /\ faultSeen[i] /\ ~faultSeen'[i] /\ i \notin clearAsked
                                => upFor'[i] > StableCycles
<1>1. /\ ~Locked(i)
      /\ faultSeen'[i] = (Seen(i) /\ ~Over(i, s))
      /\ stableFor'[i] = StableNow(i, s)
      /\ status'[i] = s
  BY DEF FaultFree, Asked, Reads, Sets, TypeOK
<1>2. CASE ~Seen(i)
  BY <1>1, <1>2 DEF ClockHere, Seen
<1>3. CASE Seen(i) /\ s # "Enabled"
  <2>1. StableNow(i, s) = 0
    BY <1>3 DEF StableNow
  <2>2. QED
    BY <1>1, <1>3, <2>1 DEF ClockHere, Over
<1>4. CASE Seen(i) /\ s = "Enabled"
  <2>1. ~locked[i]
    BY <1>1, <1>4 DEF Locked, Seen
  <2>2. StableNow(i, s) <= upFor'[i]
    BY <1>4, <2>1, StableFollows
  <2>3. /\ StableNow(i, s) \in Nat /\ StableCycles \in Nat
        /\ upFor'[i] \in Nat
    <3>1. StableNow(i, s) \in 0..StableCycles + 1
      BY ClockTypes, BoundsAssumption DEF StableNow
    <3>2. upFor'[i] \in 0..StableCycles + 1
      BY BoundsAssumption DEF FaultFree, Asked, Reads, Min2, TypeOK
    <3>3. QED
      BY <3>1, <3>2, BoundsAssumption
  <2>4. faultSeen[i] /\ ~faultSeen'[i] => StableNow(i, s) > StableCycles
    BY <1>1, <1>4 DEF Over
  <2>5. QED
    BY <1>1, <1>4, <2>2, <2>3, <2>4 DEF ClockHere
<1>5. QED
  BY <1>2, <1>3, <1>4

LEMMA TurnClocks == ASSUME TypeOK, DownInv, ClockInv, NEW i \in Drives, Turn(i)
                    PROVE  /\ ClockHere(i)'
                           /\ faultSeen[i] /\ ~faultSeen'[i] /\ i \notin clearAsked
                                 => upFor'[i] > StableCycles
<1>1. PICK s \in Reports(i) :
        \/ EstopTurn(i, s)
        \/ EnableTurn(i, s)
        \/ \E h \in {"no", "enabling", "moving"} :
              \/ LockedTurn(i, s, h) \/ ReactionTurn(i, s, h)
              \/ LockoutTurn(i, s, h) \/ ResetTurn(i, s, h)
              \/ RehomeTurn(i, s, h) \/ HomingTurn(i, s, h)
  BY DEF Turn
<1>2. CASE EstopTurn(i, s)
  BY <1>2 DEF EstopTurn, loopVars, ClockHere
<1>3. ASSUME NEW h, LockedTurn(i, s, h) PROVE locked'[i] /\ UNCHANGED faultSeen
  BY <1>3 DEF LockedTurn, Locked
<1>4. ASSUME NEW h, Faulted(i, s, h) PROVE faultSeen'[i] /\ status'[i] \in Faults
  BY <1>4 DEF Faulted, Asked, Reads, Sets, TypeOK
<1>5. CASE \E h : FaultFree(i, s, h)
  BY <1>5, FreeTurns
<1>6. CASE \E h : LockedTurn(i, s, h)
  BY <1>3, <1>6 DEF ClockHere
<1>7. CASE \E h : Faulted(i, s, h)
  BY <1>4, <1>7 DEF ClockHere
<1>8. QED
  BY <1>1, <1>2, <1>5, <1>6, <1>7 DEF EnableTurn, ReactionTurn, LockoutTurn, ResetTurn, RehomeTurn, HomingTurn

LEMMA ClockInvariant == Spec => []ClockInv
<1>1. Init => ClockInv
  BY DEF Init, All, ClockInv
<1>2. TypeOK /\ EstopInv /\ DownInv /\ ClockInv /\ [Next]_vars => ClockInv'
  <2> SUFFICES ASSUME TypeOK, EstopInv, DownInv, ClockInv, [Next]_vars PROVE ClockInv'
    OBVIOUS
  <2>1. ASSUME NEW i \in Drives, Turn(i) PROVE ClockInv'
    <3>1. ClockHere(i)'
      BY <2>1, TurnClocks
    <3>2. estop' = estop
      <4>1. (\E s : EstopTurn(i, s)) \/ (\E s, h : Asked(i, s, h))
        BY <2>1 DEF Turn, EnableTurn, LockedTurn, ReactionTurn, LockoutTurn, ResetTurn, RehomeTurn,
           HomingTurn, FaultFree, Faulted
      <4>2. QED
        BY <4>1 DEF EstopTurn, Asked, loopVars
    <3>3. ASSUME NEW j \in Drives \ {i} PROVE ClockHere(j)'
      BY <2>1, <3>2, OthersStay DEF ClockHere, ClockInv
    <3>4. QED
      BY <3>1, <3>3 DEF ClockHere, ClockInv
  <2>2. CASE Process
    BY <2>2 DEF Process, monVars, EstopInv, ClockInv
  <2>3. CASE StartsAgain \/ InitializesAgain
    BY <2>3 DEF StartsAgain, InitializesAgain, Restarts, ResetMonitor, All, ClockInv
  <2>4. CASE PressEstop \/ AskClear \/ AskHome \/ UNCHANGED vars
    BY <2>4 DEF PressEstop, AskClear, AskHome, vars, monVars, loopVars, ClockInv
  <2>5. QED
    BY <2>1, <2>2, <2>3, <2>4 DEF Next, Loop, Surfaces
<1>3. QED
  BY <1>1, <1>2, TypeInvariant, EstopInvariant, DownInvariant, PTL DEF Spec

\* A drive is forgiven only after StableCycles enabled turns on end, for any
\* number of drives and any bound.
THEOREM ForgivenWhenStable == Spec => StableMeansStable
<1>1. TypeOK /\ DownInv /\ ClockInv /\ [Next]_vars =>
        [\A i \in Drives :
            faultSeen[i] /\ ~faultSeen'[i] /\ i \notin clearAsked /\ turn = i
                => upFor'[i] > StableCycles]_vars
  <2> SUFFICES ASSUME TypeOK, DownInv, ClockInv, Next, NEW i \in Drives,
                      faultSeen[i], ~faultSeen'[i], i \notin clearAsked, turn = i
               PROVE  upFor'[i] > StableCycles
    OBVIOUS
  <2>1. i # 0
    BY DEF Drives
  <2>2. ASSUME NEW j \in Drives, Turn(j) PROVE upFor'[i] > StableCycles
    <3>1. j = i
      BY <2>2 DEF Turn
    <3>2. QED
      BY <2>2, <3>1, TurnClocks
  <2>3. ~Process /\ ~StartsAgain /\ ~InitializesAgain
    BY <2>1 DEF Process, StartsAgain, InitializesAgain, Restarts
  <2>4. ~PressEstop /\ ~AskClear /\ ~AskHome
    BY DEF PressEstop, AskClear, AskHome, monVars
  <2>5. QED
    BY <2>2, <2>3, <2>4 DEF Next, Loop, Surfaces
<1>2. QED
  BY <1>1, TypeInvariant, DownInvariant, ClockInvariant, PTL DEF Spec, StableMeansStable

-----------------------------------------------------------------------------
(* The episodes. *)

Open == {i \in Drives : faultSeen[i]}

LEMMA FreeEpisodes == ASSUME TypeOK, NEW i \in Drives, NEW s, NEW h, FaultFree(i, s, h),
                             needsRehome' = needsRehome \/ (Rehoming(i, s) /\ ~needsRehome')
                      PROVE  Episodes!Closes(i) \/ UNCHANGED <<Open, needsRehome>>
<1>1. /\ faultSeen' = Sets(faultSeen, i, Seen(i) /\ ~Over(i, s))
      /\ Seen(i) => faultSeen[i]
      /\ Over(i, s) => Seen(i)
  BY DEF FaultFree, Seen, Over
<1>2. CASE ~faultSeen[i]
  <2>1. faultSeen' = faultSeen
    BY <1>1, <1>2, AskedOfMonitor DEF Sets, TypeOK
  <2>2. needsRehome' = needsRehome
    BY <1>1, <1>2 DEF Rehoming, AllClear
  <2>3. QED
    BY <2>1, <2>2 DEF Open
<1>3. CASE faultSeen[i] /\ faultSeen'[i]
  <2>1. faultSeen' = faultSeen
    BY <1>1, <1>3 DEF Sets, TypeOK
  <2>2. ~Over(i, s)
    BY <1>1, <1>3 DEF Sets, TypeOK
  <2>3. needsRehome' = needsRehome
    BY <2>2 DEF Rehoming, AllClear
  <2>4. QED
    BY <2>1, <2>3 DEF Open
<1>4. CASE faultSeen[i] /\ ~faultSeen'[i]
  <2>1. i \in Open /\ Open' = Open \ {i}
    BY <1>1, <1>4 DEF Open, Sets, TypeOK
  <2>2. Rehoming(i, s) => Open \ {i} = {}
    BY DEF Rehoming, AllClear, Open
  <2>3. QED
    BY <2>1, <2>2 DEF Episodes!Closes, Open, TypeOK
<1>5. QED
  BY <1>2, <1>3, <1>4

LEMMA FaultEpisode == ASSUME TypeOK, NEW i \in Drives, NEW s, NEW h, Faulted(i, s, h)
                      PROVE  \/ Episodes!Opens(i) \/ Episodes!Reopens(i)
                             \/ UNCHANGED <<Open, needsRehome>>
<1>1. /\ faultSeen' = [faultSeen EXCEPT ![i] = TRUE]
      /\ needsRehome' = (needsRehome \/ ~Seen(i))
  BY DEF Faulted, Sets
<1>2. Open' = Open \cup {i}
  BY <1>1 DEF Open, TypeOK
<1>3. CASE Seen(i)
  BY <1>1, <1>2, <1>3 DEF Seen, Open, TypeOK
<1>4. CASE ~Seen(i) /\ faultSeen[i]
  BY <1>1, <1>2, <1>4 DEF Open, Episodes!Reopens, TypeOK
<1>5. CASE ~faultSeen[i]
  BY <1>1, <1>2, <1>5 DEF Seen, Open, Episodes!Opens, TypeOK
<1>6. QED
  BY <1>3, <1>4, <1>5

\* The fault handling of any number of drives implements the episodes: a
\* rehome is owed from the first fault on and begun by it only as the last
\* episode closes.
THEOREM Implements == Spec => ImplementsEpisodes
<1>1. Init => Episodes!Init
  BY DEF Init, All, Episodes!Init
<1>2. TypeOK /\ [Next]_vars => [Episodes!Next]_<<Open, needsRehome>>
  <2> SUFFICES ASSUME TypeOK, [Next]_vars PROVE Episodes!Next \/ UNCHANGED <<Open, needsRehome>>
    OBVIOUS
  <2>1. ASSUME NEW i \in Drives, Turn(i) PROVE Episodes!Next \/ UNCHANGED <<Open, needsRehome>>
    <3>1. ASSUME NEW s, NEW h, FaultFree(i, s, h),
                 EnableTurn(i, s) \/ RehomeTurn(i, s, h) \/ HomingTurn(i, s, h)
          PROVE  Episodes!Next \/ UNCHANGED <<Open, needsRehome>>
      <4>1. needsRehome' = needsRehome \/ (Rehoming(i, s) /\ ~needsRehome')
        BY <3>1 DEF EnableTurn, RehomeTurn, HomingTurn, HomeAll
      <4>2. QED
        BY <3>1, <4>1, FreeEpisodes DEF Episodes!Next
    <3>2. ASSUME NEW s, NEW h, Faulted(i, s, h)
          PROVE  Episodes!Next \/ UNCHANGED <<Open, needsRehome>>
      BY <3>2, FaultEpisode DEF Episodes!Next
    <3>3. ASSUME NEW s, NEW h, EstopTurn(i, s) \/ LockedTurn(i, s, h)
          PROVE  UNCHANGED <<Open, needsRehome>>
      BY <3>3 DEF EstopTurn, LockedTurn, Open, loopVars
    <3>4. QED
      BY <2>1, <3>1, <3>2, <3>3 DEF Turn, EnableTurn, ReactionTurn, LockoutTurn, ResetTurn, RehomeTurn,
         HomingTurn
  <2>2. CASE StartsAgain \/ InitializesAgain
    BY <2>2 DEF StartsAgain, InitializesAgain, Restarts, ResetMonitor, All, Open, Episodes!Next,
       Episodes!Forgets
  <2>3. CASE AskHome
    <3>1. UNCHANGED Open
      BY <2>3 DEF AskHome, monVars, Open
    <3>2. needsRehome' \in {FALSE, needsRehome}
      BY <2>3 DEF AskHome, HomeAll
    <3>3. QED
      BY <3>1, <3>2 DEF Open, Episodes!Next, Episodes!Rehomed
  <2>4. CASE Process \/ PressEstop \/ AskClear \/ UNCHANGED vars
    BY <2>4 DEF Process, PressEstop, AskClear, vars, monVars, loopVars, Open
  <2>5. QED
    BY <2>1, <2>2, <2>3, <2>4 DEF Next, Loop, Surfaces
<1>3. QED
  BY <1>1, <1>2, TypeInvariant, PTL DEF Spec, ImplementsEpisodes, Episodes!Spec, Open
=============================================================================
