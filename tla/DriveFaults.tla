---------------------------- MODULE DriveFaults -----------------------------
(***************************************************************************)
(* The drives under the control loop: DriveFaultMonitor, the DS402 enable  *)
(* state machine and the fault reset of A6Drive, and the calls by which    *)
(* the loop and a homing axis step them.                                   *)
(*                                                                         *)
(* A cycle of the loop is a step of process() and then one turn of every   *)
(* drive, in order.  In its turn a drive is read and commanded; between    *)
(* two of its turns it answers the controlword it was sent, may fault, may *)
(* lose its power, may be switched to QuickStop by its e-stop button.  The *)
(* process image is exchanged once a cycle, so a drive that a turn reads   *)
(* twice reads the same: the branch of stepFaultReset that finds the fault *)
(* gone, which only step() calls and only for a drive it has just seen in  *)
(* Fault, is never taken, and a fault is left by the turn after.           *)
(*                                                                         *)
(* The step of a homing axis, which process() takes, is taken here with    *)
(* the turn of its drive.  Positions are abstracted to whether the base of *)
(* the rate limiter is where the axis is, times to a few cycles.           *)
(***************************************************************************)
EXTENDS Integers, FiniteSets

CONSTANTS
    NumDrives,
    MaxRetries,     \* MAX_FAULT_RETRIES
    StableCycles,   \* FAULT_CLEAR_STABLE_CYCLES
    HealthyCycles,  \* HEALTHY_CYCLES_RESET
    ResetLow,       \* calls of a reset that hold the controlword at zero ...
    ResetCycles,    \* ... then set its reset bit, or pulse it, up to this one
    SyncCycles,     \* m_commandSyncCycles
    MaxEvents       \* bound on the events of a behaviour: faults, losses of
                    \* power or of a frame, late answers, time-outs of a homing,
                    \* buttons and requests

ASSUME BoundsAssumption ==
    /\ NumDrives \in Nat \ {0}
    /\ MaxRetries \in Nat \ {0}
    /\ StableCycles \in Nat \ {0}
    /\ HealthyCycles \in Nat \ {0}
    /\ ResetLow \in Nat /\ ResetCycles \in Nat /\ ResetLow < ResetCycles
    /\ SyncCycles \in Nat \ {0}
    /\ MaxEvents \in Nat

Drives == 1..NumDrives

VARIABLES
    turn,           \* the drive whose turn is next; 0: process()
    status,         \* m_state: what each drive last reported
    cmd,            \* the controlword each drive was last sent
    faultSeen, retries, locked, resetActive,    \* DriveFaultMonitor's arrays
    healthyFor,     \* cycles since m_healthyCycle, from 1; 0: not set
    stableFor,      \* cycles since m_opEnabledSince, from 1; 0: not set
    resetCalls,     \* m_faultResetCycles; 0 also when no reset is pending
    syncCount,      \* m_commandSyncCount; 0 also when no sync is active
    seeded,         \* justEnabled
    based,          \* m_lastTargetUnits is where the axis is
    homing,         \* the homing of the axis: no, enabling or moving
    needsRehome,    \* MotionController::m_needsRehome
    held,           \* the e-stop holds: its input, or its trip
    estop,          \* motionOut.emergencyStop of this cycle
    clearAsked,     \* m_clearLockoutMask
    events,         \* events so far
    upFor,          \* history: consecutive turns each drive was enabled in
    dropped         \* history: the drive has left its enabled state since seeded

monVars   == <<faultSeen, retries, locked, resetActive, healthyFor, stableFor>>
driveVars == <<resetCalls, syncCount, seeded, based>>
loopVars  == <<homing, needsRehome, held, estop, clearAsked>>
vars == <<turn, status, cmd, monVars, driveVars, loopVars, events, upFor, dropped>>

Faults == {"FaultReaction", "Fault"}
Statuses == Faults \cup {"NotReady", "SwitchOnDisabled", "Ready", "SwitchedOn",
                         "Enabled", "QuickStop"}
Commands == {"zero", "reset", "shutdown", "switchOn", "operate", "quickStop"}

All(v) == [i \in Drives |-> v]

ResetMonitor ==
    /\ faultSeen' = All(FALSE)
    /\ retries' = All(0)
    /\ locked' = All(FALSE)
    /\ resetActive' = All(FALSE)
    /\ healthyFor' = All(0)
    /\ stableFor' = All(0)

\* As an init leaves the drives: ready to switch on is asked of them.
Init ==
    /\ turn = 0
    /\ status = All("SwitchOnDisabled")
    /\ cmd = All("shutdown")
    /\ faultSeen = All(FALSE)
    /\ retries = All(0)
    /\ locked = All(FALSE)
    /\ resetActive = All(FALSE)
    /\ healthyFor = All(0)
    /\ stableFor = All(0)
    /\ resetCalls = All(0)
    /\ syncCount = All(0)
    /\ seeded = All(FALSE)
    /\ based = All(FALSE)
    /\ homing = All("enabling")
    /\ needsRehome = FALSE
    /\ held = FALSE
    /\ estop = FALSE
    /\ clearAsked = {}
    /\ events = 0
    /\ upFor = All(0)
    /\ dropped = All(FALSE)

-----------------------------------------------------------------------------
(* The drive and its axis. *)

\* The state that a controlword takes a drive to.
Obeys(s, c) ==
    CASE s = "NotReady" -> "SwitchOnDisabled"
      [] s = "FaultReaction" -> "Fault"
      [] s = "Fault" /\ c = "reset" -> "SwitchOnDisabled"
      [] s = "SwitchOnDisabled" /\ c = "shutdown" -> "Ready"
      [] s = "Ready" /\ c \in {"switchOn", "operate"} -> "SwitchedOn"
      [] s = "SwitchedOn" /\ c = "operate" -> "Enabled"
      [] s = "SwitchedOn" /\ c = "shutdown" -> "Ready"
      [] s = "Enabled" /\ c = "switchOn" -> "SwitchedOn"
      [] s = "Enabled" /\ c = "shutdown" -> "Ready"
      [] s = "Enabled" /\ c = "quickStop" -> "QuickStop"
      [] s = "QuickStop" -> "SwitchOnDisabled"
      [] s \in {"Ready", "SwitchedOn"} /\ c = "quickStop" -> "SwitchOnDisabled"
      [] s \in {"Ready", "SwitchedOn", "Enabled"} /\ c \in {"zero", "reset"} -> "SwitchOnDisabled"
      [] OTHER -> s

\* What befalls it: it does not answer yet, or its frame is lost; it faults;
\* its e-stop button is pressed; its fault goes with its power, or it loses
\* its power otherwise.
Befalls(s) ==
    {s}
    \cup (IF s \in Faults THEN {"NotReady"} ELSE {"FaultReaction"})
    \cup (IF s = "Enabled" THEN {"QuickStop"} ELSE {})
    \cup (IF s \in {"Ready", "SwitchedOn", "Enabled"} THEN {"SwitchOnDisabled"} ELSE {})

\* A fault may outlive its reset.
Answers(i) ==
    {Obeys(status[i], cmd[i])} \cup (IF status[i] = "Fault" THEN {"Fault"} ELSE {})

Reports(i) == Answers(i) \cup Befalls(status[i])

Event ==
    /\ events < MaxEvents
    /\ events' = events + 1

Min2(a, b) == IF a <= b THEN a ELSE b

\* A cycle passes on a clock that is set.
Ticks(age, bound) == IF age = 0 THEN 0 ELSE Min2(age + 1, bound)
HealthyTicks(i) == Ticks(healthyFor[i], HealthyCycles + 2)
StableTicks(i) == Ticks(stableFor[i], StableCycles + 1)

\* An axis without torque is taken to sag, or be pushed, away from the base.
StillBased(i, s) == based[i] /\ s = "Enabled"

\* The turn of drive i begins: it is read, and its homing goes on to h.  The
\* drive obeyed, or something befell it, or the homing could not enable it.
Reads(i, s, h) ==
    /\ turn' = (i + 1) % (NumDrives + 1)
    /\ IF s \in Answers(i) /\ (homing[i] = "enabling" => h # "no")
         THEN UNCHANGED events ELSE Event
    /\ status' = [status EXCEPT ![i] = s]
    /\ upFor' = [upFor EXCEPT ![i] =
                   IF s = "Enabled" THEN Min2(@ + 1, StableCycles + 1) ELSE 0]

-----------------------------------------------------------------------------
(* A6Drive: the enable state machine and the fault reset. *)

EnableSync(s, n) == IF s # "SwitchedOn" THEN 0 ELSE Min2(n + 1, SyncCycles)

\* The controlword stepEnableStateMachine leaves, n cycles into a sync.
EnableCmd(s, n, c) ==
    CASE s = "SwitchOnDisabled" -> "shutdown"
      [] s = "Ready" -> "switchOn"
      [] s = "SwitchedOn" -> IF n < SyncCycles THEN "switchOn" ELSE "operate"
      [] s = "Enabled" -> "operate"
      [] OTHER -> c

\* A bug: a reset has no time-out.
NextCall_NoTimeout(n) == IF n + 1 > ResetCycles THEN n ELSE n + 1

\* A call of stepFaultReset on a drive in Fault: the call's number, 0 as the
\* reset fails, and the controlword it leaves.
NextCall(n) == IF n + 1 > ResetCycles THEN 0 ELSE n + 1

ResetCmd(n, c) ==
    CASE n = 0 -> c
      [] n \in 1..ResetLow -> "zero"
      [] OTHER -> "reset"

-----------------------------------------------------------------------------
(* HomingSequence::step, as far as it steps its drive. *)

\* It enables the drive and moves it; a fault while moving, or a time-out,
\* ends it, and so does its success.
HomingSteps(i, s, h) ==
    CASE homing[i] = "no" -> h = "no"
      [] homing[i] = "enabling" -> h \in {"no", IF s = "Enabled" THEN "moving" ELSE "enabling"}
      [] OTHER -> h \in {"no"} \cup (IF s = "Fault" THEN {} ELSE {"moving"})

HomingResets(i, s) == homing[i] = "enabling" /\ s = "Fault"
HomingEnables(i, s) == homing[i] = "enabling" /\ s # "Fault"
HomingSeeds(i, s) ==
    \/ homing[i] = "enabling" /\ s = "Enabled"
    \/ homing[i] = "moving" /\ s # "Fault"

\* What the step of a homing leaves for the rest of the turn.
CallsAfterHoming(i, s) ==
    IF HomingResets(i, s) THEN NextCall(resetCalls[i]) ELSE resetCalls[i]
CmdAfterHoming(i, s) ==
    CASE HomingResets(i, s) -> ResetCmd(NextCall(resetCalls[i]), cmd[i])
      [] HomingEnables(i, s) -> EnableCmd(s, syncCount[i], cmd[i])
      [] OTHER -> cmd[i]
SyncAfterHoming(i, s) ==
    IF HomingEnables(i, s) THEN EnableSync(s, syncCount[i]) ELSE syncCount[i]

\* startHoming, refused under an e-stop.
HomeAll ==
    IF held THEN UNCHANGED <<homing, needsRehome>>
    ELSE homing' = All("enabling") /\ needsRehome' = FALSE

-----------------------------------------------------------------------------
(* The turn of a drive. *)

Sets(f, i, v) == [f EXCEPT ![i] = v]

\* A request of the surfaces to clear the drive's lockout is taken first.
Seen(i)   == faultSeen[i] /\ i \notin clearAsked
Tries(i)  == IF i \in clearAsked THEN 0 ELSE retries[i]
Locked(i) == locked[i] /\ i \notin clearAsked
Active(i) == resetActive[i] /\ i \notin clearAsked

ClocksTick(i) ==
    /\ healthyFor' = Sets(healthyFor, i, HealthyTicks(i))
    /\ stableFor' = Sets(stableFor, i, StableTicks(i))

Rebased(i, s) == based' = Sets(based, i, StillBased(i, s) \/ HomingSeeds(i, s))

\* Seeded again, or still and with or without an interruption.
Seeds(i, s, b) ==
    /\ seeded' = Sets(seeded, i, b)
    /\ dropped' = Sets(dropped, i, b /\ seeded[i] /\ (dropped[i] \/ s # "Enabled"))

\* Under an e-stop the drive is disabled and the monitor not asked.
EstopTurn(i, s) ==
    /\ estop
    /\ Reads(i, s, homing[i])
    /\ cmd' = Sets(cmd, i, "quickStop")
    /\ Seeds(i, s, FALSE)
    /\ based' = Sets(based, i, StillBased(i, s))
    /\ ClocksTick(i)
    /\ UNCHANGED <<faultSeen, retries, locked, resetActive, resetCalls, syncCount, loopVars>>

\* What every other turn begins with: the homing's step, and the request.
Asked(i, s, h) ==
    /\ ~estop
    /\ Reads(i, s, h)
    /\ HomingSteps(i, s, h)
    /\ clearAsked' = clearAsked \ {i}
    /\ UNCHANGED <<held, estop>>

\* No step of the motion controller but the homing's own.
HomingOnly(i, s, h) ==
    /\ homing' = Sets(homing, i, h)
    /\ syncCount' = Sets(syncCount, i, SyncAfterHoming(i, s))

\* A bug: a locked drive is left alone, not disabled.
LockedTurn_NotDisabled(i, s, h) ==
    /\ Locked(i)
    /\ Asked(i, s, h)
    /\ HomingOnly(i, s, h)
    /\ cmd' = Sets(cmd, i, CmdAfterHoming(i, s))
    /\ resetCalls' = Sets(resetCalls, i, CallsAfterHoming(i, s))
    /\ Seeds(i, s, seeded[i])
    /\ Rebased(i, s)
    /\ ClocksTick(i)
    /\ UNCHANGED <<faultSeen, retries, locked, resetActive, needsRehome>>

\* The lockout gate.
LockedTurn(i, s, h) ==
    /\ Locked(i)
    /\ Asked(i, s, h)
    /\ HomingOnly(i, s, h)
    /\ cmd' = Sets(cmd, i, "quickStop")
    /\ resetCalls' = Sets(resetCalls, i, CallsAfterHoming(i, s))
    /\ Seeds(i, s, seeded[i])
    /\ Rebased(i, s)
    /\ ClocksTick(i)
    /\ UNCHANGED <<faultSeen, retries, locked, resetActive, needsRehome>>

\* A bug: a fault does not ask for a rehome.
Faulted_NoRehome(i, s, h) ==
    /\ ~Locked(i)
    /\ s \in Faults
    /\ Asked(i, s, h)
    /\ HomingOnly(i, s, h)
    /\ faultSeen' = Sets(faultSeen, i, TRUE)
    /\ UNCHANGED needsRehome
    /\ Seeds(i, s, seeded[i])
    /\ Rebased(i, s)
    /\ ClocksTick(i)

\* A fault is seen: the first time, all axes park and a rehome is needed.
Faulted(i, s, h) ==
    /\ ~Locked(i)
    /\ s \in Faults
    /\ Asked(i, s, h)
    /\ HomingOnly(i, s, h)
    /\ faultSeen' = Sets(faultSeen, i, TRUE)
    /\ needsRehome' = (needsRehome \/ ~Seen(i))
    /\ Seeds(i, s, seeded[i])
    /\ Rebased(i, s)
    /\ ClocksTick(i)

ReactionTurn(i, s, h) ==
    /\ s = "FaultReaction"
    /\ Faulted(i, s, h)
    /\ retries' = Sets(retries, i, Tries(i))
    /\ locked' = Sets(locked, i, FALSE)
    /\ resetActive' = Sets(resetActive, i, Seen(i) /\ Active(i))
    /\ cmd' = Sets(cmd, i, CmdAfterHoming(i, s))
    /\ UNCHANGED resetCalls

\* The retries are used up.
LockoutTurn(i, s, h) ==
    /\ s = "Fault" /\ Tries(i) >= MaxRetries
    /\ Faulted(i, s, h)
    /\ retries' = Sets(retries, i, Tries(i))
    /\ locked' = Sets(locked, i, TRUE)
    /\ resetActive' = Sets(resetActive, i, Seen(i) /\ Active(i))
    /\ cmd' = Sets(cmd, i, "quickStop")
    /\ resetCalls' = Sets(resetCalls, i, CallsAfterHoming(i, s))

\* A reset begins, or goes on.
ResetTurn(i, s, h) ==
    /\ s = "Fault" /\ Tries(i) < MaxRetries
    /\ Faulted(i, s, h)
    /\ LET n == NextCall(CallsAfterHoming(i, s))
       IN  /\ resetCalls' = Sets(resetCalls, i, n)
           /\ resetActive' = Sets(resetActive, i, n # 0)
           /\ cmd' = Sets(cmd, i, ResetCmd(n, CmdAfterHoming(i, s)))
    /\ retries' = Sets(retries, i, IF Seen(i) /\ Active(i) THEN Tries(i) ELSE Tries(i) + 1)
    /\ locked' = Sets(locked, i, FALSE)

\* A bug: a drive that is not enabled keeps the clock running.
StableNow_KeepsRunning(i, s) ==
    IF Seen(i) /\ stableFor[i] = 0 /\ s = "Enabled" THEN 1 ELSE StableTicks(i)

\* No fault: how long the drive has been enabled since its last one ...
StableNow(i, s) ==
    IF ~Seen(i) \/ (s = "Enabled" /\ stableFor[i] # 0) THEN StableTicks(i)
    ELSE IF s = "Enabled" THEN 1 ELSE 0

\* ... long enough for the episode to be over ...
Over(i, s) == Seen(i) /\ s = "Enabled" /\ StableNow(i, s) > StableCycles

\* ... and every other one too.
AllClear(i, s) == Over(i, s) /\ \A j \in Drives \ {i} : ~faultSeen[j]

HealthyNow(i, s) == IF Over(i, s) THEN 1 ELSE HealthyTicks(i)
TriesNow(i, s) == IF HealthyNow(i, s) - 1 > HealthyCycles THEN 0 ELSE Tries(i)

FaultFree(i, s, h) ==
    /\ ~Locked(i)
    /\ s \notin Faults
    /\ Asked(i, s, h)
    /\ faultSeen' = Sets(faultSeen, i, Seen(i) /\ ~Over(i, s))
    /\ retries' = Sets(retries, i, TriesNow(i, s))
    /\ locked' = Sets(locked, i, FALSE)
    /\ resetActive' = Sets(resetActive, i, Active(i) /\ ~Over(i, s))
    /\ healthyFor' = Sets(healthyFor, i, HealthyNow(i, s))
    /\ stableFor' = Sets(stableFor, i, StableNow(i, s))
    /\ UNCHANGED resetCalls

Rehoming(i, s) == AllClear(i, s) /\ needsRehome /\ ~held

\* The last episode is over: the loop rehomes the rig.
RehomeTurn(i, s, h) ==
    /\ Rehoming(i, s)
    /\ FaultFree(i, s, h)
    /\ HomeAll
    /\ syncCount' = Sets(syncCount, i, SyncAfterHoming(i, s))
    /\ cmd' = Sets(cmd, i, CmdAfterHoming(i, s))
    /\ Seeds(i, s, FALSE)
    /\ Rebased(i, s)

\* The homing of an axis enables its drive by itself.
HomingTurn(i, s, h) ==
    /\ h # "no" /\ ~Rehoming(i, s)
    /\ FaultFree(i, s, h)
    /\ HomingOnly(i, s, h)
    /\ cmd' = Sets(cmd, i, CmdAfterHoming(i, s))
    /\ Seeds(i, s, FALSE)
    /\ Rebased(i, s)
    /\ UNCHANGED needsRehome

\* Any other drive is enabled by the loop, and follows the motion controller
\* once it is: from where the axis is, the first time.
EnableTurn(i, s) ==
    /\ ~Rehoming(i, s)
    /\ FaultFree(i, s, "no")
    /\ homing' = Sets(homing, i, "no")
    /\ LET n == SyncAfterHoming(i, s)
       IN  /\ syncCount' = Sets(syncCount, i, EnableSync(s, n))
           /\ cmd' = Sets(cmd, i, EnableCmd(s, n, CmdAfterHoming(i, s)))
    /\ Seeds(i, s, seeded[i] \/ s = "Enabled")
    /\ based' = Sets(based, i, StillBased(i, s) \/ HomingSeeds(i, s) \/ (s = "Enabled" /\ ~seeded[i]))
    /\ UNCHANGED needsRehome

Turn(i) ==
    turn = i /\ \E s \in Reports(i) :
        \/ EstopTurn(i, s)
        \/ EnableTurn(i, s)
        \/ \E h \in {"no", "enabling", "moving"} :
              \/ LockedTurn(i, s, h) \/ ReactionTurn(i, s, h)
              \/ LockoutTurn(i, s, h) \/ ResetTurn(i, s, h)
              \/ RehomeTurn(i, s, h) \/ HomingTurn(i, s, h)

-----------------------------------------------------------------------------
(* The loop around the drives, and the surfaces. *)

\* A drive in QuickStop trips the e-stop; process() samples it, and an axis
\* in its homing is stopped under it.
Process ==
    /\ turn = 0
    /\ turn' = 1
    /\ held' = (held \/ \E i \in Drives : status[i] = "QuickStop")
    /\ estop' = held'
    /\ homing' = IF held' THEN All("no") ELSE homing
    /\ UNCHANGED <<status, cmd, monVars, driveVars, needsRehome, clearAsked, events, upFor, dropped>>

\* A bug: what is seeded is not forgotten between two runs.
Restarts_KeepsSeeded ==
    /\ turn = 0
    /\ ResetMonitor
    /\ homing' = All("enabling")
    /\ needsRehome' = FALSE
    /\ estop' = FALSE
    /\ upFor' = All(0)
    /\ dropped' = All(FALSE)
    /\ clearAsked' = {}
    /\ UNCHANGED <<turn, seeded>>

\* The loop is stopped and started: a new worker, and the auto-home of its run.
Restarts ==
    /\ turn = 0
    /\ ResetMonitor
    /\ seeded' = All(FALSE)
    /\ homing' = All("enabling")
    /\ needsRehome' = FALSE
    /\ estop' = FALSE
    /\ upFor' = All(0)
    /\ dropped' = All(FALSE)
    /\ clearAsked' = {}
    /\ UNCHANGED turn

StartsAgain ==
    /\ Event
    /\ ~held
    /\ Restarts
    /\ UNCHANGED <<status, cmd, resetCalls, syncCount, based, held>>

\* The drives are initialized in between, which clears an e-stop.
InitializesAgain ==
    /\ Event
    /\ Restarts
    /\ held' = FALSE
    /\ status' = All("SwitchOnDisabled")
    /\ cmd' = All("shutdown")
    /\ resetCalls' = All(0)
    /\ syncCount' = All(0)
    /\ based' = All(FALSE)

PressEstop ==
    /\ Event
    /\ ~held
    /\ held' = TRUE
    /\ UNCHANGED <<turn, status, cmd, monVars, driveVars, homing, needsRehome, estop,
                   clearAsked, upFor, dropped>>

\* clearFaultLockout: of one drive, or of all of them.
AskClear ==
    /\ Event
    /\ \/ \E i \in Drives \ clearAsked : clearAsked' = clearAsked \cup {i}
       \/ clearAsked # Drives /\ clearAsked' = Drives
    /\ UNCHANGED <<turn, status, cmd, monVars, driveVars, homing, needsRehome, held, estop,
                   upFor, dropped>>

\* A home command of the surfaces.
AskHome ==
    /\ Event
    /\ turn = 0
    /\ HomeAll
    /\ UNCHANGED <<turn, status, cmd, monVars, driveVars, held, estop, clearAsked, upFor, dropped>>

Loop == Process \/ \E i \in Drives : Turn(i)
Surfaces == StartsAgain \/ InitializesAgain \/ PressEstop \/ AskClear \/ AskHome
Next == Loop \/ Surfaces

Spec == Init /\ [][Next]_vars

\* The loop cycles, and a homing succeeds or times out in the end.
HomingIsOver(i) == Turn(i) /\ homing[i] # "no" /\ homing'[i] = "no"

LiveSpec ==
    /\ Spec
    /\ WF_vars(Loop)
    /\ \A i \in Drives : SF_vars(HomingIsOver(i))

-----------------------------------------------------------------------------
\* The type invariant.
TypeOK ==
    /\ turn \in 0..NumDrives
    /\ status \in [Drives -> Statuses]
    /\ cmd \in [Drives -> Commands]
    /\ faultSeen \in [Drives -> BOOLEAN]
    /\ retries \in [Drives -> 0..MaxRetries]
    /\ locked \in [Drives -> BOOLEAN]
    /\ resetActive \in [Drives -> BOOLEAN]
    /\ healthyFor \in [Drives -> 0..HealthyCycles + 2]
    /\ stableFor \in [Drives -> 0..StableCycles + 1]
    /\ resetCalls \in [Drives -> 0..ResetCycles]
    /\ syncCount \in [Drives -> 0..SyncCycles]
    /\ seeded \in [Drives -> BOOLEAN]
    /\ based \in [Drives -> BOOLEAN]
    /\ homing \in [Drives -> {"no", "enabling", "moving"}]
    /\ needsRehome \in BOOLEAN
    /\ held \in BOOLEAN
    /\ estop \in BOOLEAN
    /\ clearAsked \in SUBSET Drives
    /\ events \in 0..MaxEvents
    /\ upFor \in [Drives -> 0..StableCycles + 1]
    /\ dropped \in [Drives -> BOOLEAN]

\* A drive that is locked out stays down until its lockout is cleared: it has
\* reported no enabled state since, whatever its fault does by itself, and its
\* episode keeps the rig from rehoming.
LockedIsDown == \A i \in Drives : locked[i] => status[i] # "Enabled" /\ faultSeen[i]

\* An axis is commanded from where it is: after a start, an e-stop or a
\* homing the first command of an enabled drive is based there.  (Not so for
\* a drive that dropped out and came back in between.)
NoJump ==
    \A i \in Drives :
        (seeded[i] \/ homing[i] = "moving") /\ status[i] = "Enabled" /\ ~dropped[i]
            => based[i]

\* A drive is forgiven for an episode only once it has been enabled for
\* StableCycles turns on end, whatever an earlier episode, a cleared lockout
\* or another drive left in the monitor.
StableMeansStable ==
    [][\A i \in Drives :
          faultSeen[i] /\ ~faultSeen'[i] /\ i \notin clearAsked /\ turn = i
              => upFor'[i] > StableCycles]_vars

Episodes == INSTANCE FaultEpisodes WITH
    open <- {i \in Drives : faultSeen[i]},
    owed <- needsRehome

\* The monitor, the drives and the loop's reactions to them implement the
\* episodes that ControlLoop takes for granted.
ImplementsEpisodes == Episodes!Spec

\* Once nothing more befalls the rig every drive ends up enabled and forgiven
\* or locked out, unless the e-stop holds: neither the fault of one that
\* persists nor the reset, the sync or the homing of one that recovers goes
\* on for good.
Settles ==
    \A i \in Drives :
        <>[](estop \/ locked[i] \/ (status[i] = "Enabled" /\ ~faultSeen[i]))
=============================================================================
