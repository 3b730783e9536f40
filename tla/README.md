# nullCAT in TLA+

nullCAT drives a motion rig: position-mode axes (posts that carry a seat), torque-mode
belts and torque-mode devices (a shifter, a pedal), each a servo drive on an EtherCAT bus.
A real-time loop reads a game's telemetry, runs one cycle of a motion controller and
exchanges one frame with the drives. A web server, a Qt window and a GPIO panel start and
stop it. This directory holds TLA+ modules for the parts of it whose correctness is a
matter of order: what the lifecycle of an axis allows, who may touch the bus, what an
e-stop keeps stopped.

## The system

| part | source | state it keeps | operations |
|---|---|---|---|
| Motion controller | `src/MotionController.*` | per axis a lifecycle state and a reference; the rehome and unpark latches; a command queue; the running test | the commands, `process()` once per cycle, `configure()` |
| E-stop trip | `MotionController::setEmergencyStop`, `clearEmergencyTrip` | input, trip, source, event count (atomics) | press and release from any thread; clear by an initialize |
| Control loop | `src/ControlLoop.*` | its worker's phase, stop request, fault monitor | start, stop, join, the seat pass |
| Init worker | `WebServer::start`, `MainWindow::onInitializeEtherCAT` | busy flag, requests | Initialize, Stop EtherCAT |
| EtherCAT master | `src/EtherCATMaster.*`, `BusRequest.h` | master state, the flags of the bus handover, what other threads asked | bring-up, frames, pump, shutdown, stop and fault-reset requests |
| Drive faults | `DriveFaultMonitor.*`, `A6Drive.*` | faults seen, retries, lockouts | one step per drive and cycle |
| Recovery | recovery thread of the master, `WkcMonitor.h` | lost slaves, failed attempts, which SYNC0 is armed | a signal when replies stay invalid, a scan of every slave |
| Panel | `pi/GpioPanel.*`, `EstopFilter.h` | latch, debounce, the chains of its RUN button | a poll every 10 ms |
| SDO worker | `SdoWorker.*` | the cached temperatures, the chain they are of | transfers while the loop runs |
| Command queue | `SpscQueue.h`, `enqueueCommand`, `drainCommands` | the ring's slots and two indices | push under a mutex, pop by the loop or by `configure()` |
| Commissioning | `CommissioningMode.*` | the phases of a test | armed, run, ended inside `process()` |
| Telemetry, haptics, shakers | `TelemetryInput.*`, `Haptics*`, `Shaker*` | last frame, effects | parse, synthesize |
| Settings | the saves and applies of `WebServer.cpp`, `Config.cpp`, `HapticsIdleClock.h`, the live-apply of `MotionController` | `rig.json`, its generation, the pill, the stages | save, apply, stage, take, reload |
| Configuration, cars, status, windows, dashboard | the rest | files and views | read, write, show |

How they interact. The surfaces (web routes, window, panel) call three things: the motion
controller's lock-free command queue and its e-stop atomics; the loop's start and stop;
the init worker's two requests. The loop's worker thread is the one consumer of the queue
and the one caller of `process()`; while it does not run, the init worker calls
`configure()` and `clearEmergencyTrip()`. One thread at a time writes the drives' process
data: the worker, the dispatch thread (a bridge of ten frames, then the pump) or the init
worker; the others ask through a `BusRequest`.

What makes it correct, part by part. Motion controller: no axis moves without a
reference; nothing moves under an e-stop, and an e-stop settles; a belt or a device is
moved by its own commands only; the rig unparks as one. Trip: no e-stop is lost to an
initialize that began before it. Loop: a stop ends it with the rig parked; every run homes
anew; a fault parks and rehomes. Lifecycle: an initialize leaves nothing to run by itself.
Bus: one owner, no stop lost, resting drives held, no handover that hangs. Drive faults: a
fault parks and rehomes the rig, once, when every drive is well; a drive is reset a bounded
number of times; one that is locked out stays down. Recovery: a slave is recovered or given
up with its sync unit off, a healthy one is left alone, and no thread is in the context when
it is closed. Panel: nothing starts that nobody asked for any more; an open mushroom wins.
Settings: what plays is what was saved, or somebody is told that it does not play yet.
Queue: a bounded FIFO whose consumer is never overrun.

What is hard about it: atomics read and written one by one by several threads; commands
that arrive between any two steps, in any order; one of several axes failing; a start, a
stop, an initialize and a de-init overlapping; drives that fault, come back or fault again while
another is being reset, homed or locked out; a panel that acts on a status read a poll
earlier; pages that save old copies of a file; staged settings that are taken at another
time, by another thread, under another order of the axes; and encoders that are
incremental, so that a reference is only good for one run.

## The modules

| module | models | read with |
|---|---|---|
| `EstopLatch` | what the trip promises: it goes only through an initialize begun after the last e-stop; what `ControlLoop` and `Panel` take a press and a clear to be | |
| `EstopTrip` | `setEmergencyStop` and `clearEmergencyTrip`, one atomic access per step, any number of callers and initializers | `EstopTrip_proof` |
| `MotionController` | the commands and one cycle of `process()`, phase by phase | `MC_MotionController`, `ControlLoop_proof` |
| `ControlLoop` | extends `MotionController` with the worker's run, drive faults, lifecycle buttons and the init worker | `MC_ControlLoop`, `ControlLoop_proof` |
| `BusOwnership` | the bus handover between worker, dispatch thread and init worker, one flag per step (Linux build) | `BusOwnership_proof` |
| `FaultEpisodes` | what the fault handling promises the loop: episodes that open and close, a rehome owed; kept by `ControlLoop` too | |
| `DriveFaults` | `DriveFaultMonitor`, the enable state machine and fault reset of `A6Drive`, the loop's turn of each drive, and the homing's steps of its drive | `DriveFaults_proof` |
| `Panel` | the GPIO panel's poll, filter and chains beside the web routes, the init worker and the loop | `Panel_proof` |
| `Recovery` | the working counter's monitor, the signal, the scan of the recovery thread; slaves and wire external | |
| `BusThreads` | extends `Recovery` with the SDO worker and the init worker that starts, joins and closes | `BusThreads_proof` |
| `Settings` | `rig.json`, its writers, and the three ways a save reaches the running rig | `Settings_proof` |
| `CommandFifo` | what the command queue promises: a bounded FIFO | |
| `CommandRing` | the ring's loads and stores, its producers' mutex and its two consumers | `CommandRing_proof` |

**EstopTrip.** A caller's `pc` walks the four atomics of a press (count, input, trip, name)
or does a release; an initializer reads the event count, and later walks the checks, the
exchange, the re-checks and the restore of the clear. `EstopLatch` has one variable
`stopped` and a clear as one step; the refinement mapping reads it off the atomics: stopped
is an input that is held, a trip that is set, a press between its count and its exchange, or
a clear between its exchange and the end of its re-checks (or its restore). In that last
window the atomics read "not tripped" for a moment; whoever looks then sees the rig free, and
the mapping says only that the trip is back when the window closes. Deleting either re-check
or the restore breaks the refinement. Deleting the check before the exchange, of the input or
of the events, does not: the re-check repeats it, and it only keeps a clear that is bound to
fail from opening the window.

**MotionController.** `state[i]` is `AxisMotionState`, `homed[i]` the axis's reference,
`unparkDone` is `m_homingUnparkDone`, `sampled` the e-stop as this cycle read it. `rt` is
where `process()` is: a cycle begins (`BeginCycle`), drains the queue one command at a time
(`Pop...`, `EndDrain`), serves a test (`StartTest`, `NoTest`, `RunTest`, `EndTest`), samples
the e-stop and steps every axis (`SampleEstop`, `StepAxes`), and looks at the auto-unpark
(`AutoUnpark`). Between any two phases the surfaces act (`Enqueue`, `PressEstop`, ...). How
long a ramp, a blend or a search takes is a free choice in `StepAxes`.

**ControlLoop.** `loop` is the phase of `ControlLoopWorker::run`, `initPc` that of the init
worker. `carried`, `parkCmd` and `pressed` are history variables: which axes carry a
reference from before this run, whether the park loop took a command, whether an e-stop
came since the init began (what the event count of `EstopTrip` tells). Every step is a `MotionController` step or leaves its
variables alone. With `Patient` a lifecycle button is pressed only when the transition
before it is over; without, at any time. Two things stay out: a start while a seat pass
runs, which joins the same thread twice (undefined), and `configure()` in the middle of a
cycle, which needs a start between the init's check of the loop and its configure.

**BusOwnership.** `pc[t]` is where each of the three threads is; `AskPumpToStop`,
`AwaitDispatch` and `PumpIsStopped` are `stopPump`, `ChecksPump` and `PostsPump` are
`startPump`, written once and called by the worker and by the init worker. `enabled` is
what the controlwords in the process data say; every frame of an owner first carries out
a stop that was asked (`Sends`). A start is accepted whenever the master says OP, as in the
code, whatever the init worker does. `early` is history: a start and the init worker have
crossed (a start while the init worker was at work, an initialize while a worker was, a
de-init while one was starting) and no shutdown since has found the worker gone. What is said
of the handover is said of all the rest; `bus_two_owners` shows what the crossing does.

**DriveFaults.** A cycle is `Process` and then one `Turn` of every drive, in order, as the
loop's `for` does it; the surfaces act in between. A turn reads what the drive reports now
(`Reports`, the external DS402 drive: it obeyed its controlword or something befell it),
lets a homing step the drive, and takes one branch of the monitor: `LockedTurn`,
`ReactionTurn`, `LockoutTurn`, `ResetTurn`, or without a fault `RehomeTurn`, `HomingTurn`,
`EnableTurn`; under an e-stop `EstopTurn`. The variables carry the names of the monitor's
arrays; its two time stamps are ages in cycles (0: not set), capped just past what they are
compared with. `upFor` and `dropped` are history: how long a drive has really been enabled,
and whether it left its enabled state since it was seeded. `FaultEpisodes` is the
abstraction: the set of drives with `m_faultSeen`, and `needsRehome`. `Opens`, `Closes` and
`Reopens` are what `ControlLoop` takes for granted as `DriveFault`, `FaultClears` and
`LockoutCleared` over the one flag it keeps for all drives. Left out: the branch of
`stepFaultReset` that finds the fault gone within the same cycle, with its reseed of the
position. A drive on the bus cannot take it, because the process image is exchanged once a
cycle and the monitor calls it only for a drive it has just read in Fault; the mock drive of
the unit tests does. All axes are position axes here; a belt has no homing of its own.

**Panel.** A poll is two steps, `Read` and `Act`: in between the status it read (`st`) grows
old. `Act` is the whole of the poll's body, with the filter (`Filter`, `PanelEstop`), the
press of RUN (`RunCall`), the chained start (`ChainStarts`, `ChainDrops`) and the
re-initialize (`stage`, `StepsOn`, `ReinitOver`). The lifecycle it watches is that of
`ControlLoop`, coarser: an e-stop is one step, and the loop is off, starting, on or ending;
`isInitialized` and `isOperational` are one flag. `wish`, `seen` and `late` are history.
`wish` is the loop RUN has asked for: "none" once an e-stop, a RUN to stop or to re-initialize,
or an init that two polls saw end without OP has come after it; "lapsed" once an init failed or
the web stopped the loop, whether or not a poll could see it; else "alive". `seen`: a poll has
read the status since the init began (an init that reaches OP takes seconds, a poll 10 ms).
`late`: a start came that the de-init under way did not see running. A RUN that is refused an
init because another surface's is under way rests on that one: a single RUN from offline means
"make it run" (`GpioPanel.cpp:304`), and an init is an init.

**Recovery** and **BusThreads.** `al[s]` is the state a slave is really in, `state[s]` what
the scan read of it (a snapshot that ages while the scan walks), `islost`, `mbxLost`, `armed`
and `fails` what the master notes. `recovery` walks the thread: it waits, decides, and takes
each slave through one of the four branches of `recoverLostSlaves`. A slave that lost power is
"blank" until it is given its address back. `BusThreads` adds `sdo`, the worker that reads
temperatures through the context the loop serves, and `worker`, which opens the context,
starts the threads, and joins them before it closes it. Left out: the pump (it is in
`BusOwnership`), the seat pass, and submitted SDO operations (no code submits any).

**Settings.** Every writer of `rig.json` runs under `m_profilesIo` and is one step, but for
the sender's engine, which bumps the generation after it lets go of the lock (`sender`). A
page holds the revision it loaded and the generation it sends. `beltStage` and `hapStage` are
what is staged; the loop, or the idle clock, takes them. An Initialize reloads under the lock
(`init = "reloaded"`) and configures outside it. `rev`, `unread` and `outdone` are history.
Left out: hand edits of the file, a device's feel settings, the shakers' shaping.

**CommandRing.** `pushPc[s]` and `popPc` are where a surface is in `enqueueCommand` and the
consumer in `pop`; each load or store of an index or a slot is a step, sequentially
consistent (the release and acquire pairs of `SpscQueue.h` give no less on one producer and
one consumer). `Content` is the mapping to `CommandFifo`: what lies between the indices.

## The runs

| run | shows | instance |
|---|---|---|
| `estop_trip` | the atomics implement `EstopLatch`: no e-stop is lost to an initialize | 2 callers, 2 initializers, 3 events |
| `motion_rig` | no axis is live without a reference, nothing starts or goes on under an e-stop, belts and devices move on their own commands, the posts unpark as one, homed alone or together or failing | two posts (symmetric), belt, shifter; every command; queue of 1 |
| `loop_rig` | a stop parks the rig and always ends the loop, a start finds fresh references, an e-stop that holds brings the axis to rest | post, lifecycle buttons at any time (not `Patient`) |
| `bus_handover` | but for a start that crosses the init worker: one owner and no stop lost, stops served, resting drives held, handovers end | bridge of 2 frames |
| `drive_faults` | the monitor and the loop implement `FaultEpisodes`; a locked drive stays down, a rehome waits for every drive, no drive is forgiven early, none is commanded from a stale base after a start, an e-stop or a homing, and all settle | 2 drives, 3 events |
| `panel` | the panel starts only for a RUN that nothing it could see has come after, its latch follows the mushroom and holds the trip, its re-initialize ends, a de-init closes the bus once the loop is off | 2 reads to engage and to release, 3 polls of time-out, 6 events |
| `bus_threads` | nobody on a closed context, no stale temperature, a slave given up is disarmed, a healthy one untouched, each is recovered or given up, every teardown ends | 2 slaves, 2 attempts, 4 events |
| `settings` | a belt plays its own shapes, whoever saved is told what does not play, a stale page is refused, what is staged lands | 1 page beside scripts and the controller, 3 rewrites |
| `command_ring` | the ring implements `CommandFifo`, what an Initialize discards does not run, a full ring is room again | 4 slots, 2 surfaces, 2 commands |
| `loop_rehome` | violated: a fault while homing ends in an unpark with the rehome pending | one post |
| `bus_two_owners` | violated: a start between OP and the pump's post has the bridge and the loop write process data together | as `bus_handover` |
| `panel_unasked` | violated: a RUN whose init fails within one poll has a later Initialize start the loop | as `panel` |

The last three check a sentence the code's log or its comments say of it (quoted in
`PROJECT.json` under `findings`) and fail with the trace of what the code does instead. What
they refute is a step or a state, not an eventuality. The type invariants are proved and not run.
So are `EstopKept`, `DrivesMotion`, `KindKeepsToItsStates`, `SlotsApart`, `LatchDropsChains`,
`ClearedAtRest`, `KeepsEpisodes`, the `KeepsLatch` of `ControlLoop` and of `Panel`, and the
measures below (`WaitsAreShort`, `JoinsAreShort`, `ReinitIsShort`, `OnlyComesDown`).

Bounds. `QueueCap` stands for the 31 commands the ring holds: one is enough for a full
queue, a drop, and a command that waits across any other step, and commands are
independent of each other once popped. Two posts are what the auto-unpark needs, one belt and
one device what their own commands need, since axes of those kinds do not meet; the posts are
symmetric (no definition tells them apart, and no property of that run is a liveness one). The
loop adds nothing per axis, so one post runs under it: that a belt or a device settles under an
e-stop rests on `NothingStartsUnderEstop`, its fall in `Height`, alone. `MaxEvents` (e-stops counted) is
one more than the initializers, so that an event can fall before, between and after two
inits. `BridgeFrames` is 2 instead of 10: a first and a last.

`DriveFaults` scales the code's times (5 retries, 100 stable and 500 healthy cycles, a reset
of 100 calls, a sync of 10 cycles) down to one or two, which keeps every comparison both
ways. `ResetCycles` must be even, as the 100 of the code: a homing steps the reset once and the
monitor once more in a cycle, and with an odd bound the homing would always be the one to
take the time-out. `MaxEvents` bounds what happens to the rig (faults, losses of power or
frames, late answers, homing time-outs, buttons, requests): three allow a fault of each
drive and a third event at any point of either episode. What the drives do by themselves
afterwards is not bounded.

`Panel` scales 50 reads of a release to 2 and the 6000 polls of the re-initialize's minute to
3, so that it may give up before, during and after any step; 6 events let the mushroom open,
close and open again around a RUN and two calls of the web. `BusThreads` has a second slave
so that the scan's snapshot ages while it walks the first; `Threshold`, `Interval` and
`MaxFails` are small but at least what makes "not yet" and "too often" different. `Settings`
has one page because two stale pages do not meet: what outdates a page is any other writer.
`CommandRing` has 4 slots, three of them usable: a full ring, a wrap and a discard that leaves
the indices anywhere.

Fairness. `ControlLoop`'s `LiveSpec` schedules the real-time thread weakly (it is a
`SCHED_FIFO` thread that loops) and lets what it times elapse, strongly, because a command
may put an axis back into a timed state before the timer is over (`TimerElapses`,
`TestEnds`, the park loop's 8 s in `LoopStops`). Nothing is fair about the surfaces,
faults or presses; `StopEnds` assumes that they let a drain of the queue end. In
`DriveFaults` the loop is weakly fair, and a homing ends, by success or by its time-out (`HomingIsOver`, strongly, because a rehome or
a command may begin the next one). In
`BusOwnership` each thread is weakly fair; a frame of an owner is strongly fair, which
leaves out surfaces that start and stop the loop for good before any owner's first frame; and a
loop that a de-init asks to stop gives the bus up.
In `Panel` the poll, the loop and the init worker go on, people need not. In `BusThreads` the
loop cycles, the recovery thread, the SDO worker and the init worker are weakly fair, and a
loop the init worker stopped ends; slaves and wire are not: `SlavesRecover` speaks of what
stays up and of frames that stop getting lost. In `Settings` the takers of a stage, the
configure that follows a reload and the sender's bump; nobody has to save. In `CommandRing` the
consumer drains, and a surface that has begun to push goes on (it holds a mutex over four
instructions). `BusThreads` switches TLC's deadlock check off: with its events spent and
nothing lost, the rig may rest.

## The proofs

| module | proved for every value of the constants |
|---|---|
| `EstopTrip_proof` | `TypeOK`, `EstopKept`, and that `EstopTrip` implements `EstopLatch` (`ImplementsLatch`) |
| `ControlLoop_proof` | of `MotionController`: `MotionTypeOK`, `LiveIsHomed`, `KindKeepsToItsStates`, `StoppedUnderEstop`, `NothingStartsUnderEstop`, `OneTrigger`, `RigUnparksTogether` |
| | of `ControlLoop`: every step is a `MotionController` step or a stutter (`DrivesMotion`), so all of the above holds of the composition (`LoopInherits`); `TypeOK`, `FreshReference`, `KeepsLatch`, `KeepsEpisodes`; under `Patient` also `StopsParked`, `ClearedAtRest` and `OnlyComesDown` |
| `BusOwnership_proof` | `TypeOK`, `OwnersTakeTurns`, `StopKept` and `WaitsAreShort` |
| `DriveFaults_proof` | `TypeOK`, `LockedIsDown`, `NoJump`, `StableMeansStable`, and that `DriveFaults` implements `FaultEpisodes`, for any number of drives |
| `Panel_proof` | `TypeOK`, `LatchDropsChains`, `StartsOnlyAsked`, `BusClosesAlone`, `KeepsLatch`, `ReinitIsShort` |
| `BusThreads_proof` | `TypeOK`, `ContextAlive`, `FreshTemps`, `GiveUpDisarms`, `HealthyKept`, `JoinsAreShort`, for any number of slaves |
| `Settings_proof` | `TypeOK`, `BeltKeepsItsOwn`, `PillTells`, `HapticsTold`, `StaleRefused`, for any pages and any number of rewrites |
| `CommandRing_proof` | `TypeOK`, `SlotsApart`, `OldDiscarded`, and that the ring implements `CommandFifo`, for any size and any surfaces |

Assumptions: the kinds of axes are disjoint, the commands and test plans are of their types,
"nothing staged" is told apart from what may be staged, bounds are numbers (`...Assumption` in
the modules). `Patient` is a hypothesis where it is named: a lifecycle button is pressed once the
last one's transition is over. It is `ControlLoop`'s alone. `ClearedAtRest` fails without it, by
a start that meets an initialize; `StopsParked` holds without it on the instance of `loop_rig`,
but its invariant rests on it.

*The trip.* Two facts, for any number of threads. `EstopKept` (some e-stop was counted after
every granted initialize began, so the trip is set or about to be) ties each initializer's
position to what it read: past its checks no event had come, and past the exchange either no
event came since or its own re-check is still ahead and will put the trip back. `TripInv`, which
the refinement rests on: an input that is held has its trip set, on its way, or taken by a clear
that has yet to look at the input again. The step that matters is the one that ends a re-check:
the abstract latch lets `stopped` go only for an initialize no e-stop has come after, which is
what the re-checks have just found.

*The motion controller.* `LiveIsHomed` needs `KindKeepsToItsStates` (a belt counts as homed
and so may be live) and the test's own conjunct: an axis tests only in the running plan.
`StoppedUnderEstop` needs that a cycle that sampled the e-stop has stepped
every axis down. `NothingStartsUnderEstop` orders the states by how far they are from rest
(`Height`) and says that under an e-stop an axis only goes down in that order. Each proof has
a step per action and, under it, one per conjunct the action can disturb.

*The loop.* `RunInv`: a cycle runs only inside a run; a loop that is off has its rehome
pending, so a start homes or is under a trip; and a trip is not cleared while a loop runs.
`FreshReference` follows. `LifeInv` (under `Patient`) keeps the loop out of an init, so that
what `configure()` reseated is still so when the trip is cleared. For `StopsParked`, `StopInv`
says that what is stopping for an e-stop has its trip, and `ParkInv` that the park loop meets
only what is coming down and that the auto-unpark cannot fire in it.

*One step for many.* `ControlLoop` and `Panel` take a press or a clear of the trip as one step,
and `ControlLoop` keeps one flag for every drive's fault. The justification is two-sided: the
fine module is proved to implement an abstract contract (`EstopTrip` implements `EstopLatch`,
`DriveFaults` implements `FaultEpisodes`), and the coarse one is proved to keep the same contract
around all else that it does (`KeepsLatch`, `KeepsEpisodes`).

*The bus.* `BusInv` holds of every behaviour: OP needs an initialized master, and the dispatch
thread ends only when told and is joined before the bus closes. `OwnerInv` holds while no start
has crossed the init worker (`early`): the init worker brings the bus up or down only over a loop
that is gone, a dispatch is posted only by the owner that leaves and to a thread that rests (so
who has awaited the last one meets no other), and only a frame enables drives. A shutdown that
finds the worker gone restores all of it (`DisablesSettles`).

*The drives.* `DownInv`: a locked-out drive has its fault seen, reports no enabled state and
is sent no controlword that enables it. `EstopInv` and `BaseInv`: no homing runs under an
e-stop; what was seeded without a break since is enabled and has its base. `ClockInv`: in an
episode the stable time of an enabled drive is no longer than it has really been enabled.
The refinement maps the faults seen to the open episodes.

*The panel.* `StartsOnlyAsked` needs `ChainInv`: a chain whose RUN was revoked stands only
where the panel is bound to notice: this poll read the e-stop, or an init over without OP that
the last one saw at work, or the trip holds and no init clears it before a poll has read it. `BusClosesAlone` needs `AloneInv`: past
the join the loop is off unless a start came after it.

*The threads.* `LifeInv` ties what the init worker has joined so far to who may be in the
context; `TempsInv`: what was read from a chain that is gone is dropped before the next
opens; `GiveUpInv`: the walk that uses up the last attempt began with SYNC0 disarmed;
`AheadInv`: whatever the scan read of a slave ahead, if it was not OP the slave is in no OP
now, since only the scan and an initialize, which has joined the scan, take one there.

*The ring.* `RingInv`: surfaces take turns, one that found room still has it and its copy of
the write index is the index, and the consumer copies a command that is there and has it
until it frees the slot. `Content` after a publish is an `Append`, after a freed slot a `Tail`.

*The settings.* `BeltInv`: unless the pill is lit the Config's belts are the file's, and what is
staged fits the Config's belts, which out of an init are those that run. `ToldInv` and
`HapticsInv`: what is staged is the file's; where nothing is, what runs is, but for the pill and
the exceptions named below. `PageInv`: a page whose generation is current has read the current
file, once the sender's bump is over.

*Measures.* Liveness is out of the prover's reach, but not what it rests on: that the steps
which are to happen bring the end nearer and that no other step takes it away again. These are
action properties, proved for every value of the constants; what TLC adds on a small instance
is that the fairness makes those steps happen. `Height` falls under an e-stop (for
`EstopSettles`) and from the loop's exit on (`OnlyComesDown`, for `StopEnds`); `StepsLeft` falls
while a handover waits for the dispatch thread (`WaitsAreShort`, for `HandoversEnd`); `SdoLeft`
and `ScanLeft` while the init worker joins (`JoinsAreShort`, for `TeardownEnds`); `PollsLeft` with
each poll of the panel (`ReinitIsShort`, for `ReinitEnds`).

Left to TLC: the liveness properties themselves (`EstopSettles`, `StopEnds`, `StopServed`,
`PumpHolds`, `HandoversEnd`, `Settles`, `LatchFollows`, `ReinitEnds`, `SlavesRecover`,
`TeardownEnds`, `SavesLand`, `RoomAgain`), because fairness speaks of `ENABLED`. Every other
property of a passing run is a theorem. No recursive operator is used, and nothing is proved by
induction over data.

## Known divergences

Where the code does not do what it, or a document beside it, says. The first three are runs; the
others were met while modelling, and the models are of what the code does.

- `loop_rehome`: a drive fault logs "parking all axes, rehome required"
  (`src/ControlLoop.cpp:762`), yet an axis in its homing goes on and the rig then unparks.
- `bus_two_owners`: a start between the master's OP and the init worker's `startPump`
  (`EtherCATMaster.cpp:2384`) gives the bus two owners, against `EtherCATMaster.h:125`. The same
  crossing can post the dispatch twice, so that a `stopPump` waits for the first dispatch while the
  second comes to its pump, and leaves `m_pumpActive` set with no pump behind it: `startPump` then
  posts no other until the next `stopPump`. `PumpHolds` excepts that (`early`).
- `panel_unasked`: the panel's RUN chain stays armed when an initialize fails within one poll
  (`GpioPanel.cpp:318`), or when the web stops a loop the chain has not yet seen running, against
  `GpioPanel.cpp:304`; a later Initialize then starts the loop.
- `configure()` drains the queue before the trip is cleared (`MotionController.cpp:107`): a
  command queued in between runs at the next start, against `Docs/COMMAND_CONTRACT.md:126`.
  `OldDiscarded` is about those queued before.
- Homing one device clears `m_homingUnparkDone` (`MotionController.cpp:721`) and so re-arms the
  auto-unpark of the rig, against `Docs/COMMAND_CONTRACT.md:154`.
- A start between the de-init's look at the loop and its shutdown runs on into the closing of
  the bus (`EtherCATMaster.cpp:3478`): `BusClosesAlone` must except it (`late`). A start pressed
  while the last worker is still starting joins it first.
- The retries of a drive are restored in the middle of an episode: `m_healthyCycle` outlives
  the one before (`DriveFaultMonitor.cpp:155`).
- `m_prevEstopState` outlives a run of the loop: a trip cleared and pressed again between two
  runs has no rising edge, and the homing of the start goes on under it.
- `requestInit` checks and sets its busy flag in two steps (`WebServer.cpp:856`); here it is one.
- A healthy answer in the recovery's last branch does not clear the pending loss
  (`EtherCATMaster.h:424`); its third leaves the mailbox handler of a falsely lost slave in
  LOST, so its temperature reads time out until an Initialize; and a slave that reaches SafeOp
  after a failed walk is asked for OP with its SYNC0 off, without a cap.
- Haptics saved between the reload of `rig.json` and the configure, and already taken by the
  idle clock, are put back by the configure (`WebServer.cpp:1508`); `HapticsTold` excepts that
  (`outdone`). A reload that fails reverts belt shapes applied live (`unread`).
- `senderCarFacts` moves the generation after it unlocks (`WebServer.cpp:3092`): `StaleRefused`
  excepts that window.
- `applyPendingDeviceParams` clears its mask outside its lock (`MotionController.cpp:1402`), and a
  device's stage is by file index even while an Initialize is pending.

## Not modelled, and the plan

Of the drive faults: the release of the input that a QuickStop pressed (`hwEstopWasSoftware`,
`ControlLoop.cpp:907`), the reseed described above, and a drive that comes back without one
(`ControlLoop.cpp:725`). Of the park loop: the torques it does not send (`ControlLoop.cpp:1058`).
Positions, torques and curves; the haptics laws; telemetry parsing; files; pages: they are
arithmetic over reals, a sound card or I/O, and the repository's unit tests pin them.

Next, in this order:

1. Homing stages (`HomingSequence.h`: enable, settle, search, back off, and their time-outs)
   against an end stop, and the seat pass over several of them.
2. Commissioning phases, and the telemetry standby.
3. The live-apply of device settings, and the idle clock's handover of the haptics layer.
4. As theorems: the measures behind `Settles`, `SlavesRecover` and `PumpHolds`; and an abstract
   contract of the bus handover, which `ControlLoop` and `Panel` could then be shown to keep, as
   they keep that of the trip.
