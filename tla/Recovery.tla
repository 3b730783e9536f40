------------------------------ MODULE Recovery ------------------------------
(***************************************************************************)
(* The recovery of slaves that fell out of OP: the control loop counts the *)
(* cycles without a valid reply and signals, at most once an interval; the *)
(* recovery thread then reads the state of every slave and takes each one  *)
(* that is not in OP a step further.                                       *)
(*                                                                         *)
(* The slaves and what reaches them are external: SOEM and the drives are  *)
(* modelled by what the scan relies on.  A slave that was without power    *)
(* has lost its station address ("blank") and answers nothing until it is  *)
(* given back.  BusThreads adds the threads this one shares the bus with.  *)
(***************************************************************************)
EXTENDS Integers

CONSTANTS
    NumSlaves,
    MaxFails,       \* kMaxRecoveryReconfigAttempts
    Threshold,      \* m_recoveryThresholdCycles
    Interval,       \* statsInterval
    MaxEvents       \* bound on what happens from outside

ASSUME SlavesAssumption == NumSlaves \in Nat \ {0} /\ MaxFails \in Nat \ {0}
ASSUME CyclesAssumption == Threshold \in Nat \ {0} /\ Interval \in Nat
ASSUME EventsAssumption == MaxEvents \in Nat

Slaves == 1..NumSlaves
ALStates == {"off", "blank", "init", "preop", "safeop", "safeerr", "op"}

VARIABLES
    al,             \* the state each slave is in
    lossy,          \* frames get lost
    state,          \* s->state: what this scan read, of the slaves still ahead
    islost,         \* the slaves with s->islost
    mbxLost,        \* those whose mbxhandlerstate is ECT_MBXH_LOST
    armed,          \* those whose SYNC0 the master armed, until it disarms it
    fails,          \* m_recoveryReconfigFails
    pending,        \* m_recoveryLostPending
    recovery,       \* the thread: off, waits, decides, reconfigs, checks, recovers
    at,             \* the slave its scan is at
    recoveryStop,   \* m_recoveryStop
    needsRecovery,  \* m_needsRecovery
    loop,           \* the control loop: "off" or "runs"
    misses,         \* m_consecutiveErrors, up to the threshold
    since,          \* cycleCount - lastRecoverySignal, up to Interval + 1
    hwEstop,        \* hwEstopActive
    events          \* what happened from outside so far

slaveVars == <<al, lossy>>
viewVars == <<state, islost, mbxLost, armed, fails, pending>>
threadVars == <<recovery, at, recoveryStop>>
loopVars == <<loop, misses, since, hwEstop>>
recoveryVars == <<slaveVars, viewVars, threadVars, needsRecovery, loopVars, events>>

Event == events < MaxEvents /\ events' = events + 1

RecoveryInit ==
    /\ al = [s \in Slaves |-> "preop"]
    /\ state = [s \in Slaves |-> "none"]
    /\ fails = [s \in Slaves |-> 0]
    /\ islost = {} /\ mbxLost = {} /\ armed = {} /\ pending = {}
    /\ recovery = "off" /\ at = 1
    /\ loop = "off" /\ misses = 0 /\ since = 0 /\ events = 0
    /\ lossy = FALSE /\ recoveryStop = FALSE /\ needsRecovery = FALSE /\ hwEstop = FALSE

RecoveryTypeOK ==
    /\ al \in [Slaves -> ALStates]
    /\ state \in [Slaves -> (ALStates \ {"off", "blank"}) \cup {"none"}]
    /\ fails \in [Slaves -> 0..MaxFails]
    /\ \A set \in {islost, mbxLost, armed, pending} : set \subseteq Slaves
    /\ recovery \in {"off", "waits", "decides", "reconfigs", "checks", "recovers"}
    /\ at \in Slaves
    /\ loop \in {"off", "runs"}
    /\ misses \in 0..Threshold /\ since \in 0..(Interval + 1) /\ events \in 0..MaxEvents
    /\ {lossy, recoveryStop, needsRecovery, hwEstop} \subseteq BOOLEAN

-----------------------------------------------------------------------------
(* The slaves and the wire. *)

Answers(s) == al[s] \notin {"off", "blank"}

\* What a state read of a slave returns.
Replies(s) ==
    (IF Answers(s) THEN {al[s]} ELSE {"none"}) \cup (IF lossy THEN {"none"} ELSE {})

\* A slave that is asked for OP from SafeOp: it goes there, unless it faults,
\* or its SYNC0 is off, or the request is lost.
Climbs(s) ==
    \/ /\ al' = [al EXCEPT ![s] = "op"]
       /\ UNCHANGED events
    \/ /\ al' = [al EXCEPT ![s] = "safeerr"]
       /\ IF s \in armed' THEN Event ELSE UNCHANGED events
    \/ /\ lossy
       /\ al' = [al EXCEPT ![s] = "safeop"]
       /\ UNCHANGED events

Falls(s) ==
    /\ al[s] = "op"
    /\ \E a \in {"safeerr", "preop"} : al' = [al EXCEPT ![s] = a]
    /\ UNCHANGED armed

LosesPower(s) ==
    /\ al[s] # "off"
    /\ al' = [al EXCEPT ![s] = "off"]
    /\ armed' = armed \ {s}

ReturnsBlank(s) ==
    /\ al[s] = "off"
    /\ al' = [al EXCEPT ![s] = "blank"]
    /\ UNCHANGED armed

\* The wire starts or stops to lose frames, a hardware e-stop comes or goes.
Disturbed ==
    /\ Event
    /\ \/ /\ \E s \in Slaves : Falls(s) \/ LosesPower(s) \/ ReturnsBlank(s)
          /\ UNCHANGED <<lossy, hwEstop>>
       \/ /\ lossy' = ~lossy
          /\ UNCHANGED <<al, armed, hwEstop>>
       \/ /\ loop = "runs" /\ hwEstop' = ~hwEstop
          /\ UNCHANGED <<al, armed, lossy>>
    /\ UNCHANGED <<state, islost, mbxLost, fails, pending, threadVars,
                   needsRecovery, loop, misses, since>>

-----------------------------------------------------------------------------
(* The control loop: WkcMonitor::check and the signal. *)

Replied == ~lossy /\ \A s \in Slaves : al[s] = "op"
Missed == IF Replied THEN 0 ELSE IF misses < Threshold THEN misses + 1 ELSE misses

\* A bug: only the cycle that begins the recovery signals.
Signals_Once == misses < Threshold /\ Missed >= Threshold /\ ~hwEstop /\ since > Interval

\* isInRecovery: set at the threshold, cleared by the next valid reply.
Signals == Missed >= Threshold /\ ~hwEstop /\ since > Interval

Cycle ==
    /\ loop = "runs"
    /\ misses' = Missed
    /\ since' = IF Signals THEN 0 ELSE IF since > Interval THEN since ELSE since + 1
    /\ needsRecovery' = (needsRecovery \/ Signals)
    /\ UNCHANGED <<slaveVars, viewVars, threadVars, loop, hwEstop, events>>

-----------------------------------------------------------------------------
(* The recovery thread. *)

\* The scan is done with slave i.
DoneWith(i) ==
    /\ state' = [state EXCEPT ![i] = "none"]
    /\ IF i < NumSlaves THEN at' = i + 1 /\ recovery' = "decides"
                        ELSE at' = 1 /\ recovery' = "waits"

\* The recovery thread takes the signal and reads all states.
ScanBegins ==
    /\ recovery = "waits" /\ ~recoveryStop
    /\ needsRecovery
    /\ needsRecovery' = FALSE
    /\ state' \in {r \in [Slaves -> UNION {Replies(s) : s \in Slaves}] :
                     \A s \in Slaves : r[s] \in Replies(s)}
    /\ recovery' = "decides"
    /\ UNCHANGED <<slaveVars, islost, mbxLost, armed, fails, pending, at,
                   recoveryStop, loopVars, events>>

\* A bug: a slave in OP is taken for one in another valid state.
InOp_Any(i) == FALSE

InOp(i) == state[i] = "op"

\* Branch 1: a SafeOp with an error is acknowledged.
Acks(i) ==
    /\ state[i] = "safeerr"
    /\ \/ al[i] = "safeerr" /\ al' = [al EXCEPT ![i] = "safeop"] /\ UNCHANGED events
       \/ (al[i] # "safeerr" \/ lossy) /\ UNCHANGED <<al, events>>
    /\ DoneWith(i)
    /\ UNCHANGED <<armed, mbxLost>>

\* Branch 2: OP is asked for.
AsksForOp(i) ==
    /\ state[i] = "safeop"
    /\ mbxLost' = mbxLost \ {i}
    /\ UNCHANGED armed
    /\ IF al[i] = "safeop" THEN Climbs(i) ELSE UNCHANGED <<al, events>>
    /\ DoneWith(i)

\* Branch 3, until the walk: the attempts are used up, or SYNC0 is disarmed.
GivenUp(i) == fails[i] >= MaxFails

Disarms(i) ==
    /\ state[i] \notin {"none", "safeerr", "safeop"}
    /\ UNCHANGED <<al, mbxLost, events>>
    /\ IF GivenUp(i) THEN DoneWith(i) /\ UNCHANGED armed
       ELSE /\ armed' = armed \ {i}
            /\ recovery' = "reconfigs"
            /\ UNCHANGED <<state, at>>

\* Branch 4: a slave that reads none and is not known as lost is checked once
\* more; one that is lost is given its address back.
NoneRead(i) ==
    /\ state[i] = "none"
    /\ recovery' = IF i \in islost THEN "recovers" ELSE "checks"
    /\ UNCHANGED <<al, mbxLost, armed, events, state, at>>

Decides ==
    /\ recovery = "decides" /\ ~recoveryStop
    /\ pending' = IF state[at] = "none" THEN pending ELSE pending \ {at}
    /\ \/ /\ InOp(at)
          /\ DoneWith(at)
          /\ UNCHANGED <<al, mbxLost, armed, events>>
       \/ /\ ~InOp(at)
          /\ Acks(at) \/ AsksForOp(at) \/ Disarms(at) \/ NoneRead(at)
    /\ UNCHANGED <<lossy, islost, fails, recoveryStop, needsRecovery, loopVars>>

\* The reconfiguration walk got the slave to SafeOp: SYNC0 is armed and OP
\* asked for.
WalkSucceeds ==
    /\ Answers(at)
    /\ armed' = armed \cup {at}
    /\ Climbs(at)
    /\ fails' = [fails EXCEPT ![at] = 0]
    /\ islost' = islost \ {at}
    /\ DoneWith(at)

\* A bug: an attempt that failed leaves SYNC0 armed again.
WalkFails_Arms ==
    /\ armed' = armed \cup {at}
    /\ fails' = [fails EXCEPT ![at] = @ + 1]
    /\ UNCHANGED <<al, events>>
    /\ DoneWith(at)
    /\ UNCHANGED islost

\* The walk failed or crashed; the slave may still come out anywhere up to
\* SafeOp.  One that is known as lost and is no further than INIT is given its
\* address back (not after a crash).
WalkFails ==
    /\ fails' = [fails EXCEPT ![at] = @ + 1]
    /\ \/ UNCHANGED <<al, events>>
       \/ /\ Answers(at)
          /\ \E a \in {"init", "preop", "safeop"} : al' = [al EXCEPT ![at] = a]
          /\ UNCHANGED events
    /\ \/ DoneWith(at)
       \/ /\ at \in islost /\ al'[at] \in {"off", "blank", "init"}
          /\ recovery' = "recovers"
          /\ UNCHANGED <<state, at>>
    /\ UNCHANGED <<armed, islost>>

Reconfigures ==
    /\ recovery = "reconfigs"
    /\ WalkSucceeds \/ WalkFails
    /\ UNCHANGED <<lossy, mbxLost, pending, recoveryStop, needsRecovery, loopVars>>

\* ecx_statecheck, and the double confirmation before a slave is marked lost.
Checks ==
    /\ recovery = "checks"
    /\ \/ /\ Replies(at) # {"none"}
          /\ DoneWith(at)
          /\ UNCHANGED <<pending, islost, mbxLost>>
       \/ /\ "none" \in Replies(at) /\ at \notin pending
          /\ pending' = pending \cup {at}
          /\ DoneWith(at)
          /\ UNCHANGED <<islost, mbxLost>>
       \/ /\ "none" \in Replies(at) /\ at \in pending
          /\ pending' = pending \ {at}
          /\ islost' = islost \cup {at}
          /\ mbxLost' = mbxLost \cup {at}
          /\ recovery' = "recovers"
          /\ UNCHANGED <<state, at>>
    /\ UNCHANGED <<slaveVars, armed, fails, recoveryStop, needsRecovery, loopVars, events>>

\* The tail: ecx_recover_slave.
Recovers ==
    /\ recovery = "recovers"
    /\ \/ /\ al[at] # "off"
          /\ al' = [al EXCEPT ![at] = IF @ = "blank" THEN "init" ELSE @]
          /\ islost' = islost \ {at}
          /\ fails' = [fails EXCEPT ![at] = 0]
       \/ /\ al[at] = "off" \/ lossy
          /\ UNCHANGED <<al, islost, fails>>
    /\ DoneWith(at)
    /\ UNCHANGED <<lossy, mbxLost, armed, pending, recoveryStop, needsRecovery, loopVars, events>>

\* The thread sees m_recoveryStop between two slaves, or between two scans.
ThreadEnds ==
    /\ recovery \in {"waits", "decides"} /\ recoveryStop
    /\ recovery' = "off" /\ at' = 1
    /\ state' = [s \in Slaves |-> "none"]
    /\ UNCHANGED <<slaveVars, islost, mbxLost, armed, fails, pending, recoveryStop,
                   needsRecovery, loopVars, events>>

RecoveryThread == ScanBegins \/ Decides \/ Reconfigures \/ Checks \/ Recovers \/ ThreadEnds

-----------------------------------------------------------------------------
(* What should hold of it. *)

\* A slave whose attempts are used up is left with its SYNC0 disarmed: a
\* wedged drive must not sit there with its sync unit firing
\* (EtherCATMaster::noteReconfigFailure).
GiveUpDisarms == recovery # "off" => \A s \in Slaves : GivenUp(s) => s \notin armed

\* The recovery of one slave never costs another its OP: whatever the scan
\* read some time ago, a slave that is in OP now is left there (doRecoveryScan
\* acts on a snapshot while walks of up to 600 ms go on).
HealthyKept ==
    [][RecoveryThread => \A s \in Slaves : al[s] = "op" => al'[s] = "op"]_recoveryVars

\* As long as the loop runs, every slave ends up in OP, without power, given
\* up, or in SafeOp with the SYNC0 that a walk which came to its end too late
\* left disarmed.
Settled(s) ==
    \/ al[s] \in {"op", "off"}
    \/ GivenUp(s)
    \/ s \notin armed /\ al[s] \in {"safeop", "safeerr"}
SlavesRecover ==
    \/ <>[](\A s \in Slaves : Settled(s))
    \/ []<>(lossy \/ hwEstop \/ loop = "off")
=============================================================================
