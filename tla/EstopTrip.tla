----------------------------- MODULE EstopTrip ------------------------------
(***************************************************************************)
(* The e-stop of MotionController as the atomics it is made of.  Any       *)
(* thread may trip it (setEmergencyStop) while another, which has just     *)
(* re-initialized the drives, clears the trip (clearEmergencyTrip).  Each  *)
(* atomic access of the two functions is a step of its own, so every       *)
(* interleaving of presses, releases and clears is explored.               *)
(***************************************************************************)
EXTENDS Integers

CONSTANTS
    Callers,        \* threads that press and release the e-stop
    Inits,          \* threads that initialize the drives, then clear the trip
    NoSource,       \* EstopSource::None
    MaxEvents       \* bound on the presses of a behaviour

ASSUME BoundAssumption == MaxEvents \in Nat
ASSUME SourceAssumption == NoSource \notin Callers

VARIABLES
    input,          \* m_emergencyStop: the e-stop input, held
    tripped,        \* m_estopTripped
    events,         \* m_estopEvents
    tripSource,     \* m_estopTripSource: the caller that tripped it
    callPc,         \* where each caller is in setEmergencyStop(true)
    initPc,         \* where each initializer is in its initialize and clear
    eventsAtInit,   \* eventsAtInitStart of each initializer
    cleared         \* history: the largest eventsAtInitStart a clear granted

callerVars == <<input, callPc>>
initVars   == <<initPc, eventsAtInit, cleared>>
vars == <<input, tripped, events, tripSource, callPc, initPc, eventsAtInit, cleared>>

Max2(a, b) == IF a >= b THEN a ELSE b

Init ==
    /\ input = FALSE
    /\ tripped = FALSE
    /\ events = 0
    /\ tripSource = NoSource
    /\ callPc = [c \in Callers |-> "idle"]
    /\ initPc = [i \in Inits |-> "idle"]
    /\ eventsAtInit = [i \in Inits |-> 0]
    /\ cleared = 0

CallStep(c, from, to) ==
    /\ callPc[c] = from
    /\ callPc' = [callPc EXCEPT ![c] = to]

InitStep(i, from, to) ==
    /\ initPc[i] = from
    /\ initPc' = [initPc EXCEPT ![i] = to]

-----------------------------------------------------------------------------
\* setEmergencyStop(true): the count, then the input, then the trip.

PressCount(c) ==
    /\ events < MaxEvents
    /\ CallStep(c, "idle", "input")
    /\ events' = events + 1
    /\ UNCHANGED <<input, tripped, tripSource, initVars>>

PressInput(c) ==
    /\ CallStep(c, "input", "trip")
    /\ input' = TRUE
    /\ UNCHANGED <<tripped, events, tripSource, initVars>>

\* The exchange: only the press that finds no trip names its source.
PressTrip(c) ==
    /\ CallStep(c, "trip", IF tripped THEN "idle" ELSE "name")
    /\ tripped' = TRUE
    /\ UNCHANGED <<input, events, tripSource, initVars>>

PressName(c) ==
    /\ CallStep(c, "name", "idle")
    /\ tripSource' = c
    /\ UNCHANGED <<input, tripped, events, initVars>>

\* setEmergencyStop(false), from any source: the one input is released,
\* whoever pressed it; the trip is left alone.
Release(c) ==
    /\ callPc[c] = "idle"
    /\ input' = FALSE
    /\ UNCHANGED <<tripped, events, tripSource, callPc, initVars>>

-----------------------------------------------------------------------------

\* The init worker: the count is read as the initialize begins ...
BeginInit(i) ==
    /\ InitStep(i, "idle", "initializing")
    /\ eventsAtInit' = [eventsAtInit EXCEPT ![i] = events]
    /\ UNCHANGED <<tripped, events, tripSource, cleared, callerVars>>

\* ... and a failed initialize, or a running loop, leaves the trip alone.
EndInit(i) ==
    /\ \E next \in {"held", "idle"} : InitStep(i, "initializing", next)
    /\ UNCHANGED <<tripped, events, tripSource, eventsAtInit, cleared, callerVars>>

\* clearEmergencyTrip: refused while the input is held ...
CheckInput(i) ==
    /\ InitStep(i, "held", IF input THEN "idle" ELSE "moved")
    /\ UNCHANGED <<tripped, events, tripSource, eventsAtInit, cleared, callerVars>>

\* ... and when an e-stop came after the initialize began.
CheckEvents(i) ==
    /\ InitStep(i, "moved", IF events # eventsAtInit[i] THEN "idle" ELSE "exchange")
    /\ UNCHANGED <<tripped, events, tripSource, eventsAtInit, cleared, callerVars>>

Granted(i) == cleared' = Max2(cleared, eventsAtInit[i])

ClearExchange(i) ==
    /\ InitStep(i, "exchange", IF tripped THEN "heldAgain" ELSE "idle")
    /\ tripped' = FALSE
    /\ IF tripped THEN UNCHANGED cleared ELSE Granted(i)
    /\ UNCHANGED <<events, tripSource, eventsAtInit, callerVars>>

RecheckInput(i) ==
    /\ InitStep(i, "heldAgain", IF input THEN "restore" ELSE "movedAgain")
    /\ UNCHANGED <<tripped, events, tripSource, eventsAtInit, cleared, callerVars>>

\* A bug: an e-stop that landed during the clear is not looked for.
RecheckEvents_Not(i) ==
    /\ InitStep(i, "movedAgain", "unname")
    /\ Granted(i)
    /\ UNCHANGED <<tripped, events, tripSource, eventsAtInit, callerVars>>

RecheckEvents(i) ==
    /\ IF events # eventsAtInit[i]
         THEN InitStep(i, "movedAgain", "restore") /\ UNCHANGED cleared
         ELSE InitStep(i, "movedAgain", "unname") /\ Granted(i)
    /\ UNCHANGED <<tripped, events, tripSource, eventsAtInit, callerVars>>

\* An e-stop that landed during the clear keeps the trip.
RestoreTrip(i) ==
    /\ InitStep(i, "restore", "idle")
    /\ tripped' = TRUE
    /\ UNCHANGED <<events, tripSource, eventsAtInit, cleared, callerVars>>

ForgetSource(i) ==
    /\ InitStep(i, "unname", "idle")
    /\ tripSource' = NoSource
    /\ UNCHANGED <<tripped, events, eventsAtInit, cleared, callerVars>>

-----------------------------------------------------------------------------
CallerNext(c) ==
    PressCount(c) \/ PressInput(c) \/ PressTrip(c) \/ PressName(c) \/ Release(c)

ClearNext(i) ==
    \/ CheckInput(i) \/ CheckEvents(i) \/ ClearExchange(i)
    \/ RecheckInput(i) \/ RecheckEvents(i) \/ RestoreTrip(i) \/ ForgetSource(i)

InitNext(i) == BeginInit(i) \/ EndInit(i) \/ ClearNext(i)

Next == (\E c \in Callers : CallerNext(c)) \/ (\E i \in Inits : InitNext(i))

Spec == Init /\ [][Next]_vars

-----------------------------------------------------------------------------
CallStates == {"idle", "input", "trip", "name"}
InitStates == {"idle", "initializing", "held", "moved", "exchange", "heldAgain",
               "movedAgain", "restore", "unname"}

\* The type invariant of the e-stop's atomics and of the two functions' steps.
TypeOK ==
    /\ input \in BOOLEAN
    /\ tripped \in BOOLEAN
    /\ events \in Nat
    /\ tripSource \in Callers \cup {NoSource}
    /\ callPc \in [Callers -> CallStates]
    /\ initPc \in [Inits -> InitStates]
    /\ eventsAtInit \in [Inits -> Nat]
    /\ cleared \in Nat

PressInFlight == \E c \in Callers : callPc[c] \in {"input", "trip"}
Rechecking == \E i \in Inits : initPc[i] \in {"heldAgain", "movedAgain", "restore"}

\* No e-stop is lost to an initialize that began before it: when some e-stop
\* was counted after the start of every initialize whose clear was granted,
\* the trip is set, unless a press has not reached its exchange yet or a
\* clear is between its own exchange and its re-check (setEmergencyStop,
\* clearEmergencyTrip).
EstopKept == events > cleared => tripped \/ PressInFlight \/ Rechecking

\* The e-stop promised to its callers (EstopLatch), read off the atomics: the
\* rig is stopped while the input is held or the trip is set, from the count
\* of a press until its exchange, and while a clear that has taken the trip
\* away may still put it back.
stoppedBar == input \/ tripped \/ PressInFlight \/ Rechecking

\* An initialize is late once an e-stop has come since it began.
Out == {"idle", "restore", "unname"}
PhaseOf(i) == IF initPc[i] \in Out THEN "out"
              ELSE IF eventsAtInit[i] = events THEN "clean" ELSE "late"
phaseBar == [i \in Inits |-> PhaseOf(i)]

Latch == INSTANCE EstopLatch WITH stopped <- stoppedBar, phase <- phaseBar

\* The atomics implement the promise: whatever the interleaving of presses,
\* releases and initializes, neither the input nor the trip is gone until an
\* initialize that began after the last e-stop has cleared it
\* (setEmergencyStop, clearEmergencyTrip).
ImplementsLatch == Latch!Spec
=============================================================================
