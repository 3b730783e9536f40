-------------------------- MODULE EstopTrip_proof ---------------------------
(***************************************************************************)
(* Proofs about EstopTrip, for any number of callers and initializers.     *)
(***************************************************************************)
EXTENDS EstopTrip, TLAPS

\* The two halves of TypeOK: the flags, and all the rest.
Flags == input \in BOOLEAN /\ tripped \in BOOLEAN
Rest ==
    /\ events \in Nat
    /\ tripSource \in Callers \cup {NoSource}
    /\ callPc \in [Callers -> CallStates]
    /\ initPc \in [Inits -> InitStates]
    /\ eventsAtInit \in [Inits -> Nat]
    /\ cleared \in Nat

\* Every variable of the e-stop keeps its type.
THEOREM Typing == Spec => []TypeOK
<1>1. Init => Flags /\ Rest
  <2>1. Init => Flags
    BY DEF Init, Flags
  <2>2. Init => Rest
    BY DEF Init, Rest, CallStates, InitStates
  <2>3. QED BY <2>1, <2>2
<1>2. Flags /\ Rest /\ [Next]_vars => (Flags /\ Rest)'
  <2> SUFFICES ASSUME Flags, Rest, [Next]_vars PROVE Flags' /\ Rest'
    OBVIOUS
  <2> USE DEF initVars, callerVars, CallStep, InitStep
  <2>1. ASSUME NEW c \in Callers, CallerNext(c) PROVE Flags'
    BY <2>1 DEF CallerNext, PressCount, PressInput, PressTrip, PressName, Release, Flags
  <2>2. ASSUME NEW c \in Callers, CallerNext(c) PROVE Rest'
    <3> USE DEF Rest, CallStates
    <3>1. CASE PressCount(c)
      BY <3>1 DEF PressCount
    <3>2. CASE PressInput(c) \/ PressTrip(c)
      BY <3>2 DEF PressInput, PressTrip
    <3>3. CASE PressName(c) \/ Release(c)
      BY <3>3 DEF PressName, Release
    <3>4. QED BY <2>2, <3>1, <3>2, <3>3 DEF CallerNext
  <2>3. ASSUME NEW i \in Inits, InitNext(i) PROVE Flags'
    BY <2>3 DEF InitNext, BeginInit, EndInit, ClearNext, CheckInput, CheckEvents,
                ClearExchange, RecheckInput, RecheckEvents, RestoreTrip,
                ForgetSource, Flags
  <2>4. ASSUME NEW i \in Inits, InitNext(i) PROVE Rest'
    BY <2>4 DEF InitNext, BeginInit, EndInit, ClearNext, CheckInput, CheckEvents,
                ClearExchange, RecheckInput, RecheckEvents, RestoreTrip,
                ForgetSource, Granted, Max2, Rest, InitStates
  <2>5. CASE UNCHANGED vars
    BY <2>5 DEF vars, Flags, Rest
  <2>6. QED
    BY <2>1, <2>2, <2>3, <2>4, <2>5 DEF Next
<1>3. Flags /\ Rest => TypeOK
  BY DEF Flags, Rest, TypeOK
<1>4. QED
  BY <1>1, <1>2, <1>3, PTL DEF Spec

-----------------------------------------------------------------------------
\* No e-stop is lost to an initialize that began before it: EstopKept is
\* inductive, once the types are known.
THEOREM Kept == Spec => []EstopKept
<1>1. Init => EstopKept
  BY DEF Init, EstopKept
<1>2. TypeOK /\ EstopKept /\ [Next]_vars => EstopKept'
  <2> SUFFICES ASSUME TypeOK, EstopKept, [Next]_vars PROVE EstopKept'
    OBVIOUS
  <2> USE DEF EstopKept, PressInFlight, Rechecking, TypeOK, CallStates, InitStates
  <2> USE DEF initVars, callerVars, CallStep, InitStep
  <2>1. ASSUME NEW c \in Callers, PressCount(c) PROVE EstopKept'
    BY <2>1 DEF PressCount
  <2>2. ASSUME NEW c \in Callers, PressInput(c) PROVE EstopKept'
    BY <2>2 DEF PressInput
  <2>3. ASSUME NEW c \in Callers, PressTrip(c) PROVE EstopKept'
    BY <2>3 DEF PressTrip
  <2>4. ASSUME NEW c \in Callers, PressName(c) \/ Release(c) PROVE EstopKept'
    BY <2>4 DEF PressName, Release
  <2>5. ASSUME NEW i \in Inits, BeginInit(i) \/ EndInit(i) PROVE EstopKept'
    BY <2>5 DEF BeginInit, EndInit
  <2>6. ASSUME NEW i \in Inits, CheckInput(i) \/ CheckEvents(i) PROVE EstopKept'
    BY <2>6 DEF CheckInput, CheckEvents
  <2>7. ASSUME NEW i \in Inits, ClearExchange(i) PROVE EstopKept'
    BY <2>7 DEF ClearExchange, Granted, Max2
  <2>8. ASSUME NEW i \in Inits, RecheckInput(i) PROVE EstopKept'
    BY <2>8 DEF RecheckInput
  <2>9. ASSUME NEW i \in Inits, RecheckEvents(i) PROVE EstopKept'
    \* granted: no e-stop came after the start of i's initialize
    <3>1. CASE events # eventsAtInit[i]
      BY <2>9, <3>1 DEF RecheckEvents
    <3>2. CASE events = eventsAtInit[i]
      <4>1. cleared' >= events /\ events' = events
        BY <2>9, <3>2 DEF RecheckEvents, Granted, Max2
      <4>2. QED BY <4>1, <2>9 DEF RecheckEvents, Granted, Max2
    <3>3. QED BY <3>1, <3>2
  <2>10. ASSUME NEW i \in Inits, RestoreTrip(i) \/ ForgetSource(i) PROVE EstopKept'
    BY <2>10 DEF RestoreTrip, ForgetSource
  <2>11. CASE UNCHANGED vars
    BY <2>11 DEF vars
  <2>12. QED
    BY <2>1, <2>2, <2>3, <2>4, <2>5, <2>6, <2>7, <2>8, <2>9, <2>10, <2>11
    DEF Next, CallerNext, InitNext, ClearNext
<1>3. QED
  BY <1>1, <1>2, Typing, PTL DEF Spec

-----------------------------------------------------------------------------
\* The count an initializer holds is never ahead of the e-stops counted, and
\* an input that is held has its trip: set, on its way, or taken away by a
\* clear that has still to look at the input again, or will put it back.
WillSee(i) == initPc[i] \in {"heldAgain", "restore"}
TripInv ==
    /\ \A i \in Inits : eventsAtInit[i] <= events
    /\ input => tripped \/ PressInFlight \/ \E i \in Inits : WillSee(i)

LEMMA InputTrips == Spec => []TripInv
<1>1. Init => TripInv
  BY DEF Init, TripInv
<1>2. TypeOK /\ TripInv /\ [Next]_vars => TripInv'
  <2> SUFFICES ASSUME TypeOK, TripInv, [Next]_vars PROVE TripInv'
    OBVIOUS
  <2> USE DEF TypeOK, TripInv, PressInFlight, WillSee, initVars, callerVars
  <2> USE DEF CallStep, InitStep, CallStates, InitStates
  <2>1. ASSUME NEW c \in Callers, PressCount(c) PROVE TripInv'
    BY <2>1 DEF PressCount
  <2>2. ASSUME NEW c \in Callers, PressInput(c) PROVE TripInv'
    BY <2>2 DEF PressInput
  <2>3. ASSUME NEW c \in Callers, PressTrip(c) PROVE TripInv'
    BY <2>3 DEF PressTrip
  <2>4. ASSUME NEW c \in Callers, PressName(c) \/ Release(c) PROVE TripInv'
    BY <2>4 DEF PressName, Release
  <2>5. ASSUME NEW i \in Inits, BeginInit(i) \/ EndInit(i) PROVE TripInv'
    BY <2>5 DEF BeginInit, EndInit
  <2>6. ASSUME NEW i \in Inits, CheckInput(i) \/ CheckEvents(i) PROVE TripInv'
    BY <2>6 DEF CheckInput, CheckEvents
  <2>7. ASSUME NEW i \in Inits, ClearExchange(i) PROVE TripInv'
    BY <2>7 DEF ClearExchange
  <2>8. ASSUME NEW i \in Inits, RecheckInput(i) PROVE TripInv'
    BY <2>8 DEF RecheckInput
  <2>9. ASSUME NEW i \in Inits, RecheckEvents(i) PROVE TripInv'
    BY <2>9 DEF RecheckEvents
  <2>10. ASSUME NEW i \in Inits, RestoreTrip(i) \/ ForgetSource(i) PROVE TripInv'
    BY <2>10 DEF RestoreTrip, ForgetSource
  <2>11. CASE UNCHANGED vars
    BY <2>11 DEF vars
  <2>12. QED
    BY <2>1, <2>2, <2>3, <2>4, <2>5, <2>6, <2>7, <2>8, <2>9, <2>10, <2>11
    DEF Next, CallerNext, InitNext, ClearNext
<1>3. QED
  BY <1>1, <1>2, Typing, PTL DEF Spec

\* The e-stop of the code implements the promised latch: every step of its
\* atomics is a step of EstopLatch or changes nothing there, with the rig
\* stopped read off the input, the trip and who is about to set it.
THEOREM Implements == Spec => ImplementsLatch
<1>1. Init => Latch!Init
  BY DEF Init, Latch!Init, phaseBar, stoppedBar, PhaseOf, Out, PressInFlight, Rechecking
<1>2. TypeOK /\ TripInv /\ [Next]_vars => [Latch!Next]_(Latch!vars)
  <2> SUFFICES ASSUME TypeOK, TripInv, [Next]_vars PROVE [Latch!Next]_(Latch!vars)
    OBVIOUS
  <2> USE DEF TypeOK, TripInv, InitStates, CallStates
  <2> USE DEF initVars, callerVars, CallStep, InitStep
  \* a step that moves no initializer and no count, nor what stops the rig
  <2>0. ASSUME UNCHANGED <<initPc, eventsAtInit, events>>, UNCHANGED stoppedBar
        PROVE UNCHANGED Latch!vars
    BY <2>0 DEF phaseBar, PhaseOf, Latch!vars
  <2>1. ASSUME NEW c \in Callers, PressCount(c) PROVE Latch!Stop
    BY <2>1 DEF PressCount, Latch!Stop, phaseBar, PhaseOf, Out, stoppedBar, PressInFlight
  <2>2. ASSUME NEW c \in Callers, PressInput(c) PROVE UNCHANGED Latch!vars
    <3>1. stoppedBar' /\ stoppedBar
      BY <2>2 DEF PressInput, stoppedBar, PressInFlight
    <3>2. QED BY <2>0, <2>2, <3>1 DEF PressInput
  <2>3. ASSUME NEW c \in Callers, PressTrip(c) PROVE UNCHANGED Latch!vars
    <3>1. stoppedBar' /\ stoppedBar
      BY <2>3 DEF PressTrip, stoppedBar, PressInFlight
    <3>2. QED BY <2>0, <2>3, <3>1 DEF PressTrip
  <2>4. ASSUME NEW c \in Callers, PressName(c) PROVE UNCHANGED Latch!vars
    BY <2>0, <2>4 DEF PressName, stoppedBar, PressInFlight, Rechecking
  \* a release: the input goes, and what it stands for stays
  <2>5. ASSUME NEW c \in Callers, Release(c) PROVE UNCHANGED Latch!vars
    BY <2>0, <2>5 DEF Release, stoppedBar, PressInFlight, Rechecking, WillSee
  <2>6. ASSUME NEW i \in Inits, BeginInit(i) PROVE Latch!Begin(i)
    BY <2>6 DEF BeginInit, Latch!Begin, phaseBar, PhaseOf, Out, stoppedBar, PressInFlight, Rechecking
  \* the steps of an initializer that leave the stop as it is
  <2>7. ASSUME NEW i \in Inits, UNCHANGED <<eventsAtInit, events>>, UNCHANGED stoppedBar,
               NEW s \in InitStates, initPc[i] \notin Out, initPc' = [initPc EXCEPT ![i] = s]
        PROVE UNCHANGED Latch!vars \/ Latch!GiveUp(i)
    BY <2>7 DEF phaseBar, PhaseOf, Out, Latch!vars, Latch!GiveUp
  <2>8. ASSUME NEW i \in Inits, EndInit(i) \/ CheckInput(i) \/ CheckEvents(i)
        PROVE UNCHANGED Latch!vars \/ Latch!GiveUp(i)
    <3>1. UNCHANGED stoppedBar
      BY <2>8 DEF EndInit, CheckInput, CheckEvents, stoppedBar, PressInFlight, Rechecking
    <3>2. QED BY <2>7, <2>8, <3>1 DEF EndInit, CheckInput, CheckEvents, Out
  <2>9. ASSUME NEW i \in Inits, ClearExchange(i)
        PROVE UNCHANGED Latch!vars \/ Latch!GiveUp(i)
    <3>1. UNCHANGED stoppedBar
      BY <2>9 DEF ClearExchange, stoppedBar, PressInFlight, Rechecking
    <3>2. QED BY <2>7, <2>9, <3>1 DEF ClearExchange, Out
  <2>10. ASSUME NEW i \in Inits, RecheckInput(i) PROVE UNCHANGED Latch!vars \/ Latch!GiveUp(i)
    <3>1. stoppedBar' /\ stoppedBar
      BY <2>10 DEF RecheckInput, stoppedBar, Rechecking
    <3>2. QED BY <2>7, <2>10, <3>1 DEF RecheckInput, Out
  <2>11. ASSUME NEW i \in Inits, RecheckEvents(i) PROVE Latch!GiveUp(i) \/ Latch!Clear(i)
    <3>1. CASE events # eventsAtInit[i]
      <4>1. stoppedBar' /\ stoppedBar
        BY <2>11, <3>1 DEF RecheckEvents, stoppedBar, Rechecking
      <4>2. QED BY <2>11, <3>1, <4>1 DEF RecheckEvents, phaseBar, PhaseOf, Out, Latch!GiveUp
    <3>2. CASE events = eventsAtInit[i]
      <4>1. PhaseOf(i) = "clean" /\ phaseBar' = [phaseBar EXCEPT ![i] = "out"]
        BY <2>11, <3>2 DEF RecheckEvents, phaseBar, PhaseOf, Out
      <4>2. stoppedBar /\ stoppedBar' \in BOOLEAN
        BY <2>11, <3>2 DEF RecheckEvents, stoppedBar, Rechecking
      <4>3. phaseBar[i] = "clean"
        BY <4>1 DEF phaseBar
      <4>4. QED BY <4>1, <4>2, <4>3 DEF Latch!Clear, Latch!GiveUp
    <3>3. QED BY <3>1, <3>2
  <2>12. ASSUME NEW i \in Inits, RestoreTrip(i) PROVE UNCHANGED Latch!vars
    <3>1. stoppedBar' /\ stoppedBar
      BY <2>12 DEF RestoreTrip, stoppedBar, Rechecking
    <3>2. QED BY <2>12, <3>1 DEF RestoreTrip, phaseBar, PhaseOf, Out, Latch!vars
  <2>13. ASSUME NEW i \in Inits, ForgetSource(i) PROVE UNCHANGED Latch!vars
    <3>1. UNCHANGED stoppedBar
      BY <2>13 DEF ForgetSource, stoppedBar, PressInFlight, Rechecking
    <3>2. QED BY <2>13, <3>1 DEF ForgetSource, phaseBar, PhaseOf, Out, Latch!vars
  <2>14. CASE UNCHANGED vars
    BY <2>0, <2>14 DEF vars, stoppedBar, PressInFlight, Rechecking
  <2>15. QED
    BY <2>1, <2>2, <2>3, <2>4, <2>5, <2>6, <2>8, <2>9, <2>10, <2>11, <2>12, <2>13, <2>14
    DEF Next, CallerNext, InitNext, ClearNext, Latch!Next
<1>3. QED
  BY <1>1, <1>2, Typing, InputTrips, PTL DEF Spec, ImplementsLatch, Latch!Spec
=============================================================================
