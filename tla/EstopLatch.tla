----------------------------- MODULE EstopLatch -----------------------------
(***************************************************************************)
(* What the e-stop trip of MotionController promises, with no atomics and  *)
(* no interleaving: an e-stop stops the rig, and only an initialize of the *)
(* drives that BEGAN after the last e-stop lets it move again              *)
(* (MotionController.h, the comment on setEmergencyStop and                *)
(* clearEmergencyTrip).  EstopTrip implements it; ControlLoop and Panel,   *)
(* which take a press and a clear as one step each, keep it around the     *)
(* lifecycle.                                                              *)
(***************************************************************************)

CONSTANT Inits      \* the threads that initialize the drives

VARIABLES
    stopped,        \* an e-stop since the initialize that last cleared it
    phase           \* of each initializer: out of an initialize, in one with
                    \* no e-stop since it began, or in one an e-stop followed

vars == <<stopped, phase>>

Init == stopped = FALSE /\ phase = [i \in Inits |-> "out"]

Stop ==
    /\ stopped' = TRUE
    /\ phase' = [i \in Inits |-> IF phase[i] = "clean" THEN "late" ELSE phase[i]]

Begin(i) ==
    /\ phase[i] = "out"
    /\ phase' = [phase EXCEPT ![i] = "clean"]
    /\ UNCHANGED stopped

Clear(i) ==
    /\ phase[i] = "clean"
    /\ stopped' = FALSE
    /\ phase' = [phase EXCEPT ![i] = "out"]

\* The initialize failed, or was refused, or found nothing to clear.
GiveUp(i) ==
    /\ phase' = [phase EXCEPT ![i] = "out"]
    /\ UNCHANGED stopped

Next == Stop \/ \E i \in Inits : Begin(i) \/ Clear(i) \/ GiveUp(i)

Spec == Init /\ [][Next]_vars
=============================================================================
