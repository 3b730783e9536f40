--------------------------- MODULE FaultEpisodes ---------------------------
(***************************************************************************)
(* What the fault handling of the drives promises the control loop: a      *)
(* drive is in a fault episode or it is not; an episode that opens makes a *)
(* rehome necessary, and the handling begins that rehome itself only as    *)
(* the last open episode closes.  DriveFaults implements it, drive by      *)
(* drive; ControlLoop's DriveFault, FaultClears and LockoutCleared, over   *)
(* the one flag it keeps for all of them, keep it too.                     *)
(***************************************************************************)

CONSTANT Drives

VARIABLES
    open,           \* the drives in a fault episode
    owed            \* a rehome is necessary

Init == open = {} /\ owed \in BOOLEAN

Opens(i) ==
    /\ i \notin open
    /\ open' = open \cup {i}
    /\ owed' = TRUE

Closes(i) ==
    /\ i \in open
    /\ open' = open \ {i}
    /\ \/ UNCHANGED owed
       \/ open' = {} /\ owed' = FALSE

\* A cleared lockout whose drive is still in its fault: one episode ends and
\* the next one opens.
Reopens(i) ==
    /\ i \in open
    /\ owed' = TRUE
    /\ UNCHANGED open

\* The loop begins another run: no episode outlives the last one.
Forgets ==
    /\ open' = {}
    /\ owed' \in BOOLEAN

\* A home command of the surfaces takes care of the rehome at any time.
Rehomed ==
    /\ owed' = FALSE
    /\ UNCHANGED open

Next == Forgets \/ Rehomed \/ \E i \in Drives : Opens(i) \/ Closes(i) \/ Reopens(i)

Spec == Init /\ [][Next]_<<open, owed>>
=============================================================================
