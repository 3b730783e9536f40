--------------------------- MODULE MC_ControlLoop ---------------------------
(***************************************************************************)
(* Small rigs under the control loop for TLC.                              *)
(***************************************************************************)
EXTENDS ControlLoop

All(t) == [type |-> t, axis |-> AllAxes]

\* The commands that bring a rig of posts into motion.
PostCommands == {All("StartHoming"), All("StartUnpark")}

\* A test of all posts, and no test.
PosPlan == {PosAxes}
NoPlan == {}
=============================================================================
