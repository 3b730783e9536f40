------------------------ MODULE MC_MotionController -------------------------
(***************************************************************************)
(* Small rigs for TLC.                                                     *)
(***************************************************************************)
EXTENDS MotionController, TLC

All(t) == [type |-> t, axis |-> AllAxes]
At(t, i) == [type |-> t, axis |-> i]

\* Every command for the whole rig, and a homing of each axis that has one.
EveryCommand ==
    {All(t) : t \in CommandTypes} \cup {At("StartHoming", i) : i \in PosAxes \cup DevAxes}

\* A test of all position axes.
PosPlan == {PosAxes}

\* No definition tells one position axis from another.
Posts == Permutations(PosAxes)
=============================================================================
