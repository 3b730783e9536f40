------------------------------ MODULE Settings ------------------------------
(***************************************************************************)
(* rig.json and those who write it: pages and scripts that save the whole  *)
(* file, and the controller's own applies (a car entry, a starting point,  *)
(* a profile, the sender's engine).  All of them write under m_profilesIo. *)
(* What a save changes reaches the running rig in one of three ways: the   *)
(* haptics are staged and taken by the next tick, a belt's g shape is      *)
(* staged by axis index and taken by the loop, and anything else lights    *)
(* the pill and waits for an Initialize, which reloads the file under the  *)
(* lock and configures the controller outside it.                          *)
(*                                                                         *)
(* The rig is two belts in either order, each with one of two shapes, and  *)
(* one haptics setting.  A device's feel settings (a stage of their own),  *)
(* the shakers' shaping and edits of the file by hand are left out.        *)
(***************************************************************************)
EXTENDS Integers

CONSTANTS
    Pages,          \* browser pages, each with a copy of the file
    None,           \* nothing staged
    MaxWrites       \* bound on the rewrites of rig.json

ASSUME BoundAssumption == MaxWrites \in Nat

Index == {1, 2}                     \* an axis, by its place in the file
Belts == {"left", "right"}
ShapesOf == [left |-> {1, 2}, right |-> {3, 4}]     \* the shapes made for each

ASSUME NoneAssumption == None \notin {0, 1} /\ None \notin [Index -> 1..4]

Rigs == [belts : {b \in [Index -> Belts] : b[1] # b[2]},
         shapes : [Index -> 1..4], haptics : {0, 1}]
OwnShapes(r) == \A i \in Index : r.shapes[i] \in ShapesOf[r.belts[i]]
Bodies == {r \in Rigs : OwnShapes(r)}
Fresh == CHOOSE r \in Bodies : TRUE

VARIABLES
    file,           \* rig.json
    rev,            \* history: how often the file was rewritten
    gen,            \* m_carGen
    page,           \* the copy a page holds: its rev, and its X-Nullcat-Gen
    pill,           \* m_rigNeedsInit
    beltStage,      \* m_beltGPending, by index, while m_beltGMask is set
    hapStage,       \* m_hapStage while m_hapStagePending is set
    config,         \* the Config the reload fills
    running,        \* m_axisConfig and the haptics layer's settings
    loop,           \* the control loop runs
    init,           \* the init worker: "idle", or "reloaded" the file
    sender,         \* senderCarFacts: "idle", or "wrote" and not yet bumped
    unread,         \* history: the last Initialize could not read the file
    outdone         \* history: the last configure put back older haptics

fileVars == <<file, rev, gen>>
stageVars == <<beltStage, hapStage>>
initVars == <<config, init, unread>>
vars == <<fileVars, page, pill, stageVars, initVars, running, loop, sender, outdone>>

Init ==
    /\ file = Fresh /\ config = Fresh /\ running = Fresh
    /\ rev = 0 /\ gen = 0
    /\ page = [p \in Pages |-> [rev |-> 0, gen |-> 0]]
    /\ pill = FALSE
    /\ beltStage = None /\ hapStage = None
    /\ loop = FALSE /\ init = "idle" /\ sender = "idle"
    /\ unread = FALSE /\ outdone = FALSE

-----------------------------------------------------------------------------
(* The writers of rig.json, one at a time under m_profilesIo. *)

Writes(r) ==
    /\ rev < MaxWrites
    /\ file' = r
    /\ rev' = rev + 1

\* stageHaptics: what it stages is what the file now holds.
StagesHaptics(r) == hapStage' = r.haptics /\ outdone' = FALSE

\* rigDiffIsLiveOnly: the axes are the same, in the same order.
LiveOnly(r) == r.belts = file.belts

\* A bug: a shape is staged though the running axes may not be the file's.
StagesBelts_Pending(r) ==
    beltStage' = IF LiveOnly(r) THEN r.shapes ELSE None

\* Shapes are staged by index, while the running axes are the file's; a save
\* that changes the axes drops what is staged.
StagesBelts(r) ==
    beltStage' = CASE ~LiveOnly(r) -> None
                   [] LiveOnly(r) /\ ~pill -> r.shapes
                   [] OTHER -> beltStage

\* POST /api/rig: a body that differs from the file is written, the
\* generation moves, and the change lights the pill or is staged.
SaveBody(r) ==
    /\ r # file
    /\ Writes(r)
    /\ gen' = gen + 1
    /\ pill' = (pill \/ ~LiveOnly(r))
    /\ StagesBelts(r)
    /\ StagesHaptics(r)
    /\ UNCHANGED <<initVars, running, loop, sender>>

\* GET /api/rig: the file and the generation are read as one.
Load(p) ==
    /\ page' = [page EXCEPT ![p] = [rev |-> rev, gen |-> gen]]
    /\ UNCHANGED <<fileVars, pill, stageVars, initVars, running, loop, sender, outdone>>

Current(p) == page[p].gen = gen

\* A page saves its copy, edited: refused with 409 once the generation moved.
PageSaves(p) ==
    /\ Current(p)
    /\ \E r \in Bodies : SaveBody(r)
    /\ page' = [page EXCEPT ![p] = [rev |-> rev', gen |-> gen']]

\* A script sends no generation: its body is taken as it is.
ScriptSaves == (\E r \in Bodies : SaveBody(r)) /\ UNCHANGED page

\* applyHapticsObjectLocked: settings that are the file's already are not
\* written; others are, and are staged.
AppliesHaptics(h) ==
    /\ h # file.haptics
    /\ Writes([file EXCEPT !.haptics = h])
    /\ StagesHaptics([file EXCEPT !.haptics = h])
    /\ UNCHANGED beltStage

\* A bug: an apply leaves the generation where it is.
Applies_NoBump(h) ==
    /\ AppliesHaptics(h)
    /\ UNCHANGED <<gen, page, pill, initVars, running, loop, sender>>

\* A car entry, the car defaults, a starting point or a profile: the write
\* and the generation move under the same lock.
Applies(h) ==
    /\ AppliesHaptics(h)
    /\ gen' = gen + 1
    /\ UNCHANGED <<page, pill, initVars, running, loop, sender>>

\* senderCarFacts: the generation moves after the lock is let go.
SenderWrites(h) ==
    /\ sender = "idle" /\ sender' = "wrote"
    /\ AppliesHaptics(h)
    /\ UNCHANGED <<gen, page, pill, initVars, running, loop>>

SenderBumps ==
    /\ sender = "wrote" /\ sender' = "idle"
    /\ gen' = gen + 1
    /\ UNCHANGED <<file, rev, page, pill, stageVars, initVars, running, loop, outdone>>

-----------------------------------------------------------------------------
(* Initialize, with the loop stopped: the reload and the configure. *)

\* The file is read, and the pill put out, under the lock; a file that does
\* not read leaves the Config and the pill as they were.
Reloads ==
    /\ init = "idle" /\ ~loop
    /\ init' = "reloaded"
    /\ \/ config' = file /\ pill' = FALSE /\ unread' = FALSE
       \/ unread' = TRUE /\ UNCHANGED <<config, pill>>
    /\ UNCHANGED <<fileVars, page, stageVars, running, loop, sender, outdone>>

\* configure: the axes and the haptics become the Config's.
Reconfigured ==
    /\ init = "reloaded" /\ init' = "idle"
    /\ running' = config
    /\ outdone' = (hapStage = None /\ config.haptics # file.haptics)
    /\ UNCHANGED <<fileVars, page, config, unread, loop, sender>>

\* A bug: the configure puts the pill out, for a save since the reload too.
Configures_Pill == Reconfigured /\ pill' = FALSE /\ UNCHANGED stageVars

\* A bug: the configure drops the haptics staged since the reload.
Configures_Drops == Reconfigured /\ hapStage' = None /\ UNCHANGED <<pill, beltStage>>

\* What is staged is kept; what the idle clock took since the reload is not.
Configures == Reconfigured /\ UNCHANGED <<pill, stageVars>>

StartLoop ==
    /\ init = "idle" /\ ~loop
    /\ loop' = TRUE
    /\ UNCHANGED <<fileVars, page, pill, stageVars, initVars, running, sender, outdone>>

StopLoop ==
    /\ loop /\ loop' = FALSE
    /\ UNCHANGED <<fileVars, page, pill, stageVars, initVars, running, sender, outdone>>

-----------------------------------------------------------------------------
(* The cycle. *)

\* applyStagedHaptics, on the clock that has the path: the loop, or the idle
\* clock while the loop is stopped.
TakesHaptics ==
    /\ hapStage # None /\ hapStage' = None
    /\ running' = [running EXCEPT !.haptics = hapStage]
    /\ UNCHANGED <<fileVars, page, pill, beltStage, initVars, loop, sender, outdone>>

\* A bug: the mask is cleared whole and only the first shape is put.
TakesBelts_First ==
    /\ loop /\ beltStage # None
    /\ beltStage' = None
    /\ running' = [running EXCEPT !.shapes[1] = beltStage[1]]
    /\ UNCHANGED <<fileVars, page, pill, hapStage, initVars, loop, sender, outdone>>

\* applyPendingBeltG, the loop only: each shape goes to the belt that runs at
\* its index.
TakesBelts ==
    /\ loop /\ beltStage # None
    /\ beltStage' = None
    /\ running' = [running EXCEPT !.shapes = beltStage]
    /\ UNCHANGED <<fileVars, page, pill, hapStage, initVars, loop, sender, outdone>>

-----------------------------------------------------------------------------
Next ==
    \/ \E p \in Pages : Load(p) \/ PageSaves(p)
    \/ ScriptSaves
    \/ \E h \in 0..1 : Applies(h) \/ SenderWrites(h)
    \/ SenderBumps
    \/ Reloads \/ Configures \/ StartLoop \/ StopLoop
    \/ TakesHaptics \/ TakesBelts

\* The clocks tick on, and what the worker and the status thread began they end.
Fairness == /\ WF_vars(TakesHaptics) /\ WF_vars(TakesBelts)
            /\ WF_vars(Configures) /\ WF_vars(SenderBumps)

Spec == Init /\ [][Next]_vars /\ Fairness

-----------------------------------------------------------------------------
\* The type invariant; the generation counts the rewrites, but for one of the
\* sender's not counted yet.
TypeOK ==
    /\ {file, config, running} \subseteq Rigs /\ OwnShapes(file)
    /\ rev \in 0..MaxWrites
    /\ rev = gen + IF sender = "wrote" THEN 1 ELSE 0
    /\ page \in [Pages -> [rev : 0..rev, gen : 0..gen]]
    /\ {pill, loop, unread, outdone} \subseteq BOOLEAN
    /\ beltStage \in [Index -> 1..4] \cup {None}
    /\ hapStage \in {0, 1, None}
    /\ init \in {"idle", "reloaded"} /\ sender \in {"idle", "wrote"}

\* A belt plays only a shape made for it, though shapes are staged by index
\* while saves reorder the axes and an Initialize picks the order up later.
BeltKeepsItsOwn == OwnShapes(running)

\* When the belts that run are not the file's, the pill is lit, or the shapes
\* are on their way, or an Initialize is at it; only an Initialize that could
\* not read the file leaves nobody told.
PillTells ==
    \/ running.belts = file.belts /\ running.shapes = file.shapes
    \/ pill \/ init = "reloaded" \/ unread
    \/ running.belts = file.belts /\ beltStage = file.shapes

\* Haptics that play are the file's or the file's are staged, but for those
\* an Initialize put back over a save that came after it read the file.
HapticsTold ==
    \/ running.haptics = file.haptics \/ hapStage = file.haptics
    \/ init = "reloaded" \/ outdone

\* A page's save never writes over a rewrite it has not seen (the 409), but
\* for one of the sender's whose generation has not moved yet.
StaleRefused ==
    [][\A p \in Pages : PageSaves(p) => page[p].rev = rev \/ sender = "wrote"]_vars

\* With the loop left on, what a save changes reaches the rig or lights the
\* pill for good.
SavesLand ==
    <>[]loop => <>[](beltStage = None /\ hapStage = None
                     /\ (pill \/ unread \/ running.shapes = file.shapes))
=============================================================================
