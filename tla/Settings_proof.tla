--------------------------- MODULE Settings_proof ---------------------------
(***************************************************************************)
(* Proofs about Settings, for any pages and any number of rewrites.        *)
(***************************************************************************)
EXTENDS Settings, TLAPS

USE DEF fileVars, stageVars, initVars

\* The types, of what is stored and of what is on its way.
RigsType == /\ file \in Bodies /\ config \in Bodies /\ running \in Rigs
StageType ==
    /\ beltStage \in [Index -> 1..4] \cup {None}
    /\ hapStage \in {0, 1, None}
FlagsType ==
    /\ pill \in BOOLEAN /\ loop \in BOOLEAN /\ unread \in BOOLEAN /\ outdone \in BOOLEAN
    /\ init \in {"idle", "reloaded"} /\ sender \in {"idle", "wrote"}
CountsType ==
    /\ rev \in 0..MaxWrites /\ gen \in 0..rev
    /\ rev = gen + IF sender = "wrote" THEN 1 ELSE 0
    /\ page \in [Pages -> [rev : 0..rev, gen : 0..gen]]
Types == RigsType /\ StageType /\ FlagsType /\ CountsType

Fits(shapes, belts) == \A i \in Index : shapes[i] \in ShapesOf[belts[i]]

\* Out of an init the belts that run are the Config's, the loop runs only
\* there, the Config's are the file's unless the pill is lit, and then no
\* shape is staged: so what is staged fits the belts that run when it is taken.
BeltInv ==
    /\ loop => init = "idle"
    /\ init = "idle" => running.belts = config.belts
    /\ pill \/ config.belts = file.belts
    /\ pill => beltStage = None
    /\ beltStage # None => Fits(beltStage, config.belts)
    /\ OwnShapes(running)

\* The shapes that are staged are the file's, and where none are, those that
\* run, or that an init is about to configure, are.
ToldInv ==
    /\ beltStage # None => beltStage = file.shapes
    /\ beltStage = None /\ ~pill /\ ~unread
         => IF init = "idle" THEN running.shapes = file.shapes ELSE config.shapes = file.shapes

\* The same of the haptics, but for what a configure put back.
HapticsInv ==
    /\ hapStage # None => hapStage = file.haptics
    /\ hapStage = None => running.haptics = file.haptics \/ init = "reloaded" \/ outdone

\* A page that is not behind in its generation is not behind in what it read.
PageInv == \A p \in Pages : Current(p) /\ sender = "idle" => page[p].rev = rev

-----------------------------------------------------------------------------
(* The rigs. *)

\* There is a rig whose belts play their own shapes.
LEMMA FreshIsBody == Fresh \in Bodies
<1> DEFINE belts == [i \in Index |-> IF i = 1 THEN "left" ELSE "right"]
           shapes == [i \in Index |-> IF i = 1 THEN 1 ELSE 3]
           rig == [belts |-> belts, shapes |-> shapes, haptics |-> 0]
<1>1. belts \in [Index -> Belts] /\ belts[1] # belts[2]
  BY DEF Index, Belts
<1>2. shapes \in [Index -> 1..4]
  BY DEF Index
<1>3. rig \in Rigs
  BY <1>1, <1>2 DEF Rigs
<1>4. OwnShapes(rig)
  BY DEF OwnShapes, Index, ShapesOf
<1>5. rig \in Bodies
  BY <1>3, <1>4 DEF Bodies
<1>6. QED
  BY <1>5 DEF Fresh

\* What an apply writes is a rig that differs in its haptics only.
LEMMA HapticsOnly ==
    ASSUME NEW r \in Rigs, NEW h \in {0, 1}
    PROVE  LET s == [r EXCEPT !.haptics = h]
           IN  s \in Rigs /\ s.belts = r.belts /\ s.shapes = r.shapes /\ s.haptics = h
BY DEF Rigs

LEMMA ShapesOnly ==
    ASSUME NEW r \in Rigs, NEW g \in [Index -> 1..4]
    PROVE  LET s == [r EXCEPT !.shapes = g]
           IN  s \in Rigs /\ s.belts = r.belts /\ s.shapes = g /\ s.haptics = r.haptics
BY DEF Rigs

LEMMA BodyParts ==
    ASSUME NEW r \in Bodies
    PROVE  r \in Rigs /\ OwnShapes(r) /\ r.shapes \in [Index -> 1..4] /\ r.haptics \in {0, 1}
           /\ Fits(r.shapes, r.belts)
BY DEF Bodies, Rigs, OwnShapes, Fits

\* An apply leaves the axes and their shapes alone, and stages what it writes.
LEMMA AppliesWhat ==
    ASSUME file \in Bodies, NEW h \in 0..1, AppliesHaptics(h)
    PROVE  /\ file' \in Bodies /\ file'.belts = file.belts /\ file'.shapes = file.shapes
           /\ hapStage' = file'.haptics /\ hapStage' \in {0, 1}
           /\ outdone' = FALSE /\ UNCHANGED beltStage
           /\ rev < MaxWrites /\ rev' = rev + 1
<1>1. h \in {0, 1}
  OBVIOUS
<1>2. file' = [file EXCEPT !.haptics = h]
  BY DEF AppliesHaptics, Writes
<1>3. file \in Rigs /\ OwnShapes(file)
  BY BodyParts
<1>4. file' \in Rigs /\ file'.belts = file.belts /\ file'.shapes = file.shapes /\ file'.haptics = h
  BY <1>1, <1>2, <1>3, HapticsOnly
<1>5. file' \in Bodies
  BY <1>3, <1>4 DEF Bodies, OwnShapes
<1>6. hapStage' = file'.haptics /\ outdone' = FALSE
  BY <1>2 DEF AppliesHaptics, StagesHaptics
<1>7. QED
  BY <1>1, <1>4, <1>5, <1>6 DEF AppliesHaptics, Writes

\* A save writes a body, and stages of it what it may.
LEMMA SavesWhat ==
    ASSUME NEW r \in Bodies, SaveBody(r)
    PROVE  /\ file' = r /\ rev < MaxWrites /\ rev' = rev + 1 /\ gen' = gen + 1
           /\ hapStage' = r.haptics /\ outdone' = FALSE
           /\ pill' = (pill \/ ~LiveOnly(r))
           /\ StagesBelts(r)
           /\ UNCHANGED <<initVars, running, loop, sender>>
BY DEF SaveBody, Writes, StagesHaptics

\* The steps that rewrite nothing.
Quiet == (\E p \in Pages : Load(p)) \/ SenderBumps \/ StartLoop \/ StopLoop \/ UNCHANGED vars
Saves == (\E p \in Pages : PageSaves(p)) \/ ScriptSaves
Applying == \E h \in 0..1 : Applies(h) \/ SenderWrites(h)

LEMMA NextCases ==
    [Next]_vars => Quiet \/ Saves \/ Applying \/ Reloads \/ Configures \/ TakesHaptics \/ TakesBelts
BY DEF Next, Quiet, Saves, Applying

LEMMA SomeBody == ASSUME Saves PROVE \E r \in Bodies : SaveBody(r)
BY DEF Saves, PageSaves, ScriptSaves

LEMMA SomeHaptics == ASSUME Applying PROVE \E h \in 0..1 : AppliesHaptics(h)
BY DEF Applying, Applies, SenderWrites

LEMMA QuietKeeps ==
    ASSUME Quiet
    PROVE  UNCHANGED <<file, config, running, beltStage, hapStage, pill, init, unread, outdone>>
BY DEF Quiet, Load, SenderBumps, StartLoop, StopLoop, vars

-----------------------------------------------------------------------------
(* Types. *)

LEMMA RigsKept == ASSUME RigsType, StageType, [Next]_vars PROVE RigsType'
<1> USE DEF RigsType
<1>1. CASE Quiet
  BY <1>1, QuietKeeps
<1>2. CASE Saves
  <2>1. PICK r \in Bodies : SaveBody(r)
    BY <1>2, SomeBody
  <2>2. QED BY <2>1, SavesWhat
<1>3. CASE Applying
  <2>1. PICK h \in 0..1 : AppliesHaptics(h)
    BY <1>3, SomeHaptics
  <2>2. UNCHANGED <<config, running>>
    BY <1>3 DEF Applying, Applies, SenderWrites
  <2>3. QED BY <2>1, <2>2, AppliesWhat
<1>4. CASE Reloads
  BY <1>4 DEF Reloads
<1>5. CASE Configures
  BY <1>5, BodyParts DEF Configures, Reconfigured
<1>6. CASE TakesHaptics
  <2>1. hapStage \in {0, 1} /\ running' = [running EXCEPT !.haptics = hapStage]
    BY <1>6 DEF TakesHaptics, StageType
  <2>2. running' \in Rigs
    BY <2>1, HapticsOnly
  <2>3. QED BY <1>6, <2>2 DEF TakesHaptics
<1>7. CASE TakesBelts
  <2>1. beltStage \in [Index -> 1..4] /\ running' = [running EXCEPT !.shapes = beltStage]
    BY <1>7 DEF TakesBelts, StageType
  <2>2. running' \in Rigs
    BY <2>1, ShapesOnly
  <2>3. QED BY <1>7, <2>2 DEF TakesBelts
<1>8. QED
  BY <1>1, <1>2, <1>3, <1>4, <1>5, <1>6, <1>7, NextCases

LEMMA StageKept == ASSUME RigsType, StageType, [Next]_vars PROVE StageType'
<1> USE DEF StageType
<1>1. CASE Quiet
  BY <1>1, QuietKeeps
<1>2. CASE Saves
  <2>1. PICK r \in Bodies : SaveBody(r)
    BY <1>2, SomeBody
  <2>2. r.shapes \in [Index -> 1..4] /\ r.haptics \in {0, 1}
    BY BodyParts
  <2>3. beltStage' \in {None, r.shapes, beltStage}
    BY <2>1, SavesWhat DEF StagesBelts
  <2>4. QED BY <2>1, <2>2, <2>3, SavesWhat
<1>3. CASE Applying
  <2>1. PICK h \in 0..1 : AppliesHaptics(h)
    BY <1>3, SomeHaptics
  <2>2. QED BY <2>1, AppliesWhat DEF RigsType
<1>4. CASE Reloads \/ Configures \/ TakesHaptics \/ TakesBelts
  BY <1>4 DEF Reloads, Configures, TakesHaptics, TakesBelts
<1>5. QED
  BY <1>1, <1>2, <1>3, <1>4, NextCases

LEMMA FlagsKept == ASSUME RigsType, FlagsType, [Next]_vars PROVE FlagsType'
<1> USE DEF FlagsType
<1>1. CASE Quiet
  BY <1>1 DEF Quiet, Load, SenderBumps, StartLoop, StopLoop, vars
<1>2. CASE Saves
  <2>1. PICK r \in Bodies : SaveBody(r)
    BY <1>2, SomeBody
  <2>2. QED BY <2>1, SavesWhat
<1>3. CASE Applying
  <2>1. outdone' \in BOOLEAN
    BY <1>3, SomeHaptics, AppliesWhat DEF RigsType
  <2>2. QED BY <1>3, <2>1 DEF Applying, Applies, SenderWrites
<1>4. CASE Reloads \/ Configures \/ TakesHaptics \/ TakesBelts
  BY <1>4 DEF Reloads, Configures, Reconfigured, TakesHaptics, TakesBelts
<1>5. QED
  BY <1>1, <1>2, <1>3, <1>4, NextCases

\* What a rewrite does to the count of rewrites and to the generation.
LEMMA RewriteCounts ==
    ASSUME [Next]_vars
    PROVE  \/ Saves /\ rev < MaxWrites /\ rev' = rev + 1 /\ gen' = gen + 1 /\ UNCHANGED sender
           \/ /\ Applying /\ rev < MaxWrites /\ rev' = rev + 1 /\ UNCHANGED page
              /\ \/ gen' = gen + 1 /\ UNCHANGED sender
                 \/ gen' = gen /\ sender = "idle" /\ sender' = "wrote"
           \/ /\ UNCHANGED <<rev, page>> /\ gen' = gen + 1
              /\ sender = "wrote" /\ sender' = "idle"
           \/ (\E p \in Pages : Load(p)) /\ UNCHANGED <<rev, gen, sender>>
           \/ UNCHANGED <<rev, gen, page, sender>>
<1>1. CASE Quiet
  BY <1>1 DEF Quiet, Load, SenderBumps, StartLoop, StopLoop, vars
<1>2. CASE Saves
  BY <1>2, SomeBody, SavesWhat
<1>3. CASE Applying
  <2>1. PICK h \in 0..1 : Applies(h) \/ SenderWrites(h)
    BY <1>3 DEF Applying
  <2>2. rev < MaxWrites /\ rev' = rev + 1
    BY <2>1 DEF Applies, SenderWrites, AppliesHaptics, Writes
  <2>3. QED BY <1>3, <2>1, <2>2 DEF Applies, SenderWrites
<1>4. CASE Reloads \/ Configures \/ TakesHaptics \/ TakesBelts
  BY <1>4 DEF Reloads, Configures, Reconfigured, TakesHaptics, TakesBelts
<1>5. QED
  BY <1>1, <1>2, <1>3, <1>4, NextCases

\* A page that saves or loads has seen the last rewrite; any other keeps what
\* it had.
LEMMA PageMoves ==
    ASSUME page \in [Pages -> [rev : 0..rev, gen : 0..gen]],
           Saves \/ \E p \in Pages : Load(p),
           NEW q \in Pages
    PROVE  page'[q] = page[q] \/ page'[q] = [rev |-> rev', gen |-> gen']
BY DEF Saves, PageSaves, ScriptSaves, Load

LEMMA CountsKept == ASSUME FlagsType, CountsType, [Next]_vars PROVE CountsType'
<1> USE DEF CountsType
<1>1. /\ rev' \in 0..MaxWrites /\ gen' \in 0..rev'
      /\ rev' = gen' + IF sender' = "wrote" THEN 1 ELSE 0
      /\ rev <= rev' /\ gen <= gen'
  BY RewriteCounts, BoundAssumption DEF FlagsType
<1>2. /\ rev' \in 0..rev' /\ gen' \in 0..gen'
      /\ 0..rev \subseteq 0..rev' /\ 0..gen \subseteq 0..gen'
  <2>1. rev \in Int /\ gen \in Int
    BY BoundAssumption
  <2>2. rev' \in 0..MaxWrites /\ rev <= rev'
    BY <1>1
  <2>3. rev' \in Int /\ 0 <= rev'
    BY <2>2, BoundAssumption
  <2>4. gen' \in Int /\ 0 <= gen' /\ gen <= gen'
    BY <1>1, <2>3
  <2>5. \A m, n \in Int : m <= n => 0..m \subseteq 0..n
    OBVIOUS
  <2>6. QED BY <2>1, <2>2, <2>3, <2>4, <2>5
<1>3. page' \in [Pages -> [rev : 0..rev', gen : 0..gen']]
  <2>1. [Pages -> [rev : 0..rev, gen : 0..gen]] \subseteq [Pages -> [rev : 0..rev', gen : 0..gen']]
    <3>1. [rev : 0..rev, gen : 0..gen] \subseteq [rev : 0..rev', gen : 0..gen']
      BY <1>2
    <3>2. QED BY <3>1
  <2>2. CASE Saves \/ \E p \in Pages : Load(p)
    <3>1. \A q \in Pages : page[q] \in [rev : 0..rev', gen : 0..gen']
      BY <2>1
    <3>2. \A q \in Pages : page'[q] \in [rev : 0..rev', gen : 0..gen']
      BY <2>2, <1>2, <3>1, PageMoves
    <3>3. page' = [q \in Pages |-> page'[q]]
      BY <2>2 DEF Saves, PageSaves, ScriptSaves, Load
    <3>4. QED BY <3>2, <3>3
  <2>3. CASE ~(Saves \/ \E p \in Pages : Load(p))
    <3>1. UNCHANGED page
      BY <2>3, RewriteCounts
    <3>2. QED BY <2>1, <3>1
  <2>4. QED BY <2>2, <2>3
<1>4. QED
  BY <1>1, <1>3

LEMMA TypesInvariant == Spec => []Types
<1>1. Init => Types
  <2> SUFFICES ASSUME Init PROVE Types
    OBVIOUS
  <2>1. RigsType
    BY FreshIsBody, BodyParts DEF Init, RigsType
  <2>2. StageType /\ FlagsType
    BY DEF Init, StageType, FlagsType
  <2>3. CountsType
    BY BoundAssumption DEF Init, CountsType
  <2>4. QED BY <2>1, <2>2, <2>3 DEF Types
<1>2. Types /\ [Next]_vars => Types'
  BY RigsKept, StageKept, FlagsKept, CountsKept DEF Types
<1>3. QED
  BY <1>1, <1>2, PTL DEF Spec

\* Every variable keeps its type, and the generation counts the rewrites, but
\* for one of the sender's not counted yet.
THEOREM SettingsTyping == Spec => []TypeOK
<1>1. Types => TypeOK
  BY BodyParts DEF Types, RigsType, StageType, FlagsType, CountsType, TypeOK
<1>2. QED
  BY <1>1, TypesInvariant, PTL

-----------------------------------------------------------------------------
(* The belts. *)

LEMMA BeltKept == ASSUME Types, BeltInv, [Next]_vars PROVE BeltInv'
<1> USE DEF BeltInv
<1>1. CASE Quiet
  <2>1. UNCHANGED <<file, config, running, beltStage, pill, init>>
    BY <1>1, QuietKeeps
  <2>2. loop' => init' = "idle"
    BY <1>1, <2>1 DEF Quiet, Load, SenderBumps, StartLoop, StopLoop, vars
  <2>3. QED BY <2>1, <2>2 DEF OwnShapes, Fits
<1>2. CASE Saves
  <2>1. PICK r \in Bodies : SaveBody(r)
    BY <1>2, SomeBody
  <2>2. UNCHANGED <<config, init, running, loop>> /\ file' = r /\ pill' = (pill \/ ~LiveOnly(r))
    BY <2>1, SavesWhat
  <2>3. CASE ~LiveOnly(r)
    <3>1. beltStage' = None /\ pill'
      BY <2>1, <2>2, <2>3, SavesWhat DEF StagesBelts
    <3>2. QED BY <2>2, <3>1 DEF OwnShapes
  <2>4. CASE LiveOnly(r) /\ pill
    <3>1. beltStage' = None /\ pill'
      BY <2>1, <2>2, <2>4, SavesWhat DEF StagesBelts
    <3>2. QED BY <2>2, <3>1 DEF OwnShapes
  <2>5. CASE LiveOnly(r) /\ ~pill
    <3>1. beltStage' = r.shapes /\ ~pill' /\ r.belts = config.belts
      BY <2>1, <2>2, <2>5, SavesWhat DEF StagesBelts, LiveOnly
    <3>2. Fits(r.shapes, r.belts)
      BY BodyParts
    <3>3. QED BY <2>2, <3>1, <3>2 DEF OwnShapes
  <2>6. QED BY <2>3, <2>4, <2>5
<1>3. CASE Applying
  <2>1. file'.belts = file.belts /\ UNCHANGED beltStage
    BY <1>3, SomeHaptics, AppliesWhat DEF Types, RigsType
  <2>2. UNCHANGED <<config, init, running, loop, pill>>
    BY <1>3 DEF Applying, Applies, SenderWrites
  <2>3. QED BY <2>1, <2>2 DEF OwnShapes, Fits
<1>4. CASE Reloads
  <2>1. UNCHANGED <<file, beltStage, running, loop>> /\ ~loop /\ init' = "reloaded"
    BY <1>4 DEF Reloads
  <2>2. CASE config' = file /\ pill' = FALSE
    BY <2>1, <2>2 DEF OwnShapes
  <2>3. CASE UNCHANGED <<config, pill>>
    BY <2>1, <2>3 DEF OwnShapes
  <2>4. QED BY <1>4, <2>2, <2>3 DEF Reloads
<1>5. CASE Configures
  <2>1. running' = config /\ OwnShapes(config)
    BY <1>5, BodyParts DEF Configures, Reconfigured, Types, RigsType
  <2>2. QED BY <1>5, <2>1 DEF Configures, Reconfigured, OwnShapes
<1>6. CASE TakesHaptics
  <2>1. running'.belts = running.belts /\ running'.shapes = running.shapes
    BY <1>6, HapticsOnly DEF TakesHaptics, Types, RigsType, StageType
  <2>2. QED BY <1>6, <2>1 DEF TakesHaptics, OwnShapes
<1>7. CASE TakesBelts
  <2>1. running'.belts = running.belts /\ running'.shapes = beltStage
    BY <1>7, ShapesOnly DEF TakesBelts, Types, RigsType, StageType
  <2>2. Fits(beltStage, running.belts)
    BY <1>7 DEF TakesBelts
  <2>3. QED BY <1>7, <2>1, <2>2 DEF TakesBelts, OwnShapes, Fits
<1>8. QED
  BY <1>1, <1>2, <1>3, <1>4, <1>5, <1>6, <1>7, NextCases

LEMMA ToldKept == ASSUME Types, BeltInv, ToldInv, [Next]_vars PROVE ToldInv'
<1> USE DEF ToldInv
<1>1. CASE Quiet
  BY <1>1, QuietKeeps
<1>2. CASE Saves
  <2>1. PICK r \in Bodies : SaveBody(r)
    BY <1>2, SomeBody
  <2>2. UNCHANGED <<config, init, running, unread>> /\ file' = r /\ pill' = (pill \/ ~LiveOnly(r))
    BY <2>1, SavesWhat
  <2>3. CASE ~LiveOnly(r) \/ pill
    <3>1. beltStage' = None /\ pill'
      BY <2>1, <2>2, <2>3, SavesWhat DEF StagesBelts, BeltInv
    <3>2. QED BY <3>1
  <2>4. CASE LiveOnly(r) /\ ~pill
    <3>1. beltStage' = file'.shapes /\ beltStage' # None
      BY <2>1, <2>2, <2>4, SavesWhat, BodyParts, NoneAssumption DEF StagesBelts
    <3>2. QED BY <3>1
  <2>5. QED BY <2>3, <2>4
<1>3. CASE Applying
  <2>1. file'.shapes = file.shapes /\ UNCHANGED beltStage
    BY <1>3, SomeHaptics, AppliesWhat DEF Types, RigsType
  <2>2. UNCHANGED <<config, init, running, unread, pill>>
    BY <1>3 DEF Applying, Applies, SenderWrites
  <2>3. QED BY <2>1, <2>2
<1>4. CASE Reloads
  BY <1>4 DEF Reloads
<1>5. CASE Configures
  BY <1>5 DEF Configures, Reconfigured
<1>6. CASE TakesHaptics
  <2>1. running'.shapes = running.shapes
    BY <1>6, HapticsOnly DEF TakesHaptics, Types, RigsType, StageType
  <2>2. QED BY <1>6, <2>1 DEF TakesHaptics
<1>7. CASE TakesBelts
  <2>1. running'.shapes = beltStage
    BY <1>7, ShapesOnly DEF TakesBelts, Types, RigsType, StageType
  <2>2. QED BY <1>7, <2>1 DEF TakesBelts, BeltInv
<1>8. QED
  BY <1>1, <1>2, <1>3, <1>4, <1>5, <1>6, <1>7, NextCases

LEMMA HapticsKept == ASSUME Types, HapticsInv, [Next]_vars PROVE HapticsInv'
<1> USE DEF HapticsInv
<1>1. CASE Quiet
  BY <1>1, QuietKeeps
<1>2. CASE Saves
  <2>1. PICK r \in Bodies : SaveBody(r)
    BY <1>2, SomeBody
  <2>2. hapStage' = file'.haptics /\ hapStage' # None
    BY <2>1, SavesWhat, BodyParts, NoneAssumption
  <2>3. QED BY <2>2
<1>3. CASE Applying
  <2>1. hapStage' = file'.haptics /\ hapStage' # None
    BY <1>3, SomeHaptics, AppliesWhat, NoneAssumption DEF Types, RigsType
  <2>2. QED BY <2>1
<1>4. CASE Reloads
  BY <1>4 DEF Reloads
<1>5. CASE Configures
  BY <1>5 DEF Configures, Reconfigured
<1>6. CASE TakesHaptics
  <2>1. running'.haptics = hapStage
    BY <1>6, HapticsOnly DEF TakesHaptics, Types, RigsType, StageType
  <2>2. QED BY <1>6, <2>1 DEF TakesHaptics
<1>7. CASE TakesBelts
  <2>1. running'.haptics = running.haptics
    BY <1>7, ShapesOnly DEF TakesBelts, Types, RigsType, StageType
  <2>2. QED BY <1>7, <2>1 DEF TakesBelts
<1>8. QED
  BY <1>1, <1>2, <1>3, <1>4, <1>5, <1>6, <1>7, NextCases

LEMMA SettingsInvariant == Spec => [](Types /\ BeltInv /\ ToldInv /\ HapticsInv)
<1>1. Init => BeltInv /\ ToldInv /\ HapticsInv
  BY FreshIsBody, BodyParts DEF Init, BeltInv, ToldInv, HapticsInv
<1>2. Types /\ BeltInv /\ ToldInv /\ HapticsInv /\ [Next]_vars => (BeltInv /\ ToldInv /\ HapticsInv)'
  BY BeltKept, ToldKept, HapticsKept
<1>3. QED
  BY <1>1, <1>2, TypesInvariant, PTL DEF Spec

\* A belt plays only a shape made for it, through any saves, reorderings of
\* the axes, and Initializes that read the file or do not.
THEOREM BeltsKeepTheirOwn == Spec => []BeltKeepsItsOwn
<1>1. BeltInv => BeltKeepsItsOwn
  BY DEF BeltInv, BeltKeepsItsOwn
<1>2. QED
  BY <1>1, SettingsInvariant, PTL

\* Whoever saved is told what does not play yet.
THEOREM PillAlwaysTells == Spec => []PillTells
<1>1. Types /\ BeltInv /\ ToldInv => PillTells
  BY DEF Types, FlagsType, BeltInv, ToldInv, PillTells
<1>2. QED
  BY <1>1, SettingsInvariant, PTL

\* Haptics that do not play yet are staged, but for those put back.
THEOREM HapticsAlwaysTold == Spec => []HapticsTold
<1>1. HapticsInv => HapticsTold
  BY DEF HapticsInv, HapticsTold
<1>2. QED
  BY <1>1, SettingsInvariant, PTL

-----------------------------------------------------------------------------
(* The pages. *)

LEMMA PageKept == ASSUME Types, PageInv, [Next]_vars PROVE PageInv'
<1> SUFFICES ASSUME NEW q \in Pages, Current(q)', sender' = "idle" PROVE page'[q].rev = rev'
  BY DEF PageInv
<1> USE DEF Types, CountsType, Current
<1>1. page[q].gen <= gen /\ gen \in Int
  BY BoundAssumption
<1>2. CASE (Saves \/ \E p \in Pages : Load(p)) /\ page'[q] = [rev |-> rev', gen |-> gen']
  BY <1>2
<1>3. CASE page'[q] = page[q]
  <2>1. gen' = gen
    BY <1>1, <1>3, RewriteCounts
  <2>2. UNCHANGED <<rev, sender>>
    BY <1>1, <2>1, RewriteCounts
  <2>3. QED
    BY <1>3, <2>1, <2>2 DEF PageInv
<1>4. QED
  BY <1>2, <1>3, PageMoves, RewriteCounts

\* A stale page is refused, whatever was rewritten since it loaded.
THEOREM StaleAreRefused == Spec => StaleRefused
<1>1. Init => PageInv
  BY DEF Init, PageInv
<1>2. Types /\ PageInv /\ [Next]_vars
        => PageInv' /\ [\A p \in Pages : PageSaves(p) => page[p].rev = rev \/ sender = "wrote"]_vars
  <2> SUFFICES ASSUME Types, PageInv, [Next]_vars
               PROVE  PageInv' /\ \A p \in Pages : PageSaves(p) => page[p].rev = rev \/ sender = "wrote"
    OBVIOUS
  <2>1. PageInv'
    BY PageKept
  <2>2. ASSUME NEW p \in Pages, PageSaves(p) PROVE page[p].rev = rev \/ sender = "wrote"
    BY <2>2 DEF PageSaves, PageInv, Types, FlagsType
  <2>3. QED BY <2>1, <2>2
<1>3. QED
  BY <1>1, <1>2, TypesInvariant, PTL DEF Spec, StaleRefused
=============================================================================
