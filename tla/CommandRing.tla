---------------------------- MODULE CommandRing -----------------------------
(***************************************************************************)
(* The command queue of MotionController: the ring SpscQueue, filled by    *)
(* any number of surfaces (the web server, the panel, the desktop window)  *)
(* that take turns under m_cmdPushMx, and drained by the control loop each *)
(* cycle, or by configure() while the loop is stopped, which throws away   *)
(* what it finds.  A push and a pop are the loads and stores they are made *)
(* of.  What a command does to the axes is MotionController's.             *)
(***************************************************************************)
EXTENDS Integers, Sequences

CONSTANTS
    N,              \* slots of the ring, one of them always empty (32 in the code)
    Surfaces,       \* threads that enqueue commands
    Commands,
    Blank,          \* MotionCommand{}, what the slots hold at first
    Nobody          \* no surface

ASSUME SizeAssumption == N \in Nat /\ N >= 2
ASSUME BlankAssumption == Blank \in Commands
ASSUME NobodyAssumption == Nobody \notin Surfaces

VARIABLES
    slots,          \* m_data
    writeIdx,       \* m_writeIdx
    readIdx,        \* m_readIdx
    pushMx,         \* m_cmdPushMx: the surface that holds it
    pushPc,         \* where each surface is in enqueueCommand
    cmd,            \* the command it pushes
    w,              \* the write index it loaded
    consumer,       \* who drains: the "loop", "configure" or "none"
    popPc,          \* where the consumer is in pop
    item,           \* the command it copied out
    handed,         \* history: the command handed over last
    old             \* history: of the commands queued as configure's drain
                    \* began, those still queued

ringVars == <<slots, writeIdx, readIdx>>
pushVars == <<pushMx, pushPc, cmd, w>>
popVars  == <<popPc, item, handed>>
vars == <<ringVars, pushVars, consumer, popVars, old>>

Slots == 0..N-1
Succ(i) == IF i = N - 1 THEN 0 ELSE i + 1       \* (i + 1) & (N - 1)

\* The ring's content, from the slot read next to the last one written.
Length == IF writeIdx >= readIdx THEN writeIdx - readIdx ELSE writeIdx + N - readIdx
Place(k) == IF readIdx + k <= N THEN readIdx + k - 1 ELSE readIdx + k - 1 - N
Content == [k \in 1..Length |-> slots[Place(k)]]

Init ==
    /\ slots = [i \in Slots |-> Blank]
    /\ writeIdx = 0 /\ readIdx = 0
    /\ pushMx = Nobody
    /\ pushPc = [s \in Surfaces |-> "idle"]
    /\ cmd = [s \in Surfaces |-> Blank]
    /\ w = [s \in Surfaces |-> 0]
    /\ consumer = "none" /\ popPc = "idle"
    /\ item = Blank /\ handed = Blank
    /\ old = 0

-----------------------------------------------------------------------------
(* enqueueCommand: a surface pushes under the mutex. *)

PushStep(s, from, to) ==
    /\ pushPc[s] = from
    /\ pushPc' = [pushPc EXCEPT ![s] = to]

\* A bug: the surfaces do not take turns.
Lock_Not(s, c) ==
    /\ PushStep(s, "idle", "checks")
    /\ cmd' = [cmd EXCEPT ![s] = c]
    /\ UNCHANGED <<ringVars, pushMx, w, consumer, popVars, old>>

Lock(s, c) ==
    /\ pushMx = Nobody /\ pushMx' = s
    /\ PushStep(s, "idle", "checks")
    /\ cmd' = [cmd EXCEPT ![s] = c]
    /\ UNCHANGED <<ringVars, w, consumer, popVars, old>>

\* The ring is full when the slot after the next would be the one read next.
CheckFull(s) ==
    /\ PushStep(s, "checks", IF Succ(writeIdx) = readIdx THEN "unlocks" ELSE "stores")
    /\ w' = [w EXCEPT ![s] = writeIdx]
    /\ UNCHANGED <<ringVars, pushMx, cmd, consumer, popVars, old>>

Store(s) ==
    /\ PushStep(s, "stores", "publishes")
    /\ slots' = [slots EXCEPT ![w[s]] = cmd[s]]
    /\ UNCHANGED <<writeIdx, readIdx, pushMx, cmd, w, consumer, popVars, old>>

Publish(s) ==
    /\ PushStep(s, "publishes", "unlocks")
    /\ writeIdx' = Succ(w[s])
    /\ UNCHANGED <<slots, readIdx, pushMx, cmd, w, consumer, popVars, old>>

Unlock(s) ==
    /\ PushStep(s, "unlocks", "idle")
    /\ pushMx' = Nobody
    /\ UNCHANGED <<ringVars, cmd, w, consumer, popVars, old>>

Enqueue(s) ==
    \/ \E c \in Commands : Lock(s, c)
    \/ CheckFull(s) \/ Store(s) \/ Publish(s) \/ Unlock(s)

-----------------------------------------------------------------------------
(* The consumer: one thread at a time, since configure runs while the loop *)
(* is stopped.                                                             *)

StartLoop ==
    /\ consumer = "none" /\ consumer' = "loop"
    /\ UNCHANGED <<ringVars, pushVars, popVars, old>>

\* configure begins to discard what was queued before.
StartDiscard ==
    /\ consumer = "none" /\ consumer' = "configure"
    /\ old' = Length
    /\ UNCHANGED <<ringVars, pushVars, popVars>>

\* A bug: a full ring is taken for an empty one.
Found_Full ==
    /\ consumer # "none"
    /\ popPc = "idle" /\ popPc' = "copies"
    /\ readIdx # writeIdx /\ Succ(writeIdx) # readIdx
    /\ UNCHANGED <<ringVars, pushVars, consumer, item, handed, old>>

\* pop: the index read next is not the one written next.
Found ==
    /\ consumer # "none"
    /\ popPc = "idle" /\ popPc' = "copies"
    /\ readIdx # writeIdx
    /\ UNCHANGED <<ringVars, pushVars, consumer, item, handed, old>>

\* A bug: configure throws one command away, and not all.
FoundNone_Once ==
    /\ consumer # "none" /\ popPc = "idle"
    /\ readIdx # writeIdx => consumer = "configure" /\ old < Length
    /\ consumer' \in IF consumer = "loop" THEN {"loop", "none"} ELSE {"none"}
    /\ UNCHANGED <<ringVars, pushVars, popVars, old>>

\* The drain ends; the loop comes back in its next cycle, or stops.
FoundNone ==
    /\ consumer # "none" /\ popPc = "idle"
    /\ readIdx = writeIdx
    /\ consumer' \in IF consumer = "loop" THEN {"loop", "none"} ELSE {"none"}
    /\ UNCHANGED <<ringVars, pushVars, popVars, old>>

Copy ==
    /\ popPc = "copies" /\ popPc' = "frees"
    /\ item' = slots[readIdx]
    /\ UNCHANGED <<ringVars, pushVars, consumer, handed, old>>

\* The slot is freed, and the command run by the loop or thrown away.
Free ==
    /\ popPc = "frees" /\ popPc' = "idle"
    /\ readIdx' = Succ(readIdx)
    /\ handed' = item
    /\ old' = IF old = 0 THEN 0 ELSE old - 1
    /\ UNCHANGED <<slots, writeIdx, pushVars, consumer, item>>

Drain == Found \/ FoundNone \/ Copy \/ Free

-----------------------------------------------------------------------------
Next == StartLoop \/ StartDiscard \/ Drain \/ \E s \in Surfaces : Enqueue(s)

\* The consumer drains on; a surface need not push, but ends what it began.
Fairness == /\ WF_vars(Drain)
            /\ \A s \in Surfaces : WF_vars(Store(s)) /\ WF_vars(Publish(s))

Spec == Init /\ [][Next]_vars /\ Fairness

-----------------------------------------------------------------------------
\* The type invariant of the ring and of the threads at it.
TypeOK ==
    /\ slots \in [Slots -> Commands]
    /\ writeIdx \in Slots /\ readIdx \in Slots
    /\ pushMx \in Surfaces \cup {Nobody}
    /\ pushPc \in [Surfaces -> {"idle", "checks", "stores", "publishes", "unlocks"}]
    /\ cmd \in [Surfaces -> Commands] /\ w \in [Surfaces -> Slots]
    /\ consumer \in {"none", "loop", "configure"}
    /\ popPc \in {"idle", "copies", "frees"}
    /\ item \in Commands /\ handed \in Commands
    /\ old \in 0..N-1

Fifo == INSTANCE CommandFifo WITH queue <- Content, Capacity <- N - 1

\* Whatever the surfaces and the consumer do at the same time, commands are
\* handed over once each, whole and in the order they were pushed
\* (SpscQueue under enqueueCommand's mutex).
ImplementsFifo == Fifo!Spec

\* What was queued when an Initialize began to discard does not run at the
\* next start of the loop (MotionController::configure).
OldDiscarded == consumer = "loop" => old = 0

\* A surface never writes the slot the consumer copies from.
SlotsApart == \A s \in Surfaces : pushPc[s] = "stores" /\ popPc = "copies" => w[s] # readIdx

\* A full ring is room again as long as the loop runs: no surface's commands
\* are refused for good.
RoomAgain == <>[](consumer = "loop") => []<>(Length < N - 1)
=============================================================================
