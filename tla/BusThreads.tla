----------------------------- MODULE BusThreads -----------------------------
(***************************************************************************)
(* The threads that use the EtherCAT context beside each other: the        *)
(* control loop, the recovery thread, the SDO worker that reads the        *)
(* drives' temperatures, and the init worker that starts and joins them    *)
(* and opens and closes the context.                                       *)
(*                                                                         *)
(* Left out: the pump (BusOwnership has it), the seat pass of a de-init,   *)
(* and the SDO worker's submitted operations, which no code submits.  A    *)
(* start during a de-init is left out as well (Panel shows what it does).  *)
(***************************************************************************)
EXTENDS Recovery

VARIABLES
    sdo,            \* the SDO worker: off, free, gated or reads
    sdoStop,        \* SdoWorker::m_stop
    stale,          \* m_reinitGen moved since the worker loaded it
    temps,          \* the chains the cached temperatures are of: this one, an old one
    master,         \* closed, opened (initialized, not in OP) or op
    worker          \* the init worker: where it is

sdoVars == <<sdo, sdoStop, stale, temps>>
lifeVars == <<master, worker>>
vars == <<recoveryVars, sdoVars, lifeVars>>

Init ==
    /\ RecoveryInit
    /\ sdo = "off" /\ sdoStop = FALSE /\ stale = FALSE /\ temps = {}
    /\ master = "closed" /\ worker = "idle"

TypeOK ==
    /\ RecoveryTypeOK
    /\ sdo \in {"off", "free", "gated", "reads"}
    /\ {sdoStop, stale} \subseteq BOOLEAN
    /\ temps \subseteq {"this", "old"}
    /\ master \in {"closed", "opened", "op"}
    /\ worker \in {"idle", "init", "opens", "starts", "deinit", "joinsLoop", "joinsRecovery"}

Initializing == worker \in {"init", "opens", "starts"}

-----------------------------------------------------------------------------
(* The SDO worker. *)

\* The mailbox is served by the control loop only: no transfer without it.
Gate == master = "op" /\ ~Initializing /\ loop = "runs"

\* A drive's temperature is due, and the gate is open.
PicksTemp ==
    /\ sdo = "free" /\ ~sdoStop
    /\ Gate
    /\ sdo' = "gated" /\ stale' = FALSE
    /\ UNCHANGED <<sdoStop, temps>>

\* Under sdoTransferMutex the gate is looked at again.
StartsTransfer ==
    /\ sdo = "gated"
    /\ sdo' = IF Gate /\ ~stale THEN "reads" ELSE "free"
    /\ UNCHANGED <<sdoStop, stale, temps>>

\* A bug: the read has no time-out.
TransferEnds_Waits ==
    /\ sdo = "reads"
    /\ loop = "runs" /\ \E s \in Slaves \ mbxLost : Answers(s)
    /\ temps' = IF stale THEN temps ELSE temps \cup {"this"}
    /\ sdo' = "free"
    /\ UNCHANGED <<sdoStop, stale>>

\* The loop's processCyclicMailbox brings the answer, or the read times out;
\* an answer of this chain is cached.
TransferEnds ==
    /\ sdo = "reads"
    /\ \/ /\ loop = "runs" /\ \E s \in Slaves \ mbxLost : Answers(s)
          /\ temps' = IF stale THEN temps ELSE temps \cup {"this"}
       \/ UNCHANGED temps
    /\ sdo' = "free"
    /\ UNCHANGED <<sdoStop, stale>>

SdoEnds ==
    /\ sdo = "free" /\ sdoStop
    /\ sdo' = "off"
    /\ UNCHANGED <<sdoStop, stale, temps>>

SdoThread ==
    /\ PicksTemp \/ StartsTransfer \/ TransferEnds \/ SdoEnds
    /\ UNCHANGED <<recoveryVars, lifeVars>>

-----------------------------------------------------------------------------
(* The init worker. *)

\* initializeAndEnterOp and the de-init both begin with SdoWorker::stop.
Requests(w) ==
    /\ worker = "idle"
    /\ Event
    /\ worker' = w
    /\ sdoStop' = (sdo # "off")
    /\ UNCHANGED <<slaveVars, viewVars, threadVars, needsRecovery, loopVars,
                   sdo, stale, temps, master>>

RequestInit == master # "op" /\ Requests("init")
RequestDeinit == master # "closed" /\ Requests("deinit")

\* A bug: the cached temperatures outlive the chain.
Discards_Kept == stale' = TRUE /\ UNCHANGED temps

\* onChainReinit: in-flight work is stale, the cached temperatures are void.
Discards == stale' = TRUE /\ temps' = {}

\* The worker is joined and the chain's leftovers dropped; a context that is
\* open without OP is closed (no thread was started on it).
InitQuiesces ==
    /\ worker = "init" /\ sdo = "off"
    /\ Discards
    /\ worker' = "opens" /\ master' = "closed"
    /\ UNCHANGED <<recoveryVars, sdo, sdoStop>>

\* The scan, the configuration and the walk to OP, which succeed with every
\* slave present or fail anywhere.
Opens ==
    /\ worker = "opens"
    /\ \/ /\ \A s \in Slaves : al[s] # "off"
          /\ ~lossy
          /\ al' = [s \in Slaves |-> "op"]
          /\ armed' = Slaves
          /\ master' = "op" /\ worker' = "starts"
       \/ /\ al' = [s \in Slaves |-> IF al[s] = "off" THEN "off" ELSE "preop"]
          /\ armed' = {}
          /\ master' \in {"closed", "opened"} /\ worker' = "idle"
    /\ islost' = {} /\ mbxLost' = {}
    /\ UNCHANGED <<lossy, state, fails, pending, threadVars, needsRecovery, loopVars,
                   events, sdoVars>>

\* startRecoveryThread and SdoWorker::start.
StartsThreads ==
    /\ worker = "starts"
    /\ recovery' = "waits" /\ recoveryStop' = FALSE /\ needsRecovery' = FALSE
    /\ fails' = [s \in Slaves |-> 0] /\ pending' = {}
    /\ sdo' = "free" /\ sdoStop' = FALSE /\ stale' = FALSE
    /\ worker' = "idle"
    /\ UNCHANGED <<slaveVars, state, islost, mbxLost, armed, at, loopVars, events,
                   temps, master>>

\* The de-init: the mailbox is quiet before the loop goes.
JoinsSdo ==
    /\ worker = "deinit" /\ sdo = "off"
    /\ worker' = "joinsLoop"
    /\ UNCHANGED <<recoveryVars, sdoVars, master>>

JoinsLoop ==
    /\ worker = "joinsLoop" /\ loop = "off"
    /\ worker' = "joinsRecovery" /\ recoveryStop' = (recovery # "off")
    /\ UNCHANGED <<slaveVars, viewVars, recovery, at, needsRecovery, loopVars, events,
                   sdoVars, master>>

\* A bug: the context is closed while the recovery thread is told to stop.
RecoveryIsJoined_Not == TRUE
RecoveryIsJoined == recovery = "off"

\* shutdown: the recovery thread is joined, the slaves go to INIT and the
\* context is closed.
Closes ==
    /\ worker = "joinsRecovery" /\ RecoveryIsJoined
    /\ recoveryStop' = FALSE
    /\ al' = [s \in Slaves |-> IF Answers(s) THEN "init" ELSE al[s]]
    /\ armed' = {}
    /\ temps' = IF temps = {} THEN {} ELSE {"old"}
    /\ master' = "closed" /\ worker' = "idle"
    /\ UNCHANGED <<lossy, state, islost, mbxLost, fails, pending, recovery, at,
                   needsRecovery, loopVars, events, sdo, sdoStop, stale>>

InitWorker ==
    InitQuiesces \/ Opens \/ StartsThreads \/ JoinsSdo \/ JoinsLoop \/ Closes

-----------------------------------------------------------------------------
(* The loop begins and ends. *)

\* The cycle counter starts over while lastRecoverySignal does not: their
\* difference is anything.
StartLoop ==
    /\ master = "op" /\ loop = "off"
    /\ worker \in {"idle", "starts"}
    /\ Event
    /\ loop' = "runs" /\ misses' = 0 /\ since' \in 0..(Interval + 1) /\ hwEstop' = FALSE
    /\ UNCHANGED <<slaveVars, viewVars, threadVars, needsRecovery, sdoVars, lifeVars>>

LoopEnds ==
    /\ loop = "runs"
    /\ loop' = "off" /\ misses' = 0 /\ since' = 0 /\ hwEstop' = FALSE
    /\ UNCHANGED <<slaveVars, viewVars, threadVars, needsRecovery, sdoVars, lifeVars>>

StopLoop == Event /\ LoopEnds
JoinedLoopEnds == worker = "joinsLoop" /\ LoopEnds /\ UNCHANGED events

-----------------------------------------------------------------------------

Bus == (Disturbed \/ Cycle \/ RecoveryThread) /\ UNCHANGED <<sdoVars, lifeVars>>

Next ==
    \/ Bus
    \/ SdoThread
    \/ RequestInit \/ RequestDeinit \/ InitWorker
    \/ StartLoop \/ StopLoop \/ JoinedLoopEnds

Spec == Init /\ [][Next]_vars

\* The threads run; what happens from outside need not.
Fairness ==
    /\ WF_vars(Cycle /\ UNCHANGED <<sdoVars, lifeVars>>)
    /\ WF_vars(RecoveryThread /\ UNCHANGED <<sdoVars, lifeVars>>)
    /\ WF_vars(SdoThread)
    /\ WF_vars(InitWorker)
    /\ WF_vars(JoinedLoopEnds)

LiveSpec == Spec /\ Fairness

\* Nobody is in the context when it is gone: closed, or replaced by an
\* initialize (EtherCATMaster::shutdown and initializeAndEnterOp join every
\* thread that uses it first).
ContextAlive ==
    master # "op" => recovery = "off" /\ sdo \in {"off", "free"} /\ loop = "off"

\* Once an initialize is over, every temperature that is shown was read from
\* the chain it opened (SdoWorker::onChainReinit).
FreshTemps == master = "op" /\ worker # "opens" => "old" \notin temps

\* An initialize and a de-init end, whatever the SDO worker waits for and
\* wherever the recovery thread is.
TeardownEnds == worker # "idle" ~> worker = "idle"

\* The steps of the SDO worker and of the recovery thread until they are off,
\* once they are told to stop.
SdoLeft == CASE sdo = "gated" -> 3 [] sdo = "reads" -> 2 [] sdo = "free" -> 1 [] OTHER -> 0
ScanLeft == CASE recovery \in {"reconfigs", "checks"} -> 3
              [] recovery = "recovers" -> 2
              [] recovery \in {"waits", "decides"} -> 1
              [] OTHER -> 0

\* What TeardownEnds rests on: a thread the init worker joins was told to stop
\* and is off after three of its steps at most, wherever it is; neither the
\* rest of a scan nor another transfer comes first.
JoinsAreShort ==
    /\ [](worker \in {"init", "deinit"} /\ sdo # "off" => sdoStop)
    /\ [](worker = "joinsRecovery" /\ recovery # "off" => recoveryStop)
    /\ [][sdoStop /\ worker # "starts" =>
            IF SdoThread THEN SdoLeft' < SdoLeft ELSE SdoLeft' = SdoLeft]_vars
    /\ [][recoveryStop /\ worker # "starts" =>
            IF RecoveryThread THEN ScanLeft' < ScanLeft ELSE ScanLeft' = ScanLeft]_vars
=============================================================================
