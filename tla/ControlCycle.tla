---------------------------- MODULE ControlCycle ----------------------------
(***************************************************************************)
(* The Controller's cycle (pkg/controller/controller.go, calibrator.go):   *)
(* Optimize(), run by the ticker goroutine and by every /invoke handler    *)
(* under one mutex, calls the Collector, the tuner, the optimizer and the  *)
(* Actuator in turn.                                                       *)
(*                                                                         *)
(* Every remote call is a step of its own.  Any of them may fail, the      *)
(* tuner may restart and forget what it learned, and so may the            *)
(* Controller.  The tuner and the optimizer are not part of the            *)
(* repository; they are modelled from what the Controller relies on.       *)
(*                                                                         *)
(* A pair is a (model, accelerator); model data is the set of pairs whose  *)
(* perfParms are not zero.                                                 *)
(***************************************************************************)
EXTENDS Naturals, FiniteSets

CONSTANTS Ticker,             \* the goroutine of the control period's ticker
          Invokers,           \* the /invoke handlers
          Nobody,             \* no caller
          Pairs,              \* the (model, accelerator) pairs
          Seeded,             \* the pairs with perfParms in model-data.json
          Dynamic,            \* INFERNO_CONTROL_DYNAMIC
          TunerEnabled,       \* TUNER_HOST is set
          CalibrationEnabled, \* INFERNO_CALIBRATION_ENABLED
          WarmUpTimeout,      \* INFERNO_WARM_UP_TIMEOUT, 0 = no timeout
          MaxFaults           \* bound on failed calls and restarts

Callers == {Ticker} \cup Invokers

ASSUME ControlCycleAssumption ==
    /\ Nobody \notin Callers
    /\ Seeded \subseteq Pairs
    /\ {Dynamic, TunerEnabled, CalibrationEnabled} \subseteq BOOLEAN
    /\ WarmUpTimeout \in Nat /\ MaxFaults \in Nat

VARIABLES
    \* the Controller
    mutex,            \* the caller inside Optimize
    pc,               \* the call each caller makes next
    job,              \* the local variables of each caller's Optimize
    collectedBy,      \* whose /collect answer State holds: Servers.Spec and ServerMap
    servedPairs,      \* the pairs of those servers
    specModels,       \* SystemData.Spec.Models, what the optimizer is given
    currentModelData, \* State.currentModelData, what the tuner's /merge is given
    warmUpCount,      \* consecutive cycles with a warming tuner, kept up to the timeout
    \* the tuner
    fit,              \* how far the tuner is with each pair
    \* history
    held,             \* cycles given up at the warm-up gate since the gate last opened
    clean,            \* nothing failed since the mutex was last taken
    faults            \* failed calls and restarts so far

state == <<collectedBy, servedPairs, specModels, currentModelData>>
vars == <<mutex, pc, job, state, warmUpCount, fit, held, clean, faults>>

Fits == {"unseen", "collecting", "illConditioned", "fitted"}
Calls == {"read", "collect", "tune", "status", "sweep", "calibrate", "warmup", "merge",
          "optimize", "actuate"}

\* replicas: the pairs in ReplicaSpecs; todo: statuses to go through; pair: the one being
\* calibrated; alloc: whose servers the solution is for; calibrated: done in this cycle
Jobs == [replicas : SUBSET Pairs, todo : SUBSET Pairs, pair : SUBSET Pairs,
         alloc : Callers \cup {Nobody}, calibrated : SUBSET Pairs]

NoJob == [replicas |-> {}, todo |-> {}, pair |-> {}, alloc |-> Nobody, calibrated |-> {}]

TypeOK ==
    /\ mutex \in Callers \cup {Nobody}
    /\ pc \in [Callers -> {"idle", "wait"} \cup Calls]
    /\ job \in [Callers -> Jobs]
    /\ collectedBy \in Callers \cup {Nobody}
    /\ servedPairs \subseteq Pairs
    /\ specModels \subseteq Pairs /\ currentModelData \subseteq Pairs
    /\ warmUpCount \in 0..WarmUpTimeout
    /\ fit \in [Pairs -> Fits]
    /\ held \in 0..WarmUpTimeout
    /\ clean \in BOOLEAN
    /\ faults \in 0..MaxFaults

Init ==
    /\ mutex = Nobody
    /\ pc = [c \in Callers |-> "idle"]
    /\ job = [c \in Callers |-> NoJob]
    /\ collectedBy = Nobody /\ servedPairs = {}
    /\ specModels = Seeded /\ currentModelData = Seeded
    /\ warmUpCount = 0
    /\ fit = [p \in Pairs |-> "unseen"]
    /\ held = 0 /\ clean = TRUE /\ faults = 0

Upto(n) == IF n < WarmUpTimeout THEN n ELSE WarmUpTimeout

-----------------------------------------------------------------------------
(***************************************************************************)
(* Flow of control between the calls of one cycle.                         *)
(***************************************************************************)

At(c, call) == pc[c] = call
Goto(c, call) == pc' = [pc EXCEPT ![c] = call]

\* Optimize returns, with or without an error; the deferred Unlock runs
Return(c) ==
    /\ Goto(c, "idle")
    /\ mutex' = Nobody
    /\ job' = [job EXCEPT ![c] = NoJob]

\* Mutant: the count starts again with every cycle that is held.
WarmUpGateForgets(c) ==
    IF WarmUpTimeout = 0 \/ warmUpCount + 1 < WarmUpTimeout
    THEN Return(c) /\ held' = Upto(held + 1) /\ warmUpCount' = 0
    ELSE Goto(c, "optimize") /\ held' = 0 /\ warmUpCount' = Upto(warmUpCount + 1)
         /\ UNCHANGED <<mutex, job>>

\* Mutant: one cycle too many is held.
WarmUpGateLate(c) ==
    /\ warmUpCount' = Upto(warmUpCount + 1)
    /\ IF WarmUpTimeout = 0 \/ warmUpCount < WarmUpTimeout
       THEN Return(c) /\ held' = Upto(held + 1)
       ELSE Goto(c, "optimize") /\ held' = 0 /\ UNCHANGED <<mutex, job>>

\* Mutant: the timeout is not consulted.
WarmUpGateEndless(c) ==
    /\ warmUpCount' = warmUpCount + 1
    /\ Return(c) /\ held' = Upto(held + 1)

\* the tuner is warming up: the cycle ends here, until the timeout overrides it
WarmUpGate(c) ==
    /\ warmUpCount' = Upto(warmUpCount + 1)
    /\ IF WarmUpTimeout = 0 \/ warmUpCount + 1 < WarmUpTimeout
       THEN Return(c) /\ held' = Upto(held + 1)
       ELSE Goto(c, "optimize") /\ held' = 0 /\ UNCHANGED <<mutex, job>>

\* the tuner is ready, was not asked or did not answer
OpenGate(c) ==
    /\ warmUpCount' = 0 /\ held' = 0
    /\ Goto(c, "optimize")
    /\ UNCHANGED mutex

\* the statuses not handled yet; after the last one the gate is consulted
NextStatus(c, todo, calibrated) ==
    /\ Goto(c, IF todo = {} THEN "warmup" ELSE "sweep")
    /\ job' = [job EXCEPT ![c] = [@ EXCEPT !.todo = todo, !.pair = {}, !.calibrated = calibrated]]
    /\ UNCHANGED mutex

AfterTune(c) ==
    /\ Goto(c, IF CalibrationEnabled THEN "status" ELSE "warmup")
    /\ UNCHANGED <<mutex, job>>

-----------------------------------------------------------------------------
(***************************************************************************)
(* Optimize, call by call.                                                 *)
(***************************************************************************)

\* the ticker fires, or a request arrives; Lock is next
Call(c) ==
    /\ At(c, "idle")
    /\ Goto(c, "wait")
    /\ UNCHANGED <<mutex, job, state, warmUpCount, fit, held>>

\* Mutant: the cycle is not locked.
LockNothing(c) ==
    /\ At(c, "wait")
    /\ mutex' = c
    /\ Goto(c, "read")
    /\ UNCHANGED <<job, state, warmUpCount, fit, held>>

Lock(c) ==
    /\ At(c, "wait") /\ mutex = Nobody
    /\ mutex' = c
    /\ Goto(c, "read")
    /\ UNCHANGED <<job, state, warmUpCount, fit, held>>

\* capacity data always, static data in dynamic mode, which drops what was merged
ReadData(c) ==
    /\ At(c, "read")
    /\ Goto(c, "collect")
    /\ IF Dynamic THEN specModels' = Seeded /\ currentModelData' = Seeded
                  ELSE UNCHANGED <<specModels, currentModelData>>
    /\ UNCHANGED <<mutex, job, collectedBy, servedPairs, warmUpCount, fit, held>>

\* Replicas that report are replicas of collected servers.  Without any, or without a
\* tuner, the cycle goes straight to the optimizer, as if the tuner had warmed up.
GETCollectorInfo(c) ==
    /\ At(c, "collect")
    /\ \E served \in SUBSET Pairs : \E replicas \in SUBSET served :
          /\ served # {}
          /\ collectedBy' = c /\ servedPairs' = served
          /\ job' = [job EXCEPT ![c].replicas = replicas]
          /\ IF TunerEnabled /\ replicas # {}
             THEN Goto(c, "tune") /\ UNCHANGED <<mutex, warmUpCount, held>>
             ELSE OpenGate(c)
    /\ UNCHANGED <<specModels, currentModelData, fit>>

\* external: what an observation of a pair may do to its fit
Tuned(f) ==
    CASE f = "unseen" -> {"collecting"}
      [] f = "collecting" -> {"collecting", "illConditioned", "fitted"}
      [] f = "illConditioned" -> {"illConditioned", "fitted"}
      [] f = "fitted" -> {"fitted"}

\* external: a tuner that has seen nothing or has a pair without a good fit
WarmingUp ==
    \/ \A p \in Pairs : fit[p] = "unseen"
    \/ \E p \in Pairs : fit[p] \in {"collecting", "illConditioned"}

\* whatever /tune answers, 422 included, the cycle goes on
POSTTune(c) ==
    /\ At(c, "tune")
    /\ fit' \in [Pairs -> Fits]
    /\ \A p \in Pairs : fit'[p] \in IF p \in job[c].replicas THEN Tuned(fit[p]) ELSE {fit[p]}
    /\ AfterTune(c)
    /\ UNCHANGED <<state, warmUpCount, held>>

\* the pairs with an ill-conditioned fit need calibration
GETCalibrationStatus(c) ==
    /\ At(c, "status")
    /\ NextStatus(c, {p \in Pairs : fit[p] = "illConditioned"}, {})
    /\ UNCHANGED <<state, warmUpCount, fit, held>>

\* Mutant: a pair that is skipped stays on the list.
GETSweepAgain(c, p) ==
    /\ At(c, "sweep") /\ p \in job[c].todo
    /\ \/ NextStatus(c, job[c].todo, job[c].calibrated)
       \/ /\ p \in servedPairs
          /\ Goto(c, "calibrate")
          /\ job' = [job EXCEPT ![c].pair = {p}]
          /\ UNCHANGED mutex
    /\ UNCHANGED <<state, warmUpCount, fit, held>>

\* a pair without a server is skipped, and so is a sweep with fewer than two points
GETSweep(c, p) ==
    /\ At(c, "sweep") /\ p \in job[c].todo
    /\ \/ NextStatus(c, job[c].todo \ {p}, job[c].calibrated)
       \/ /\ p \in servedPairs
          /\ Goto(c, "calibrate")
          /\ job' = [job EXCEPT ![c].pair = {p}]
          /\ UNCHANGED mutex
    /\ UNCHANGED <<state, warmUpCount, fit, held>>

\* the tuner stores a graduated fit, or rejects points that lack spread
POSTCalibrate(c, p) ==
    /\ At(c, "calibrate") /\ job[c].pair = {p}
    /\ \/ /\ fit' = [fit EXCEPT ![p] = "fitted"]
          /\ NextStatus(c, job[c].todo \ {p}, job[c].calibrated \cup {p})
       \/ /\ NextStatus(c, job[c].todo \ {p}, job[c].calibrated)
          /\ UNCHANGED fit
    /\ UNCHANGED <<state, warmUpCount, held>>

GETWarmUp(c) ==
    /\ At(c, "warmup")
    /\ IF WarmingUp THEN WarmUpGate(c)
       ELSE Goto(c, "merge") /\ UNCHANGED <<mutex, job, warmUpCount, held>>
    /\ UNCHANGED <<state, fit>>

\* external: the tuner overlays what it learned on the model data it is sent
Merged(modelData) == modelData \cup {p \in Pairs : fit[p] = "fitted"}

\* Mutant: the data of the files is sent instead of the current one.
POSTMergeOriginal(c) ==
    /\ At(c, "merge")
    /\ currentModelData' = Merged(Seeded)
    /\ specModels' = currentModelData'
    /\ OpenGate(c)
    /\ UNCHANGED <<job, collectedBy, servedPairs, fit>>

\* Mutant: the optimizer's copy is not replaced.
POSTMergeCurrentOnly(c) ==
    /\ At(c, "merge")
    /\ currentModelData' = Merged(currentModelData)
    /\ OpenGate(c)
    /\ UNCHANGED <<job, collectedBy, servedPairs, specModels, fit>>

POSTMerge(c) ==
    /\ At(c, "merge")
    /\ currentModelData' = Merged(currentModelData)
    /\ specModels' = currentModelData'
    /\ OpenGate(c)
    /\ UNCHANGED <<job, collectedBy, servedPairs, fit>>

\* external: a server whose pair has zero perfParms makes the optimizer fail
POSTOptimize(c) ==
    /\ At(c, "optimize")
    /\ IF servedPairs \subseteq specModels
       THEN /\ Goto(c, "actuate")
            /\ job' = [job EXCEPT ![c].alloc = collectedBy]
            /\ UNCHANGED mutex
       ELSE Return(c)
    /\ UNCHANGED <<state, warmUpCount, fit, held>>

\* The record of the cycle that follows a success is read by nobody here.
POSTActuator(c) ==
    /\ At(c, "actuate")
    /\ Return(c)
    /\ UNCHANGED <<state, warmUpCount, fit, held>>

Optimize(c) ==
    \/ ReadData(c) \/ GETCollectorInfo(c) \/ POSTTune(c) \/ GETCalibrationStatus(c)
    \/ \E p \in Pairs : GETSweep(c, p) \/ POSTCalibrate(c, p)
    \/ GETWarmUp(c) \/ POSTMerge(c) \/ POSTOptimize(c) \/ POSTActuator(c)

-----------------------------------------------------------------------------
(***************************************************************************)
(* Failures.                                                               *)
(***************************************************************************)

\* a file that cannot be read, possibly after model-data.json was; no collection, or an
\* empty one; no solution; an update that failed, possibly half-way: the cycle is aborted
AbortFails(c) ==
    /\ pc[c] \in {"read", "collect", "optimize", "actuate"}
    /\ Return(c)
    /\ specModels' \in IF Dynamic /\ At(c, "read") THEN {specModels, Seeded} ELSE {specModels}
    /\ UNCHANGED <<collectedBy, servedPairs, currentModelData, warmUpCount, fit, held>>

\* /tune, /calibration-status or /merge fails: the cycle goes on without it
TunerFails(c) ==
    /\ \/ At(c, "tune") /\ AfterTune(c) /\ UNCHANGED <<warmUpCount, held>>
       \/ At(c, "status") /\ Goto(c, "warmup") /\ UNCHANGED <<mutex, job, warmUpCount, held>>
       \/ At(c, "merge") /\ OpenGate(c) /\ UNCHANGED job
    /\ UNCHANGED <<state, fit>>

\* an unanswered /calibrate may have been applied
CalibrateFails(c, p) ==
    /\ At(c, "calibrate") /\ job[c].pair = {p}
    /\ fit' = [fit EXCEPT ![p] = "fitted"]
    /\ NextStatus(c, job[c].todo \ {p}, job[c].calibrated)
    /\ UNCHANGED <<state, warmUpCount, held>>

\* /warmup cannot be reached: neither gate nor merge
WarmUpFails(c) ==
    /\ At(c, "warmup")
    /\ OpenGate(c)
    /\ UNCHANGED <<job, state, fit>>

TunerRestart ==
    /\ fit' = [p \in Pairs |-> "unseen"]
    /\ UNCHANGED <<mutex, pc, job, state, warmUpCount, held>>

ControllerRestart ==
    /\ mutex' = Nobody
    /\ pc' = [c \in Callers |-> "idle"]
    /\ job' = [c \in Callers |-> NoJob]
    /\ collectedBy' = Nobody /\ servedPairs' = {}
    /\ specModels' = Seeded /\ currentModelData' = Seeded
    /\ warmUpCount' = 0 /\ held' = 0
    /\ UNCHANGED fit

Failure ==
    /\ \/ TunerRestart \/ ControllerRestart
       \/ \E c \in Callers : \/ AbortFails(c) \/ TunerFails(c) \/ WarmUpFails(c)
                             \/ \E p \in Pairs : CalibrateFails(c, p)
    /\ faults < MaxFaults /\ faults' = faults + 1
    /\ clean' = FALSE

Next ==
    \/ \E c \in Callers : \/ Call(c) /\ UNCHANGED <<clean, faults>>
                          \/ Lock(c) /\ clean' = TRUE /\ UNCHANGED faults
                          \/ Optimize(c) /\ UNCHANGED <<clean, faults>>
    \/ Failure

\* The ticker keeps firing, sync.Mutex starves nobody and every remote call is answered
\* in the end.  Requests to /invoke may come or not.
Fairness ==
    /\ WF_vars(Call(Ticker) /\ UNCHANGED <<clean, faults>>)
    /\ \A c \in Callers : /\ SF_vars(Lock(c) /\ clean' = TRUE /\ UNCHANGED faults)
                          /\ WF_vars(Optimize(c) /\ UNCHANGED <<clean, faults>>)

Spec == Init /\ [][Next]_vars
FairSpec == Spec /\ Fairness

-----------------------------------------------------------------------------
(***************************************************************************)
(* Properties                                                              *)
(***************************************************************************)

\* A caller decides on its own snapshot: the solution it sends to the Actuator, and the
\* ServerMap it sends along, come from its own /collect call, though every caller's
\* snapshot goes through the same fields of State.
OwnSnapshot ==
    \A c \in Callers :
        /\ At(c, "optimize") => collectedBy = c
        /\ At(c, "actuate") => collectedBy = c /\ job[c].alloc = c

\* A tuner that never gets ready holds back fewer than WarmUpTimeout cycles before the
\* optimizer is called, however many cycles are aborted in between and whoever runs them.
HoldBounded == WarmUpTimeout > 0 => held < WarmUpTimeout

\* Learned parameters are kept: neither a tuner that restarts and forgets them nor one that
\* fails takes them away from the optimizer.  The Controller loses them only when it
\* restarts, or when it reads the files again in dynamic mode.
LearnedKept ==
    [][\/ ControllerRestart
       \/ Dynamic /\ \E c \in Callers : At(c, "read")
       \/ specModels \subseteq specModels']_vars

\* A pair calibrated in this cycle is optimized with its calibrated parameters in the same
\* cycle, unless something failed on the way or the warm-up timeout fired.
CalibratedIsUsed ==
    \A c \in Callers :
        At(c, "optimize") /\ clean /\ warmUpCount = 0 => job[c].calibrated \subseteq specModels

\* With a timeout the loop goes on deciding, however slow the tuner learns.
KeepsDeciding == []<>(\E c \in Callers : At(c, "optimize"))

\* Every call of Optimize, by the ticker or for /invoke, returns.
CallsReturn == \A c \in Callers : At(c, "wait") ~> At(c, "idle")

\* docs/operational-notes.md: "the controller never calls the optimizer during EKF warm-up",
\* the warm-up timeout being the only exception.
NeverOptimizesInWarmUp == \A c \in Callers : At(c, "optimize") => ~ WarmingUp

=============================================================================
