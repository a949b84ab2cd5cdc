------------------------- MODULE ControlCycleProofs -------------------------
(***************************************************************************)
(* Type correctness of the Controller's cycle and its three safety         *)
(* properties, for any callers, pairs, timeout and modes.                  *)
(***************************************************************************)
EXTENDS ControlCycle, TLAPS

\* The type invariant is kept by every step.
LEMMA TypeStep == TypeOK /\ [Next]_vars => TypeOK'
<1> SUFFICES ASSUME TypeOK, [Next]_vars PROVE TypeOK'
    OBVIOUS
<1> USE ControlCycleAssumption DEF TypeOK
<1>u. \A n \in Nat : Upto(n) \in 0..WarmUpTimeout
    BY DEF Upto
<1>r. ASSUME NEW c \in Callers, Return(c)
      PROVE  /\ mutex' \in Callers \cup {Nobody}
             /\ pc' \in [Callers -> {"idle", "wait"} \cup Calls]
             /\ job' \in [Callers -> Jobs]
    BY <1>r DEF Return, Goto, NoJob, Jobs
<1>g. ASSUME NEW c \in Callers, WarmUpGate(c)
      PROVE  /\ mutex' \in Callers \cup {Nobody}
             /\ pc' \in [Callers -> {"idle", "wait"} \cup Calls]
             /\ job' \in [Callers -> Jobs]
             /\ warmUpCount' \in 0..WarmUpTimeout
             /\ held' \in 0..WarmUpTimeout
    <2>1. warmUpCount' \in 0..WarmUpTimeout
        BY <1>g, <1>u DEF WarmUpGate
    <2>2. CASE Return(c) /\ held' = Upto(held + 1)
        BY <2>1, <2>2, <1>r, <1>u
    <2>3. CASE Goto(c, "optimize") /\ held' = 0 /\ UNCHANGED <<mutex, job>>
        BY <2>1, <2>3 DEF Goto, Calls
    <2>4. QED
        BY <1>g, <2>2, <2>3 DEF WarmUpGate
<1>o. ASSUME NEW c \in Callers, OpenGate(c)
      PROVE  /\ mutex' \in Callers \cup {Nobody}
             /\ pc' \in [Callers -> {"idle", "wait"} \cup Calls]
             /\ warmUpCount' \in 0..WarmUpTimeout
             /\ held' \in 0..WarmUpTimeout
    BY <1>o DEF OpenGate, Goto, Calls
<1>n. ASSUME NEW c \in Callers, NEW todo \in SUBSET Pairs, NEW done \in SUBSET Pairs,
             NextStatus(c, todo, done)
      PROVE  /\ mutex' \in Callers \cup {Nobody}
             /\ pc' \in [Callers -> {"idle", "wait"} \cup Calls]
             /\ job' \in [Callers -> Jobs]
    <2> DEFINE next == [job[c] EXCEPT !.todo = todo, !.pair = {}, !.calibrated = done]
    <2>1. job[c] \in Jobs
        OBVIOUS
    <2>2. next \in Jobs
        BY <2>1 DEF Jobs
    <2>3. job' = [job EXCEPT ![c] = next]
        BY <1>n DEF NextStatus
    <2>4. job' \in [Callers -> Jobs]
        BY <2>2, <2>3
    <2>5. QED
        BY <1>n, <2>4 DEF NextStatus, Goto, Calls
<1>j. ASSUME NEW c \in Callers
      PROVE  job[c].todo \in SUBSET Pairs /\ job[c].calibrated \in SUBSET Pairs
    BY DEF Jobs
<1>1. ASSUME NEW c \in Callers, Call(c), UNCHANGED <<clean, faults>>
      PROVE  TypeOK'
    BY <1>1 DEF Call, Goto, state
<1>2. ASSUME NEW c \in Callers, Lock(c), clean' = TRUE, UNCHANGED faults
      PROVE  TypeOK'
    BY <1>2 DEF Lock, Goto, Calls, state
<1>3. ASSUME NEW c \in Callers, Optimize(c), UNCHANGED <<clean, faults>>
      PROVE  TypeOK'
    <2> USE <1>3
    <2>1. CASE ReadData(c)
        BY <2>1 DEF ReadData, Goto, Calls
    <2>2. CASE GETCollectorInfo(c)
        <3>1. PICK served \in SUBSET Pairs : \E replicas \in SUBSET served :
                  /\ collectedBy' = c /\ servedPairs' = served
                  /\ job' = [job EXCEPT ![c].replicas = replicas]
                  /\ IF TunerEnabled /\ replicas # {}
                     THEN Goto(c, "tune") /\ UNCHANGED <<mutex, warmUpCount, held>>
                     ELSE OpenGate(c)
            BY <2>2 DEF GETCollectorInfo
        <3>2. job' \in [Callers -> Jobs]
            BY <3>1 DEF Jobs
        <3>3. CASE Goto(c, "tune") /\ UNCHANGED <<mutex, warmUpCount, held>>
            BY <2>2, <3>1, <3>2, <3>3 DEF Goto, Calls, GETCollectorInfo
        <3>4. CASE OpenGate(c)
            BY <2>2, <3>1, <3>2, <3>4, <1>o DEF GETCollectorInfo
        <3>5. QED
            BY <3>1, <3>3, <3>4
    <2>3. CASE POSTTune(c)
        BY <2>3 DEF POSTTune, AfterTune, Goto, Calls, state
    <2>4. CASE GETCalibrationStatus(c)
        <3>1. NextStatus(c, {p \in Pairs : fit[p] = "illConditioned"}, {})
            BY <2>4 DEF GETCalibrationStatus
        <3>2. QED
            BY <2>4, <3>1, <1>n DEF GETCalibrationStatus, state
    <2>5. CASE \E p \in Pairs : GETSweep(c, p)
        <3>1. PICK p \in Pairs : GETSweep(c, p)
            BY <2>5
        <3>2. CASE NextStatus(c, job[c].todo \ {p}, job[c].calibrated)
            BY <3>1, <3>2, <1>n, <1>j DEF GETSweep, state
        <3>3. CASE Goto(c, "calibrate") /\ job' = [job EXCEPT ![c].pair = {p}] /\ UNCHANGED mutex
            BY <3>1, <3>3 DEF GETSweep, state, Goto, Calls, Jobs
        <3>4. QED
            BY <3>1, <3>2, <3>3 DEF GETSweep
    <2>6. CASE \E p \in Pairs : POSTCalibrate(c, p)
        <3>1. PICK p \in Pairs : POSTCalibrate(c, p)
            BY <2>6
        <3>2. \E done \in SUBSET Pairs : NextStatus(c, job[c].todo \ {p}, done)
            BY <3>1, <1>j DEF POSTCalibrate
        <3>3. fit' \in [Pairs -> Fits]
            BY <3>1 DEF POSTCalibrate, Fits
        <3>4. QED
            BY <3>1, <3>2, <3>3, <1>n, <1>j DEF POSTCalibrate, state
    <2>7. CASE GETWarmUp(c)
        <3>1. CASE WarmUpGate(c)
            BY <2>7, <3>1, <1>g DEF GETWarmUp, state
        <3>2. CASE Goto(c, "merge") /\ UNCHANGED <<mutex, job, warmUpCount, held>>
            BY <2>7, <3>2 DEF GETWarmUp, state, Goto, Calls
        <3>3. QED
            BY <2>7, <3>1, <3>2 DEF GETWarmUp
    <2>8. CASE POSTMerge(c)
        BY <2>8, <1>o DEF POSTMerge, Merged
    <2>9. CASE POSTOptimize(c)
        <3>1. CASE Return(c)
            BY <2>9, <3>1, <1>r DEF POSTOptimize, state
        <3>2. CASE Goto(c, "actuate") /\ job' = [job EXCEPT ![c].alloc = collectedBy]
                   /\ UNCHANGED mutex
            BY <2>9, <3>2 DEF POSTOptimize, state, Goto, Calls, Jobs
        <3>3. QED
            BY <2>9, <3>1, <3>2 DEF POSTOptimize
    <2>10. CASE POSTActuator(c)
        BY <2>10, <1>r DEF POSTActuator, state
    <2>11. QED
        BY <2>1, <2>2, <2>3, <2>4, <2>5, <2>6, <2>7, <2>8, <2>9, <2>10 DEF Optimize
<1>4. ASSUME Failure PROVE TypeOK'
    <2>f. faults < MaxFaults /\ faults' = faults + 1 /\ clean' = FALSE
        BY <1>4 DEF Failure
    <2>0. faults' \in 0..MaxFaults /\ clean' \in BOOLEAN
        <3>1. faults' \in 0..MaxFaults
            BY <2>f
        <3>2. clean' \in BOOLEAN
            BY <2>f
        <3>3. QED
            BY <3>1, <3>2
    <2>1. CASE TunerRestart
        BY <2>0, <2>1 DEF TunerRestart, Fits, state
    <2>2. CASE ControllerRestart
        BY <2>0, <2>2 DEF ControllerRestart, NoJob, Jobs
    <2>3. ASSUME NEW c \in Callers, AbortFails(c) PROVE TypeOK'
        <3>1. specModels' \in {specModels, Seeded}
            BY <2>3 DEF AbortFails
        <3>2. /\ UNCHANGED <<collectedBy, servedPairs, currentModelData, warmUpCount, fit, held>>
              /\ Return(c)
            BY <2>3 DEF AbortFails
        <3>3. QED
            BY <2>0, <3>1, <3>2, <1>r
    <2>4. ASSUME NEW c \in Callers, TunerFails(c) PROVE TypeOK'
        <3>1. CASE AfterTune(c) /\ UNCHANGED <<warmUpCount, held>>
            BY <2>0, <2>4, <3>1 DEF TunerFails, AfterTune, Goto, Calls, state
        <3>2. CASE Goto(c, "warmup") /\ UNCHANGED <<mutex, job, warmUpCount, held>>
            BY <2>0, <2>4, <3>2 DEF TunerFails, Goto, Calls, state
        <3>3. CASE OpenGate(c) /\ UNCHANGED job
            BY <2>0, <2>4, <3>3, <1>o DEF TunerFails, state
        <3>4. QED
            BY <2>4, <3>1, <3>2, <3>3 DEF TunerFails
    <2>5. ASSUME NEW c \in Callers, WarmUpFails(c) PROVE TypeOK'
        BY <2>0, <2>5, <1>o DEF WarmUpFails, state
    <2>6. ASSUME NEW c \in Callers, NEW p \in Pairs, CalibrateFails(c, p) PROVE TypeOK'
        BY <2>0, <2>6, <1>n, <1>j DEF CalibrateFails, state, Fits
    <2>7. QED
        BY <1>4, <2>1, <2>2, <2>3, <2>4, <2>5, <2>6 DEF Failure
<1>5. CASE UNCHANGED vars
    BY <1>5 DEF vars, state
<1>6. QED
    BY <1>1, <1>2, <1>3, <1>4, <1>5 DEF Next

\* Every reachable state has the declared types; in particular the count of warm-up cycles
\* and the cycles held back never exceed the timeout.
THEOREM TypeCorrect == Spec => []TypeOK
<1>1. Init => TypeOK
    BY ControlCycleAssumption DEF Init, TypeOK, NoJob, Jobs, Fits, Calls
<1>2. QED
    BY <1>1, TypeStep, PTL DEF Spec

-----------------------------------------------------------------------------
(***************************************************************************)
(* One snapshot per decision.  The steps of a caller inside Optimize are   *)
(* summarised once; the invariant then follows from the summary.           *)
(***************************************************************************)

FailsAt(c) ==
    \/ AbortFails(c) \/ TunerFails(c) \/ WarmUpFails(c)
    \/ \E p \in Pairs : CalibrateFails(c, p)

\* the calls after the collection
Deciding == Calls \ {"read", "collect"}

\* What a step of c inside Optimize does to the mutex, to itself and to the snapshot.
Summary(c) ==
    /\ pc[c] \in Calls
    /\ \A d \in Callers \ {c} : pc'[d] = pc[d] /\ job'[d] = job[d]
    /\ \/ mutex' = mutex /\ pc'[c] \in Calls
       \/ mutex' = Nobody /\ pc'[c] = "idle"
    /\ \/ collectedBy' = c /\ pc[c] = "collect"
       \/ collectedBy' = collectedBy /\ (pc'[c] \in Deciding => pc[c] \in Deciding)
    /\ pc'[c] = "actuate" => job'[c].alloc = collectedBy /\ collectedBy' = collectedBy

\* Every step inside Optimize, failing or not, is as the summary says.
LEMMA StepSummary ==
    ASSUME TypeOK, NEW c \in Callers, Optimize(c) \/ FailsAt(c)
    PROVE  Summary(c)
<1> USE DEF TypeOK
<1>r. ASSUME Return(c), pc[c] \in Calls, UNCHANGED collectedBy
      PROVE  Summary(c)
    BY <1>r DEF Return, Goto, Summary, Calls, Deciding
<1>t. ASSUME NEW call \in Calls \ {"actuate"}, Goto(c, call), UNCHANGED <<mutex, collectedBy>>,
             pc[c] \in Calls,
             \A d \in Callers \ {c} : job'[d] = job[d],
             pc[c] \in Deciding \/ call = "collect"
      PROVE  Summary(c)
    BY <1>t DEF Goto, Summary, Deciding, Calls
<1>n. ASSUME NEW todo, NEW done, NextStatus(c, todo, done), UNCHANGED collectedBy,
             pc[c] \in Deciding
      PROVE  Summary(c)
    <2>1. \A d \in Callers \ {c} : job'[d] = job[d]
        BY <1>n DEF NextStatus
    <2>2. CASE Goto(c, "warmup")
        BY <1>n, <2>1, <2>2, <1>t DEF NextStatus, Calls, Deciding
    <2>3. CASE Goto(c, "sweep")
        BY <1>n, <2>1, <2>3, <1>t DEF NextStatus, Calls, Deciding
    <2>4. QED
        BY <1>n, <2>2, <2>3 DEF NextStatus
<1>a. ASSUME AfterTune(c), UNCHANGED collectedBy, pc[c] = "tune"
      PROVE  Summary(c)
    <2>1. CASE Goto(c, "status")
        BY <1>a, <2>1, <1>t DEF AfterTune, Calls, Deciding
    <2>2. CASE Goto(c, "warmup")
        BY <1>a, <2>2, <1>t DEF AfterTune, Calls, Deciding
    <2>3. QED
        BY <1>a, <2>1, <2>2 DEF AfterTune
<1>o. ASSUME OpenGate(c), UNCHANGED <<job, collectedBy>>, pc[c] \in Deciding
      PROVE  Summary(c)
    BY <1>o, <1>t DEF OpenGate, Deciding, Calls
<1>1. CASE ReadData(c)
    BY <1>1, <1>t DEF ReadData, At, Calls
<1>2. CASE GETCollectorInfo(c)
    <2>1. PICK served \in SUBSET Pairs : \E replicas \in SUBSET served :
              /\ collectedBy' = c
              /\ job' = [job EXCEPT ![c].replicas = replicas]
              /\ IF TunerEnabled /\ replicas # {}
                 THEN Goto(c, "tune") /\ UNCHANGED <<mutex, warmUpCount, held>>
                 ELSE OpenGate(c)
        BY <1>2 DEF GETCollectorInfo
    <2>2. pc[c] = "collect" /\ collectedBy' = c
        BY <1>2, <2>1 DEF GETCollectorInfo, At
    <2>3. \A d \in Callers \ {c} : job'[d] = job[d]
        BY <2>1
    <2>4. UNCHANGED mutex /\ (Goto(c, "tune") \/ Goto(c, "optimize"))
        BY <2>1 DEF OpenGate
    <2>5. QED
        BY <2>2, <2>3, <2>4 DEF Summary, Goto, Calls, Deciding
<1>3. CASE POSTTune(c)
    BY <1>3, <1>a DEF POSTTune, At, state
<1>4. CASE GETCalibrationStatus(c)
    BY <1>4, <1>n DEF GETCalibrationStatus, At, state, Deciding, Calls
<1>5. ASSUME NEW p \in Pairs, GETSweep(c, p) PROVE Summary(c)
    <2>1. pc[c] = "sweep" /\ UNCHANGED collectedBy
        BY <1>5 DEF GETSweep, At, state
    <2>2. CASE NextStatus(c, job[c].todo \ {p}, job[c].calibrated)
        BY <2>1, <2>2, <1>n DEF Deciding, Calls
    <2>3. CASE Goto(c, "calibrate") /\ job' = [job EXCEPT ![c].pair = {p}] /\ UNCHANGED mutex
        <3>1. \A d \in Callers \ {c} : job'[d] = job[d]
            BY <2>3
        <3>2. QED
            BY <2>1, <2>3, <3>1, <1>t DEF Deciding, Calls
    <2>4. QED
        BY <1>5, <2>2, <2>3 DEF GETSweep
<1>6. ASSUME NEW p \in Pairs, POSTCalibrate(c, p) PROVE Summary(c)
    <2>1. pc[c] = "calibrate" /\ UNCHANGED collectedBy
        BY <1>6 DEF POSTCalibrate, At, state
    <2>2. \E done : NextStatus(c, job[c].todo \ {p}, done)
        BY <1>6 DEF POSTCalibrate
    <2>3. QED
        BY <2>1, <2>2, <1>n DEF Deciding, Calls
<1>7. CASE GETWarmUp(c)
    <2>1. pc[c] = "warmup" /\ UNCHANGED collectedBy
        BY <1>7 DEF GETWarmUp, At, state
    <2>2. CASE Return(c)
        BY <2>1, <2>2, <1>r DEF Calls
    <2>3. CASE Goto(c, "optimize") /\ UNCHANGED <<mutex, job>>
        BY <2>1, <2>3, <1>t DEF Calls, Deciding
    <2>4. CASE Goto(c, "merge") /\ UNCHANGED <<mutex, job>>
        BY <2>1, <2>4, <1>t DEF Calls, Deciding
    <2>5. QED
        BY <1>7, <2>2, <2>3, <2>4 DEF GETWarmUp, WarmUpGate
<1>8. CASE POSTMerge(c)
    BY <1>8, <1>o DEF POSTMerge, At, Calls, Deciding
<1>9. CASE POSTOptimize(c)
    <2>1. pc[c] = "optimize" /\ UNCHANGED collectedBy
        BY <1>9 DEF POSTOptimize, At, state
    <2>2. CASE Return(c)
        BY <2>1, <2>2, <1>r DEF Calls
    <2>3. CASE Goto(c, "actuate") /\ job' = [job EXCEPT ![c].alloc = collectedBy] /\ UNCHANGED mutex
        <3>1. \A d \in Callers \ {c} : job'[d] = job[d]
            BY <2>3
        <3>2. job'[c].alloc = collectedBy
            BY <2>3 DEF Jobs
        <3>3. QED
            BY <2>1, <2>3, <3>1, <3>2 DEF Goto, Summary, Calls, Deciding
    <2>4. QED
        BY <1>9, <2>2, <2>3 DEF POSTOptimize
<1>10. CASE POSTActuator(c)
    BY <1>10, <1>r DEF POSTActuator, At, Calls, state
<1>11. CASE AbortFails(c)
    BY <1>11, <1>r DEF AbortFails, Calls
<1>12. CASE TunerFails(c)
    <2>1. pc[c] \in {"tune", "status", "merge"} /\ UNCHANGED collectedBy
        BY <1>12 DEF TunerFails, At, state
    <2>2. CASE At(c, "tune") /\ AfterTune(c)
        BY <2>1, <2>2, <1>a DEF At
    <2>3. CASE Goto(c, "warmup") /\ UNCHANGED <<mutex, job>>
        BY <2>1, <2>3, <1>t DEF Calls, Deciding
    <2>4. CASE OpenGate(c) /\ UNCHANGED job
        BY <2>1, <2>4, <1>o DEF Calls, Deciding
    <2>5. QED
        BY <1>12, <2>2, <2>3, <2>4 DEF TunerFails
<1>13. CASE WarmUpFails(c)
    BY <1>13, <1>o DEF WarmUpFails, At, Calls, Deciding, state
<1>14. ASSUME NEW p \in Pairs, CalibrateFails(c, p) PROVE Summary(c)
    BY <1>14, <1>n DEF CalibrateFails, At, Calls, Deciding, state
<1>15. QED
    BY <1>1, <1>2, <1>3, <1>4, <1>5, <1>6, <1>7, <1>8, <1>9, <1>10, <1>11, <1>12, <1>13, <1>14
       DEF Optimize, FailsAt

\* Whoever is between two calls of a cycle holds the mutex; after the collection the
\* snapshot in State is its own.
SnapshotInv ==
    \A c \in Callers :
        /\ pc[c] \in Calls => mutex = c
        /\ pc[c] \in Deciding => collectedBy = c
        /\ pc[c] = "actuate" => job[c].alloc = c

\* The mutex keeps the ticker's and the /invoke handlers' cycles apart.
LEMMA SnapshotInvariant == Spec => []SnapshotInv
<1>1. Init => SnapshotInv
    BY DEF Init, SnapshotInv, Calls, Deciding
<1>2. TypeOK /\ SnapshotInv /\ [Next]_vars => SnapshotInv'
    <2> SUFFICES ASSUME TypeOK, SnapshotInv, [Next]_vars PROVE SnapshotInv'
        OBVIOUS
    <2>1. ASSUME NEW c \in Callers, Call(c) PROVE SnapshotInv'
        <3>1. \A d \in Callers : pc'[d] # pc[d] => pc'[d] = "wait"
            BY <2>1 DEF Call, Goto, TypeOK
        <3>2. QED
            BY <2>1, <3>1 DEF SnapshotInv, Call, state, Calls, Deciding
    <2>2. ASSUME NEW c \in Callers, Lock(c) PROVE SnapshotInv'
        <3>1. \A d \in Callers : pc[d] \notin Calls
            BY <2>2, ControlCycleAssumption DEF SnapshotInv, Lock
        <3>2. /\ mutex' = c /\ pc'[c] = "read"
              /\ \A d \in Callers \ {c} : pc'[d] = pc[d]
            BY <2>2 DEF Lock, Goto, TypeOK
        <3>3. QED
            BY <3>1, <3>2 DEF SnapshotInv, Calls, Deciding
    <2>3. ASSUME NEW c \in Callers, Optimize(c) \/ FailsAt(c) PROVE SnapshotInv'
        <3>1. Summary(c)
            BY <2>3, StepSummary
        <3>2. mutex = c
            BY <3>1 DEF Summary, SnapshotInv
        <3>3. \A d \in Callers \ {c} : pc'[d] \notin Calls
            BY <3>1, <3>2 DEF Summary, SnapshotInv
        <3>4. /\ pc'[c] \in Calls => mutex' = c
              /\ pc'[c] \in Deciding => collectedBy' = c
            BY <3>1, <3>2 DEF Summary, SnapshotInv, Calls
        <3>5. pc'[c] = "actuate" => job'[c].alloc = c
            BY <3>1, <3>4 DEF Summary, Deciding, Calls
        <3>6. QED
            BY <3>3, <3>4, <3>5 DEF SnapshotInv, Deciding, Calls
    <2>4. CASE TunerRestart
        BY <2>4 DEF TunerRestart, SnapshotInv, state
    <2>5. CASE ControllerRestart
        BY <2>5 DEF ControllerRestart, SnapshotInv, Calls, Deciding
    <2>6. CASE UNCHANGED vars
        BY <2>6 DEF vars, state, SnapshotInv
    <2>7. QED
        BY <2>1, <2>2, <2>3, <2>4, <2>5, <2>6 DEF Next, Failure, FailsAt
<1>3. QED
    BY <1>1, <1>2, TypeCorrect, PTL DEF Spec

\* A caller that decides does so on the servers it collected itself.
THEOREM DecisionsUseOwnSnapshot == Spec => []OwnSnapshot
<1>1. SnapshotInv => OwnSnapshot
    BY DEF SnapshotInv, OwnSnapshot, At, Calls, Deciding
<1>2. QED
    BY <1>1, SnapshotInvariant, PTL

-----------------------------------------------------------------------------
(***************************************************************************)
(* The warm-up gate.                                                       *)
(***************************************************************************)

\* A step leaves the two counts alone, clears them, or is the closed gate.
LEMMA GateSteps ==
    ASSUME [Next]_vars
    PROVE  \/ UNCHANGED <<warmUpCount, held>>
           \/ warmUpCount' = 0 /\ held' = 0
           \/ \E c \in Callers : WarmUpGate(c)
<1>1. ASSUME NEW c \in Callers, Optimize(c)
      PROVE  \/ UNCHANGED <<warmUpCount, held>>
             \/ warmUpCount' = 0 /\ held' = 0
             \/ WarmUpGate(c)
    BY <1>1 DEF Optimize, ReadData, GETCollectorInfo, OpenGate, POSTTune, GETCalibrationStatus,
           GETSweep, POSTCalibrate, GETWarmUp, POSTMerge, POSTOptimize, POSTActuator
<1>2. ASSUME Failure
      PROVE  \/ UNCHANGED <<warmUpCount, held>>
             \/ warmUpCount' = 0 /\ held' = 0
    BY <1>2 DEF Failure, TunerRestart, ControllerRestart, AbortFails, TunerFails, WarmUpFails,
           CalibrateFails, OpenGate
<1>3. QED
    BY <1>1, <1>2 DEF Next, Call, Lock, vars

\* The history of held cycles is what the Controller's count knows of it.
HoldInv == held <= warmUpCount /\ HoldBounded

\* A tuner that never gets ready delays the optimizer by fewer than WarmUpTimeout cycles.
THEOREM WarmUpTimeoutBoundsHold == Spec => []HoldBounded
<1>1. Init => HoldInv
    BY ControlCycleAssumption DEF Init, HoldInv, HoldBounded
<1>2. TypeOK /\ HoldInv /\ [Next]_vars => HoldInv'
    <2> SUFFICES ASSUME TypeOK, HoldInv, [Next]_vars PROVE HoldInv'
        OBVIOUS
    <2> USE ControlCycleAssumption
    <2>1. /\ held \in Nat /\ warmUpCount \in Nat /\ WarmUpTimeout \in Nat
          /\ held <= WarmUpTimeout /\ held <= warmUpCount
          /\ WarmUpTimeout > 0 => held < WarmUpTimeout
        BY DEF TypeOK, HoldInv, HoldBounded
    <2>2. CASE UNCHANGED <<warmUpCount, held>>
        BY <2>1, <2>2 DEF HoldInv, HoldBounded
    <2>3. CASE warmUpCount' = 0 /\ held' = 0
        BY <2>1, <2>3 DEF HoldInv, HoldBounded
    <2>4. ASSUME NEW c \in Callers, WarmUpGate(c) PROVE HoldInv'
        <3>1. warmUpCount' = Upto(warmUpCount + 1)
            BY <2>4 DEF WarmUpGate
        <3>2. \/ (WarmUpTimeout = 0 \/ warmUpCount + 1 < WarmUpTimeout) /\ held' = Upto(held + 1)
              \/ held' = 0
            BY <2>4 DEF WarmUpGate
        <3>3. QED
            BY <2>1, <3>1, <3>2 DEF Upto, HoldInv, HoldBounded
    <2>5. QED
        BY <2>2, <2>3, <2>4, GateSteps
<1>3. QED
    BY <1>1, <1>2, TypeCorrect, PTL DEF Spec, HoldInv

-----------------------------------------------------------------------------
(***************************************************************************)
(* Learned parameters.                                                     *)
(***************************************************************************)

\* What the optimizer has, and what the files have, is in what /merge is sent.
ModelInv == Seeded \subseteq currentModelData /\ specModels \subseteq currentModelData

\* The steps that touch model data.
LEMMA ModelSteps ==
    ASSUME [Next]_vars
    PROVE  \/ UNCHANGED <<specModels, currentModelData>>
           \/ /\ specModels' = Seeded /\ currentModelData' = Seeded
              /\ \/ ControllerRestart
                 \/ Dynamic /\ \E c \in Callers : At(c, "read")
           \/ /\ specModels' = Seeded /\ currentModelData' = currentModelData
              /\ Dynamic /\ \E c \in Callers : At(c, "read")
           \/ currentModelData' = Merged(currentModelData) /\ specModels' = currentModelData'
<1>1. ASSUME NEW c \in Callers, Optimize(c)
      PROVE  \/ UNCHANGED <<specModels, currentModelData>>
             \/ specModels' = Seeded /\ currentModelData' = Seeded /\ Dynamic /\ At(c, "read")
             \/ currentModelData' = Merged(currentModelData) /\ specModels' = currentModelData'
    BY <1>1 DEF Optimize, ReadData, GETCollectorInfo, POSTTune, GETCalibrationStatus,
           GETSweep, POSTCalibrate, GETWarmUp, POSTMerge, POSTOptimize, POSTActuator, state
<1>2. ASSUME NEW c \in Callers, AbortFails(c)
      PROVE  \/ UNCHANGED <<specModels, currentModelData>>
             \/ specModels' = Seeded /\ UNCHANGED currentModelData /\ Dynamic /\ At(c, "read")
    BY <1>2 DEF AbortFails
<1>3. ASSUME Failure, \A c \in Callers : ~ AbortFails(c)
      PROVE  \/ UNCHANGED <<specModels, currentModelData>>
             \/ specModels' = Seeded /\ currentModelData' = Seeded /\ ControllerRestart
    BY <1>3 DEF Failure, TunerRestart, ControllerRestart, TunerFails, WarmUpFails,
           CalibrateFails, state
<1>4. ASSUME NEW c \in Callers, Call(c) \/ Lock(c)
      PROVE  UNCHANGED <<specModels, currentModelData>>
    BY <1>4 DEF Call, Lock, state
<1>5. QED
    BY <1>1, <1>2, <1>3, <1>4 DEF Next, vars, state

\* Neither a tuner that restarts nor one that fails takes learned parameters away from the
\* optimizer.
THEOREM LearnedParametersAreKept == Spec => LearnedKept
<1>1. Init => ModelInv
    BY DEF Init, ModelInv
<1>2. ModelInv /\ [Next]_vars => ModelInv'
    BY ModelSteps DEF ModelInv, Merged
<1>3. ModelInv /\ [Next]_vars =>
          [\/ ControllerRestart
           \/ Dynamic /\ \E c \in Callers : At(c, "read")
           \/ specModels \subseteq specModels']_vars
    <2> SUFFICES ASSUME ModelInv, [Next]_vars
                 PROVE  \/ ControllerRestart
                        \/ Dynamic /\ \E c \in Callers : At(c, "read")
                        \/ specModels \subseteq specModels'
        OBVIOUS
    <2>1. CASE UNCHANGED <<specModels, currentModelData>>
        BY <2>1
    <2>2. CASE currentModelData' = Merged(currentModelData) /\ specModels' = currentModelData'
        BY <2>2 DEF ModelInv, Merged
    <2>3. QED
        BY <2>1, <2>2, ModelSteps
<1>4. QED
    BY <1>1, <1>2, <1>3, PTL DEF Spec, LearnedKept

-----------------------------------------------------------------------------
(***************************************************************************)
(* Calibration.                                                            *)
(***************************************************************************)

\* Between the calibration of a pair and the merge the tuner keeps its fit; nothing is
\* calibrated before the statuses were read.
CalibrationInvOf(c) ==
    /\ pc[c] \in {"sweep", "calibrate", "warmup", "merge"} /\ clean =>
           \A p \in job[c].calibrated : fit[p] = "fitted"
    /\ pc[c] \in {"idle", "wait", "read", "collect", "tune", "status"} =>
           job[c].calibrated = {}
    /\ pc[c] = "optimize" /\ clean /\ warmUpCount = 0 => job[c].calibrated \subseteq specModels

CalibrationInv == \A c \in Callers : CalibrationInvOf(c)

\* The caller that moves keeps the invariant when nothing fails.
LEMMA CalibrationStep ==
    ASSUME TypeOK, CalibrationInv, NEW c \in Callers, Optimize(c), UNCHANGED clean
    PROVE  CalibrationInvOf(c)'
<1> USE ControlCycleAssumption DEF TypeOK
<1>0. CalibrationInvOf(c)
    BY DEF CalibrationInv, CalibrationInvOf
<1>r. ASSUME Return(c) PROVE CalibrationInvOf(c)'
    <2>1. pc'[c] = "idle" /\ job'[c] = NoJob
        BY <1>r DEF Return, Goto
    <2>2. job'[c].calibrated = {}
        BY <2>1 DEF NoJob
    <2>3. QED
        BY <2>1, <2>2 DEF CalibrationInvOf
<1>1. CASE ReadData(c)
    BY <1>0, <1>1 DEF CalibrationInvOf, ReadData, Goto, At
<1>2. CASE GETCollectorInfo(c)
    <2>1. PICK replicas \in SUBSET Pairs :
              /\ job' = [job EXCEPT ![c].replicas = replicas]
              /\ Goto(c, "tune") \/ Goto(c, "optimize")
        BY <1>2 DEF GETCollectorInfo, OpenGate
    <2>2. job[c].calibrated = {}
        BY <1>0, <1>2 DEF CalibrationInvOf, GETCollectorInfo, At
    <2>3. job'[c].calibrated = {}
        BY <2>1, <2>2 DEF Jobs
    <2>4. pc'[c] \in {"tune", "optimize"}
        BY <2>1 DEF Goto
    <2>5. QED
        BY <2>3, <2>4 DEF CalibrationInvOf
<1>3. CASE POSTTune(c)
    <2>1. pc'[c] \in {"status", "warmup"} /\ job'[c] = job[c] /\ job[c].calibrated = {}
        BY <1>0, <1>3 DEF CalibrationInvOf, POSTTune, AfterTune, Goto, At
    <2>2. QED
        BY <2>1 DEF CalibrationInvOf
<1>n. ASSUME NEW todo, NEW done, NextStatus(c, todo, done)
      PROVE  pc'[c] \in {"sweep", "warmup"} /\ job'[c].calibrated = done
    <2>1. job'[c] = [job[c] EXCEPT !.todo = todo, !.pair = {}, !.calibrated = done]
        BY <1>n DEF NextStatus
    <2>2. job[c] \in Jobs
        OBVIOUS
    <2>3. job'[c].calibrated = done
        BY <2>1, <2>2 DEF Jobs
    <2>4. QED
        BY <1>n, <2>3 DEF NextStatus, Goto
<1>4. CASE GETCalibrationStatus(c)
    BY <1>4, <1>n DEF GETCalibrationStatus, CalibrationInvOf
<1>5. ASSUME NEW p \in Pairs, GETSweep(c, p) PROVE CalibrationInvOf(c)'
    <2>1. pc[c] = "sweep" /\ UNCHANGED <<clean, fit>>
        BY <1>5 DEF GETSweep, At
    <2>2. clean => \A q \in job[c].calibrated : fit[q] = "fitted"
        BY <1>0, <2>1 DEF CalibrationInvOf
    <2>3. pc'[c] \in {"sweep", "warmup", "calibrate"} /\ job'[c].calibrated = job[c].calibrated
        <3>1. CASE NextStatus(c, job[c].todo \ {p}, job[c].calibrated)
            BY <3>1, <1>n
        <3>2. CASE Goto(c, "calibrate") /\ job' = [job EXCEPT ![c].pair = {p}]
            BY <3>2 DEF Goto, Jobs
        <3>3. QED
            BY <1>5, <3>1, <3>2 DEF GETSweep
    <2>4. QED
        BY <2>1, <2>2, <2>3 DEF CalibrationInvOf
<1>6. ASSUME NEW p \in Pairs, POSTCalibrate(c, p) PROVE CalibrationInvOf(c)'
    <2>1. pc[c] = "calibrate"
        BY <1>6 DEF POSTCalibrate, At
    <2>2. clean => \A q \in job[c].calibrated : fit[q] = "fitted"
        BY <1>0, <2>1 DEF CalibrationInvOf
    <2>3. CASE /\ fit' = [fit EXCEPT ![p] = "fitted"]
               /\ NextStatus(c, job[c].todo \ {p}, job[c].calibrated \cup {p})
        <3>1. \A q \in Pairs : fit'[q] = IF q = p THEN "fitted" ELSE fit[q]
            BY <2>3
        <3>2. job'[c].calibrated = job[c].calibrated \cup {p} /\ pc'[c] \in {"sweep", "warmup"}
            BY <2>3, <1>n
        <3>3. job[c].calibrated \subseteq Pairs
            BY DEF Jobs
        <3>4. clean' => \A q \in job'[c].calibrated : fit'[q] = "fitted"
            BY <2>2, <3>1, <3>2, <3>3
        <3>5. QED
            BY <3>2, <3>4 DEF CalibrationInvOf
    <2>4. CASE NextStatus(c, job[c].todo \ {p}, job[c].calibrated) /\ UNCHANGED fit
        BY <2>2, <2>4, <1>n DEF CalibrationInvOf
    <2>5. QED
        BY <1>6, <2>3, <2>4 DEF POSTCalibrate
<1>7. CASE GETWarmUp(c)
    <2>1. pc[c] = "warmup" /\ UNCHANGED <<clean, fit>>
        BY <1>7 DEF GETWarmUp, At
    <2>2. clean => \A q \in job[c].calibrated : fit[q] = "fitted"
        BY <1>0, <2>1 DEF CalibrationInvOf
    <2>3. CASE WarmingUp /\ WarmUpGate(c)
        <3>1. CASE Return(c)
            BY <3>1, <1>r
        <3>2. CASE WarmUpTimeout > 0 /\ Goto(c, "optimize") /\ UNCHANGED <<mutex, job>>
            <4>1. warmUpCount' = Upto(warmUpCount + 1) /\ warmUpCount \in Nat
                BY <2>3 DEF WarmUpGate
            <4>2. warmUpCount' # 0
                BY <3>2, <4>1 DEF Upto
            <4>3. pc'[c] = "optimize"
                BY <3>2 DEF Goto
            <4>4. QED
                BY <4>2, <4>3 DEF CalibrationInvOf
        <3>3. QED
            BY <2>3, <3>1, <3>2 DEF WarmUpGate
    <2>4. CASE Goto(c, "merge") /\ UNCHANGED <<mutex, job, warmUpCount, held>>
        <3>1. pc'[c] = "merge" /\ job'[c] = job[c]
            BY <2>4 DEF Goto
        <3>2. QED
            BY <2>1, <2>2, <3>1 DEF CalibrationInvOf
    <2>5. QED
        BY <1>7, <2>3, <2>4 DEF GETWarmUp
<1>8. CASE POSTMerge(c)
    <2>1. pc[c] = "merge" /\ UNCHANGED <<clean, fit, job>> /\ pc'[c] = "optimize"
        BY <1>8 DEF POSTMerge, OpenGate, At, Goto
    <2>2. specModels' = currentModelData \cup {q \in Pairs : fit[q] = "fitted"}
        BY <1>8 DEF POSTMerge, Merged
    <2>3. clean => \A q \in job[c].calibrated : fit[q] = "fitted"
        BY <1>0, <2>1 DEF CalibrationInvOf
    <2>4. job[c].calibrated \subseteq Pairs
        BY DEF Jobs
    <2>5. clean' => job'[c].calibrated \subseteq specModels'
        BY <2>1, <2>2, <2>3, <2>4
    <2>6. QED
        BY <2>1, <2>5 DEF CalibrationInvOf
<1>9. CASE POSTOptimize(c)
    <2>1. CASE Return(c)
        BY <2>1, <1>r
    <2>2. CASE Goto(c, "actuate")
        BY <2>2 DEF Goto, CalibrationInvOf
    <2>3. QED
        BY <1>9, <2>1, <2>2 DEF POSTOptimize
<1>10. CASE POSTActuator(c)
    BY <1>10, <1>r DEF POSTActuator
<1>11. QED
    BY <1>1, <1>2, <1>3, <1>4, <1>5, <1>6, <1>7, <1>8, <1>9, <1>10 DEF Optimize

\* The caller that moves keeps the invariant when a call of its cycle fails: the cycle is
\* not clean any more.
LEMMA CalibrationFailure ==
    ASSUME TypeOK, CalibrationInv, NEW c \in Callers, FailsAt(c), clean' = FALSE
    PROVE  CalibrationInvOf(c)'
<1> USE DEF TypeOK
<1>1. CASE AbortFails(c)
    <2>1. pc'[c] = "idle" /\ job'[c] = NoJob
        BY <1>1 DEF AbortFails, Return, Goto
    <2>2. job'[c].calibrated = {}
        BY <2>1 DEF NoJob
    <2>3. QED
        BY <2>1, <2>2 DEF CalibrationInvOf
<1>2. CASE TunerFails(c)
    <2>1. pc[c] \in {"tune", "status", "merge"} /\ UNCHANGED job
        BY <1>2 DEF TunerFails, AfterTune, At
    <2>2. pc[c] = "tune" => job[c].calibrated = {}
        BY DEF CalibrationInv, CalibrationInvOf
    <2>3. pc'[c] \in {"status", "warmup", "optimize"}
        BY <1>2 DEF TunerFails, AfterTune, OpenGate, Goto
    <2>4. pc'[c] = "status" => pc[c] = "tune"
        BY <1>2 DEF TunerFails, AfterTune, OpenGate, Goto, At
    <2>5. QED
        BY <2>1, <2>2, <2>3, <2>4 DEF CalibrationInvOf
<1>3. CASE WarmUpFails(c)
    BY <1>3 DEF WarmUpFails, OpenGate, Goto, CalibrationInvOf
<1>4. ASSUME NEW p \in Pairs, CalibrateFails(c, p) PROVE CalibrationInvOf(c)'
    <2>1. pc'[c] \in {"sweep", "warmup"}
        BY <1>4 DEF CalibrateFails, NextStatus, Goto
    <2>2. QED
        BY <2>1 DEF CalibrationInvOf
<1>5. QED
    BY <1>1, <1>2, <1>3, <1>4 DEF FailsAt

\* What a cycle calibrates feeds the optimizer in that same cycle, unless a call failed, the
\* tuner restarted or the warm-up timeout fired.
THEOREM CalibrationFeedsTheSameCycle == Spec => []CalibratedIsUsed
<1>1. Init => CalibrationInv
    BY DEF Init, CalibrationInv, CalibrationInvOf, NoJob
<1>2. TypeOK /\ SnapshotInv /\ CalibrationInv /\ [Next]_vars => CalibrationInv'
    <2> SUFFICES ASSUME TypeOK, SnapshotInv, CalibrationInv, [Next]_vars PROVE CalibrationInv'
        OBVIOUS
    <2>0. ASSUME NEW c \in Callers, pc[c] \notin Calls
          PROVE  pc[c] \in {"idle", "wait"} /\ job[c].calibrated = {}
        BY <2>0 DEF TypeOK, CalibrationInv, CalibrationInvOf
    <2>1. ASSUME NEW c \in Callers, Call(c), UNCHANGED clean PROVE CalibrationInv'
        <3>1. \A d \in Callers : pc'[d] = IF d = c THEN "wait" ELSE pc[d]
            BY <2>1 DEF Call, Goto, TypeOK
        <3>2. pc[c] = "idle" /\ UNCHANGED <<job, fit, clean, warmUpCount, specModels>>
            BY <2>1 DEF Call, At, state
        <3>3. QED
            BY <3>1, <3>2 DEF CalibrationInv, CalibrationInvOf
    <2>2. ASSUME NEW c \in Callers, Lock(c) PROVE CalibrationInv'
        <3>1. \A d \in Callers : pc[d] \notin Calls
            BY <2>2, ControlCycleAssumption DEF SnapshotInv, Lock
        <3>2. \A d \in Callers : pc'[d] = IF d = c THEN "read" ELSE pc[d]
            BY <2>2 DEF Lock, Goto, TypeOK
        <3>3. \A d \in Callers : job'[d].calibrated = {} /\ pc'[d] \in {"read", "idle", "wait"}
            BY <2>0, <2>2, <3>1, <3>2 DEF Lock
        <3>4. QED
            BY <3>3 DEF CalibrationInv, CalibrationInvOf
    <2>3. ASSUME NEW c \in Callers, Optimize(c) \/ FailsAt(c), CalibrationInvOf(c)'
          PROVE  CalibrationInv'
        <3>1. Summary(c)
            BY <2>3, StepSummary
        <3>2. ASSUME NEW d \in Callers \ {c}
              PROVE  pc'[d] \in {"idle", "wait"} /\ job'[d].calibrated = {}
            <4>1. pc[d] \notin Calls
                BY <3>1 DEF Summary, SnapshotInv
            <4>2. QED
                BY <4>1, <3>1, <2>0 DEF Summary
        <3>3. QED
            BY <2>3, <3>2 DEF CalibrationInv, CalibrationInvOf
    <2>4. ASSUME TunerRestart, clean' = FALSE PROVE CalibrationInv'
        BY <2>4 DEF TunerRestart, CalibrationInv, CalibrationInvOf
    <2>5. CASE ControllerRestart
        BY <2>5 DEF ControllerRestart, CalibrationInv, CalibrationInvOf, NoJob
    <2>6. CASE UNCHANGED vars
        BY <2>6 DEF vars, state, CalibrationInv, CalibrationInvOf
    <2>7. ASSUME NEW c \in Callers, Optimize(c), UNCHANGED clean PROVE CalibrationInv'
        BY <2>3, <2>7, CalibrationStep
    <2>8. ASSUME NEW c \in Callers, FailsAt(c), clean' = FALSE PROVE CalibrationInv'
        BY <2>3, <2>8, CalibrationFailure
    <2>9. QED
        BY <2>1, <2>2, <2>4, <2>5, <2>6, <2>7, <2>8 DEF Next, Failure, FailsAt
<1>3. CalibrationInv => CalibratedIsUsed
    BY DEF CalibrationInv, CalibrationInvOf, CalibratedIsUsed, At
<1>4. QED
    BY <1>1, <1>2, <1>3, TypeCorrect, SnapshotInvariant, PTL DEF Spec
=============================================================================
