# Verification of the inferno control loop

TLA+ models of the control loop in `src/`, TLC configurations that check them on small
instances, and TLAPS proofs of the properties that matter most. Line numbers below refer to
`src/`. `PROJECT.json` maps every definition to the lines it stands for, and lists the runs,
the hazards, the findings and the theorems.

Contents: [1 the system](#1-the-system), [2 the modules](#2-the-modules),
[3 the runs](#3-the-runs), [4 bounds, fairness, abstractions](#4-bounds-fairness-abstractions),
[5 proofs](#5-proofs), [6 disagreements found](#6-disagreements-found),
[7 what is not modelled](#7-what-is-not-modelled).

## 1 The system

Five processes and the Kubernetes API server, which holds nearly all of the shared state as
labels and replica counts.

```
             every control period, or GET /invoke
                         |
                   +-----v------+   /collect, /sweep    +-----------+   list, GET /latest,
                   | Controller |---------------------->| Collector |-- POST /simulate ---> pods
                   |  (mutex)   |   /tune /warmup /merge +-----------+                        ^
                   |            |---------------------->  model-tuner (external)              |
                   |            |   /optimizeOne                                              |
                   |            |---------------------->  optimizer (external)                |
                   |            |   /update             +-----------+  patch Deployments,     |
                   +-----+------+---------------------->| Actuator  |--pods ------------------+
                         |                              |  pairing  |                         |
                    cycle log                           | reconciler|--pair-id labels --------+
                    (Monitor)                           +-----------+                         |
                                                        +--------------+  update load labels  |
                                                        | LoadEmulator |----------------------+
                                                        +--------------+
```

| Component | State it keeps | Operations | What is hard | What makes it correct |
|---|---|---|---|---|
| Controller (`pkg/controller`) | `State` (system data, server map, two copies of model data), `warmUpCount`, one mutex | `Optimize`, from the ticker and from `/invoke`: read data, collect, tune, calibrate, warm-up gate, merge, optimize, actuate, record | concurrent callers, any remote call failing half-way, a tuner that forgets, the gate's boundary | a cycle decides on its own snapshot; the gate holds back exactly as long as it should; learned parameters reach the optimizer and are not lost; the loop goes on |
| Actuator, `/update` (`handlers.go`, `actuator_*.go`, `pod_alloc.go`) | none; the labels and replicas in the cluster | one JSON patch per Deployment, then a fan-out of pod patches | partial failure, requests that outlive their connection, pods and Deployments that come and go, selectors that overlap | "Done" means applied; a pod only gets its own Deployment's allocation; the cluster gets to the last decision |
| Actuator, pairing reconciler (`pairing*.go`) | none; the `pair-id` labels | per tick and managed Deployment: mirror replicas, or list both sides, prune, bind | two listings and many patches that are not atomic, readiness flapping, failing patches, restarts | an id joins one pod to one pod; healthy pairs survive; what is broken is repaired |
| Collector, `/collect` (`pkg/collector`) | none | per Deployment: list, read `/latest` of each pod or query Prometheus, coherence gate, aggregate | stale windows, partial reporting, failures of single Deployments | what the optimizer and the tuner see belongs to the allocation in force; a failure to sense decides nothing |
| Collector, `/sweep` (`calibrate.go`, `serversim.go`) | the points of the sweep in progress | point by point: create a job, poll it until its deadline | polling against a deadline, a handler that outlives its caller, a label that changes | the tuner is calibrated at the concurrency in force; the Controller gets out of the call |
| Load Emulator (`pkg/loademulator`) | baseline per Deployment, phase clock | list, perturb, write back whole objects | read-modify-write against the Actuator, restarts, phase boundaries, clamps | never reverts a decision; the load stays around the nominal one and reaches the pods |
| Monitor (`pkg/monitor`) | cycle log, `cycleNum` | one record per completed cycle | a full disk, restarts in the middle of a line | one legible line per cycle |
| Dashboard (`dashboard/dashboard.py`) | the local copy of the log, the panels | copy the log out of the pod, read it line by line, draw | two threads and the Controller on one file, torn lines, an empty log after a restart | the page shows what is legible, and all panels the same cycles |
| Capacity sweeps (`experiments/run16`) | rows measured | per level: start load, ramp, measure a window of counters, stop the load | threads and processes that are only signalled, counters that restart | a row counts its own window; no load outlives its level |
| Report scripts (`experiments/run*`) | figures in files | read archives, draw | torn, empty and missing archives, arms of different lengths | complete or absent; aligned |
| Backends (`pkg/backend`) | none | choice of server-sim or llm-d | | both sides of the loop choose alike |
| external: optimizer, model-tuner, server-sim, Kubernetes, vLLM, guidellm | | | | modelled from how `src/` uses them |

How they interact: the Controller is the only client of the Collector's and the Actuator's REST
interfaces and serialises its own calls by the mutex; the pairing reconciler runs in the Actuator's
process but shares only the cluster with the `/update` handler; the Load Emulator shares only the
cluster with everybody. There is no persistence except the cluster and the cycle log.

The hazards, each at its line and with the properties that would catch it, are in `PROJECT.json`.

## 2 The modules

| Module | Models | Lines |
|---|---|---|
| `PairingLogic` | `ComputePairingPatches`, the pure planner, as operators on the two snapshots | `pairing_logic.go` 8-128 |
| `Pairing` | the reconciler, one action per API call, against pods, failing calls, restarts | `pairing.go`, `pairing_kube.go` |
| `PodMatching` | abstract: a matching between managed and vLLM pods that changes one pair at a time | - |
| `ControlCycle` | `Optimize`, one action per remote call, per caller | `controller.go`, `calibrator.go`, `utils.go` |
| `Actuation` | the `/update` handler for both backends, one action per API call, and the Controller's cycle after cycle requests | `handlers.go`, `update_logic.go`, `actuator_*.go`, `pod_alloc.go` |
| `Sensing` | `/collect` with both sensors, read by read, inside the loop of Controller, Actuator, Kubernetes and the pods' windows | `collector/handlers.go`, `sensor_*.go`, `replicaspec.go`, `serversim.go` |
| `CalibrationSweep` | `/sweep` point by point and poll by poll, the Controller that waits for it, the jobs | `calibrate.go`, `serversim.go`, `calibrator.go`, `controller/utils.go` |
| `LoadEmulator` | the emulator's cycle, object by object, against Actuator, operator and pods | `loademulator.go` |
| `Phases` | the phase file and the multiplier at a time | `phases.go` |
| `CycleLog` | a record on its way into the file, byte order and a full disk included | `monitor.go`, `builder.go`, `controller.go` |
| `Dashboard` | extends `CycleLog`: the sync thread, a refresh line by line, the panels | `dashboard.py` |
| `CurveSweep`, `DriverSweep` | the two capacity sweeps of run 16 | `incluster_sweep.py`, `sweep_curve.py` |
| `Run12Report`, `Run15Report`, `ArmReports`, `OverlayReports` | the report scripts of runs 12, 15, 17 and 18, 16 and 19 | `gen_report_figs_*.py`, `plot_*.py`, `analyze.py` |
| `Standalone` | the seven programs that interact with nothing (both sweeps, the report scripts, the phase clock) side by side, with what their data are as assumptions | - |
| `MC*` | values for TLC | - |
| `*Proofs` | theorems and proofs, one module per component; `PairingProofs` has the refinement too, `StandaloneProofs` those of all programs of `Standalone` | - |

Every operator whose comment starts with "Mutant:" is a plausible bug of the operator that follows
it: no specification uses it, and with it in place of the original the property named in
`PROJECT.json` is violated.

### Pairing

State: the cluster (`replicas`, `phase` and `label` of each pod), the reconciler's goroutine (`pc`
is the API call it makes next; `listed`, `cur`, `want`, `mPods`, `prunes`, `binds`, `uuid` are
`reconcileAll`'s and `reconcileOne`'s locals), two history variables.

Actions: `ReconcileAll` (list managed Deployments), `ReconcileOne` (opt-in labels), `GetVLLM`,
`SetDeploymentReplicas` (ends the pass), `ListManaged`, `ListVLLM` (computes the plan),
`RemovePodLabel`, `BindManaged`, `BindVLLM`; for each call a failing version, with or without
effect where it is a patch; `Restart`; and the cluster's own actions. Prunes come out of a Go map,
so they are applied in any order; bindings are applied in list order.

Properties:
- `OneToOne`: an id is on at most one managed and one vLLM pod, of Deployments that belong together,
  on pods that are not Ready too. The evaluator finds its engine by the id alone.
- `HealthyPairsKept`: the reconciler ends a healthy pair only if one of its pods was changed by
  somebody else, or by a patch with an unknown outcome, since the first listing. `touched` is that history.
- `OnePassRepairs`: a pass in which nobody interferes leaves no orphaned id on a Ready pod and no
  two Ready pods unpaired that could be paired.
- `Converges`: after the last disturbance, replicas are in lockstep and everything is paired, for good.
- `RefinesMatching`: `Pairing` implements `PodMatching` under `matching` (pairs of pods with equal
  ids): the two patches of a binding appear as one step, never as an engine that is shared.

### ControlCycle

State: the mutex, `pc` and `job` of each caller (the ticker's goroutine and `/invoke` handlers),
the fields of `State` the callers share (`collectedBy` and `servedPairs` stand for the collected
servers and the server map, `specModels` and `currentModelData` for the two copies of model data,
each as the set of (model, accelerator) pairs with parameters), `warmUpCount`, and `fit`, how far
the tuner is with each pair. `held` and `clean` are history.

One action per call, named after the function that makes it, in the order of `Optimize`; the
guards and early returns after a call belong to its action (`GETWarmUp` contains the gate,
`GETCollectorInfo` the bypass for cycles without reporting replicas). `Failure` contains what an
error does: `AbortFails` (the cycle ends), `TunerFails`, `CalibrateFails`, `WarmUpFails` (it goes
on), restarts of the tuner and of the Controller.

Properties:
- `OwnSnapshot`: whoever optimizes or actuates does so on servers it collected itself, although all
  callers write the same fields.
- `HoldBounded`: with a timeout of N fewer than N cycles are held back before the optimizer is
  called, however many cycles are aborted in between.
- `LearnedKept`: what the optimizer once knows it keeps; only a restart of the Controller or the
  re-reading of the files in dynamic mode takes it away.
- `CalibratedIsUsed`: a pair calibrated in this cycle is optimized with its calibrated parameters
  in this cycle, if nothing failed.
- `KeepsDeciding`, `CallsReturn`: with a timeout the optimizer is called again and again; every
  call of `Optimize` returns.

### Actuation

State: the cluster (`exists`, `setting` and `replicas` of Deployments, `phase` and `podSetting` of
pods), the Controller's side (`target`, the last solution; `waiting`; `result`), and each request's
`pc`, `updates` and `toPatch`. Two requests can be at work at a time because the handler runs with
`context.Background()`: `Abandon` loses the connection, the handler goes on.

Properties:
- `DoneMeansApplied`: when the answer is "Done" and no abandoned request was at work at the start,
  every existing Deployment has this cycle's allocation.
- `OwnAllocation`: a pod never carries an allocation decided for another Deployment, though
  selectors overlap.
- `Converges`: when decisions and faults stop, every Deployment and every running pod gets the last
  decision for good. Checked for both backends.

### Sensing

State: the cluster (`replicas` and `setting` of Deployments; `phase`, `podSetting`, the `window` in
progress and the `latest` one of pods), the Controller (`stage`, `target`, the request it is `waiting`
for), the Actuator (`order`: of each request what it was posted with and the Deployments left), the
Collector's locals (`deps` as listed, `current`, `listed`, `toRead`, `reporting`, `answer`) and, as history,
which pods were `alive` when they were listed. The backend is chosen at the start. The update handler is
one step per Deployment here; `Actuation` has it call by call. It goes on when its Controller restarts or
loses the connection (`CycleFails`; `handlers.go:38`), beside the next collection and the next request.

Actions: `Collect` lists the Deployments; `ListPods`, `ReadLatest` per pod and `Sensed` (server-sim), or
`FetchMetrics` (llm-d), sense one; `Optimize`, `Actuate` and `CycleEnds` close the loop; each call has
a failing version with the effect the code gives it (`ListPodsFails` drops an llm-d Deployment from the answer
but not from the server map; `UpdateFails` ends one request, or all when the Actuator restarts). `CompleteWindow`, `StartPod`, `PodReady`, `EndPod`, `PodGone` are the pods'.

Properties:
- `RateNotPartial`: a rate taken as measured, where a setpoint is known, is the sum over as many pods as
  the Deployment asked for when it was listed, and over all that were up or starting then: no replica that
  starts, is silent or runs under an old M* is missing in it. Two cases are excepted because the code is
  wrong about them (section 6): more pods alive than asked for, and a pod that is shutting down among the
  listed ones.
- `NeverScaledBlind`: what cannot be sensed is not scaled to zero. The property states exactly how far the
  code goes: with several llm-d variants it only holds while nothing at all was sensed.
- `EveryReplicaReports`: in the end every replica's window is accepted in every answer, the rate is
  measured, and the windows ran under the accelerator and the M* of the decision, although the coherence
  gate compares the M* only.

### CalibrationSweep

State: where the Controller's cycle is and which handler it waits for, the label, the label each /update
has still to write, and per handler the concurrency it read, the point, the job it polls and what is left
of the deadline. Two sweeps and two updates can be at work because neither handler notices that its caller
is gone: `RestartController` and `ClientTimeout` leave them alone, and `PatchLabel` may come at any point of
a later sweep. `CalibratedInForce`: what reaches the tuner was all measured at one concurrency, and that was
in force at some time since the Controller asked (`inForce` is that history); it need not be in force when
the tuner is calibrated. `OwnMeasurement`: a measurement belongs to
its point, though jobs are given up and finish late. `SweepReturns`: the Controller gets out of the call.

### LoadEmulator and Phases

State: the objects as the API server has them, what the emulator read of each (`read`) and which were
changed since (`stale`, the version check), `baseline`, and the last decision on each object as history.
`LastPatchStands`: writing whole objects back never undoes the Actuator's patch. `BaselineIsNominal`: the
walk is around an operator's nominal rate, after any number of restarts within a phase.
`LoadReachesPods`: in the end the rates of the pods add up to their Deployment's.
`Phases` computes in fractions; `NoJump`: between two cycles the multiplier moves no further than the
steepest ramp goes in that time, and it ends where the product of the ratios leads, which is defined by
recursion apart from the code's loop.

### CycleLog and Dashboard

The log is a sequence of lines, a line is a record or does not parse. A record's bytes are begun
(`StartLine`) and finished (`FinishLine`) or cut off (`CutLine`, by a full disk; `Restart`); what follows
an unterminated line is joined to it. The dashboard reads the Controller's own file, or copies it out of
a pod first. `RefreshComplete`: a refresh shows every record that was legible when it opened the file,
whatever lies between. `NeverBlank`: a lost log does not blank the page; in a pod only a copy that has lines
of which none parses does. For a local log it says no more than that the file has lines, because a finished
line may be joined to the ones before it while they are read. `CostMatchesReplicas`: where a
log does not outlive the Controller, the cost panel, which keeps one record per cycle number, is of
the cycles the replicas are of. `EventuallyShown`: in the end the page shows the whole log, though
calls of the sync thread failed.

### The programs that stand alone

`Standalone` picks one of seven programs at the start and runs it; the variables of the others keep one
value. `LoadEndsWithLevel`,
`RowCountsWindow`: the sweeps. `ReportComplete`: figures are of the whole archive and account for each of
its cycles, none beyond the axis. `CurvesAligned`: what is laid side by side is of the same cycles.
`FiguresOfThisRun`: in `ArmReports` an arm may be recorded again at any time, also between the two readings
of `plot_run18.py`, its archive may be torn, empty or missing, and the PNGs of earlier runs stay where they
are (`during` remembers the archives there were while the script ran); when the script has printed its last
line, no curve, and no figure of an arm that had data all the while, is of an archive that was gone before
it began. `NoJump`: see above.

## 3 The runs

| Run | Instance | Checks | Distinct states |
|---|---|---|---|
| `Pairing_safety` | 1+1 Deployments, 2+2 pods, replicas to 2, 2 disturbances | `TypeOK`, `OneToOne`, `HealthyPairsKept`, `OnePassRepairs`, `RefinesMatching` | 494,256 |
| `Pairing_liveness` | 2+1 pods, 3 disturbances | `Converges` | 185,134 |
| `ControlCycle` | ticker and one handler, 2 pairs, timeout 3, calibration, 2 faults | `TypeOK`, `OwnSnapshot`, `HoldBounded`, `CalibratedIsUsed`, `LearnedKept`, `KeepsDeciding`, `CallsReturn` | 141,632 |
| `Actuation` | both backends, 2 Deployments with overlapping selectors, 3 pods of 3 ReplicaSets, 2 requests, churn 2 | `TypeOK`, `OwnAllocation`, `DoneMeansApplied`, `Converges` | 160,546 |
| `Sensing` | both backends, 2 Deployments, 3 pods, 2 values of M*, 2 requests, churn 1 (server-sim) and 2 (llm-d) | `TypeOK`, `RateNotPartial`, `NeverScaledBlind`, `EveryReplicaReports` | 316,317 |
| `LoadEmulator` | 2 Deployments, 2 pods, 2 allocations, 2 nominal rates, churn 2 | `TypeOK`, `LastPatchStands`, `BaselineIsNominal`, `LoadReachesPods` | 589,014 |
| `CalibrationSweep` | 2 sweeps, 2 updates, 3 points, labels none, 4 and 8, 2 faults | `TypeOK`, `CalibratedInForce`, `OwnMeasurement`, `SweepReturns` | 869,551 |
| `Dashboard` | both hostings, 2 solutions, 3 cycles, 2 faults | `CostMatchesReplicas`, `RefreshComplete`, `NeverBlank`, `EventuallyShown` | 399,238 |
| `Standalone` | the seven programs of `Standalone`, with the archives, levels and phase files of `MCStandalone` | `LoadEndsWithLevel`, `RowCountsWindow`, `ReportComplete`, `CurvesAligned`, `FiguresOfThisRun`, `NoJump` | 1,043,411 |
| `ControlCycle_warmup` | no timeout, no faults | violates `NeverOptimizesInWarmUp` | |
| `Actuation_labels` | one Deployment without the optional label | violates `OptionalLabel` | |
| `CycleLog_skipped` | a log that outlives the Controller, 2 faults | violates `OneLinePerCycle` | |

The deadlock check is off in the three runs of programs that end (`Dashboard`, `CycleLog_skipped`,
where the Controller's cycles are bounded, and `Standalone`). Everywhere else something can always
happen. Every property of a passing run has a mutant of the code, defined next to what it mutates, that
breaks it.

## 4 Bounds, fairness, abstractions

**Bounds.** `MaxChurn` (Pairing, Actuation, Sensing, LoadEmulator) bounds disturbances: failing calls,
restarts, pod failures, edits, new decisions. Two are enough to break one side of a binding and then lose or
revive its mate, the longest story the code's comments tell; the liveness run of Pairing has three.
In Sensing one is enough for server-sim pods, where any single failure must be harmless: a new decision, or
a Controller that restarts and leaves its request at work. With one disturbance the late request carries
the same decisions as the next one; with other decisions (two disturbances, as for llm-d, where it takes two
to sense nothing of two variants) the server-sim instance is out of TLC's reach, and `Actuation` has late
requests with other decisions. `MaxFaults`
(ControlCycle, CalibrationSweep, CycleLog, the sweeps) bounds failed calls, restarts and outages of the
disk; two let a tuner restart meet a failing merge, a lost update meet a failing job or a restart in the next sweep, and a record that
was cut off meet the restart after which the next one is joined to it.
`MaxReplicas` is 2, so that two bindings are in one plan and order matters. `WarmUpTimeout` is 3,
the smallest value with a cycle before, at and after the boundary; `warmUpCount` is kept up to
the timeout only, because the code compares it with nothing else. `Ids` has one id more than
pods can carry. Pod names are used once and numbered in lexical order, which is how the API server
lists them and the planner sorts them.

**Fairness.** Pairing: the ticker fires and every API call returns (`WF(Reconcile)`), the
ReplicaSet controllers and kubelets keep working (weak fairness per pod). ControlCycle: the ticker
fires, `sync.Mutex` hands over in FIFO order to a waiter that waits for more than a millisecond, so
`Lock` is strongly fair; every remote call is answered. The last is an assumption: the HTTP
clients have no timeout, and a peer that accepts a connection and never answers blocks the
loop for good (`utils.go:66`, listed as a hazard). Nothing is assumed of `/invoke`. Actuation: the
Controller's cycles go on, every API call returns, the cluster's controllers work. Sensing: the same, and
pods complete one window after the other. LoadEmulator: its loop goes on. CalibrationSweep: only the
handlers' goroutines go on; server-sim need not finish any job, and the client's timeout is not needed.
Dashboard: the sync thread and the page's timer run on, a full disk is freed, a line that was begun is
ended; the Controller need not write any more. Faults and
disturbances are never fair; they are bounded, so "once they stop" is every behaviour's suffix.

**Abstractions.** UUIDs are fresh ids (`uuid.NewString` does not repeat). The listing of ReplicaSets and
the listing of pods in `listOwnedReadyPods` are one step, as are the reads of `patchPodsAllocation`:
the set of ReplicaSets owned by a Deployment does not change in these models. An accelerator label
and a batch-size label are one setting, as they are written by one patch. Load, latency, cost and
parameter values are left out: no branch of the modelled code depends on them, except through the
tuner's and the optimizer's answers, which are nondeterministic. The server map a request brings
contains all existing Deployments and possibly some deleted ones. In Sensing the latencies and token
counts are left out and the rate is only where it was taken from; a window carries the setting it ran
under. In CalibrationSweep the six operating points are numbered (three in the run) and a job ends
usable or not. In LoadEmulator rates are small integers, the random walk is any draw of a set before the
clamps, and the version check is the set `stale`. A record of the log is its Controller's incarnation,
its cycle number and the solution; a panel is the set of its points. The looks of figures are left out,
but for what decides whether a value is seen. Logging is left out.

## 5 Proofs

All for every value of the constants that satisfies the named assumptions of the modules.

| Theorem | Says | Argument |
|---|---|---|
| `PairingProofs!TypeCorrect` | `Spec => []TypeOK` | `TypeOK` is inductive; the plan refers to pods of the current pair of Deployments only |
| `PairingProofs!PairIdsOneToOne` | `Spec => []OneToOne` | `OneToOneInv`: besides `OneToOne`, the bindings are of pods of the current Deployment and its target (`PlanAligned`), and between the two patches of a binding the new id is on no pod but a managed pod of the current Deployment (`UuidHalfBound`). Needed because `OneToOne` alone does not say why the second patch is safe |
| `PairingProofs!HealthyPairsAreKept` | `Spec => HealthyPairsKept`, if no two managed Deployments share a vLLM Deployment | `KeepInv`: the first listing is still true of untouched pods, so the plan spares every untouched healthy pair. Without the assumption it is false: two Deployments prune each other's pairs |
| `PairingProofs!UndisturbedPassRepairs` | `Spec => OnePassRepairs` | `RepairPlan`: while nobody has interfered, what is left of the plan mends the labels (`Mends`): every labelled Ready pod is in a pair, is to be pruned, or is half-bound, and the bindings that are left cover one of the two sides. The planner's bindings do because the ranks of the unpaired pods fill an initial segment of the naturals (`RanksFill`). One lemma per kind of step takes something off the plan and keeps it mending (`PruneMends`, `FirstHalfMends`, `SecondHalfMends`); with nothing left, one side is in pairs completely, and the pairs are a bijection, so as many pods are paired as the smaller side has (`MendedIsRepaired`). Unlike `HealthyPairsAreKept` it does not need that Deployments do not share a vLLM Deployment: the pass of one of them leaves its own pods repaired |
| `PairingProofs!ImplementsMatching` | `Spec => Matching!Spec` | step simulation: only `BindVLLM` can add a pair; `OneToOneInv` makes it exactly one |
| `ControlCycleProofs!TypeCorrect` | `Spec => []TypeOK` | inductive |
| `ControlCycleProofs!DecisionsUseOwnSnapshot` | `Spec => []OwnSnapshot` | `SnapshotInv`: who is between two calls holds the mutex, and after `/collect` the snapshot is its own. `StepSummary` says once what a step does to mutex, control and snapshot |
| `ControlCycleProofs!WarmUpTimeoutBoundsHold` | `Spec => []HoldBounded` | `HoldInv`: cycles held are at most the count the Controller keeps |
| `ControlCycleProofs!LearnedParametersAreKept` | `Spec => LearnedKept` | `ModelInv`: the optimizer's model data is contained in what is sent to the next merge, and both contain the seeds. The first conjunct is what the mutant that merges into the file's data breaks |
| `ControlCycleProofs!CalibrationFeedsTheSameCycle` | `Spec => []CalibratedIsUsed` | `CalibrationInv`: while nothing failed, every pair calibrated in this cycle is fitted until the merge |
| `ActuationProofs!TypeCorrect` | `Spec => []TypeOK` | inductive; a request is free exactly when it has no update left |
| `ActuationProofs!PodsKeepToTheirDeployment` | `Spec => []OwnAllocation` | `Own`: the pods a request has still to patch belong to the Deployment of its first update, and that update has replicas, so that it is not the zero allocation. A request is at work on one update at a time because they are sorted (`OneCurrent`) |
| `ActuationProofs!DoneIsDone` | `Spec => DoneMeansApplied` | `Doings`: while the Controller waits for a request, its updates are the current decisions; if it is alone, no other request is at work, and every existing Deployment either has its allocation or its update has not begun. One lemma each for a failed request (`DoneReply`), a finished update (`DoneNext`) and an update that goes on (`DoneGoesOn`) |
| `SensingProofs!TypeCorrect`, `!RatesAreWhole` | `Spec => []TypeOK`, `[]RateNotPartial` | one invariant; the listing does not change until the answer is thrown away, so what has to be shown is what a new record of the answer says (`AnswerKept`). The pods that reported are among the listed ones; if none of those was shutting down they are among the ones alive, and if there are at least as many of them, they are all of them (`AsManyPods`) |
| `SensingProofs!ZeroIsDecided` | `Spec => NeverScaledBlind` | `Covered`: a server-sim Deployment that was gone through is in the answer, and the Actuator is not called with an empty one; `MadeFromAnswers`: that remains true of a request for as long as it works, whatever became of its Controller |
| `LoadEmulatorProofs!TypeCorrect`, `!PatchesStand`, `!BaselinesAreNominal` | `Spec => []TypeOK`, `[]LastPatchStands`, `[]BaselineIsNominal` | one invariant: what was read of an object that is not stale is what the object has (`Coherent`), and during a cycle the nominal rate read is one an operator set (`Nominal`). Type correctness needs the latter: a rate is drawn around the captured baseline, which must not be `Unset`. `ClampType` is about the clamps |
| `CalibrationSweepProofs!TypeCorrect`, `!CalibratesInForce`, `!MeasuresItsPoint` | `Spec => []TypeOK`, `[]CalibratedInForce`, `[]OwnMeasurement` | one invariant: the handler the Controller waits for read a label that was in force since the Controller asked, and a label that is written meanwhile is remembered (`InForce`), a handler's points have the concurrency it read (`OwnBatch`), the job it polls is the one of its point (`OwnJob`). `PointStep` is the step to the next point, which four actions take |
| `DashboardProofs!TypeCorrect` | `Spec => []TypeOK` | `TypeInv`: besides the types, the counters are bounded by the cycles and the restarts so far (`Counting`), without which a record could leave its type, and only the last line may not be ended (`AtTheEnd`) |
| `DashboardProofs!RefreshIsComplete`, `!NeverGoesBlank`, `!CostsMatch` | `Spec => RefreshComplete`, `NeverBlank`, `[]CostMatchesReplicas` | `NumberInv`: the record being written is newer than every record in the log, a copy or a refresh, so no number comes twice from one Controller, and in a pod not at all. `ReadInv`: in a pod, what a refresh has taken is what is whole among the lines it has read; of a file that grows meanwhile every record is taken, still ahead, or lost to a joined line (`LocalReading`); and the page shows something only while its file has a line |
| `StandaloneProofs!LoadEnds`, `!RowsCount` | `Spec => []LoadEndsWithLevel`, `RowCountsWindow` | `CurveInv` and `DriverInv`: in a window the counter is its first reading plus the requests finished since, unless the server restarted (`Counted`); a worker that has sent a late request has sent one, and its level was told to stop (`LateOnce`) |
| `StandaloneProofs!ReportsComplete` | `Spec => []ReportComplete` | `Run12Inv`, `Run15Inv`: a script that draws has got past every line, so no line is torn, and its records are the archive; each figure drawn is the function of the archive that `Figure` defines, so the claims become facts about those functions: every cycle is in exactly one of the series of the TTFT axis (`TTFTSeries`, `TTFTAxis`). `OverlayInv`: part A of run 19, once drawn, shows the rows of run 19; that its axis holds every cycle needs that there is a largest one (`Largest`) |
| `StandaloneProofs!CurvesAreAligned` | `Spec => []CurvesAligned` | the same for the concurrency curve (`ConcurrencyCurve`, `ReplicasCurve`); an arm of the surge has a row, and its first row is at zero (`StartsAtZero`, `SurgeStep`) |
| `StandaloneProofs!FiguresAreOfThisRun` | `Spec => []FiguresOfThisRun` | `ArmsInv`: while the script runs the archive of an arm is one of those remembered in `during`; the figure across the arms, once drawn, is of remembered archives (`AcrossOf`), and so is the figure of each arm that is not still to be drawn (`AloneOf`). A recording that comes meanwhile harms neither (`MoreArchives`), and a script that is done has nothing still to draw |
| `StandaloneProofs!RateDoesNotJump` | `Spec => NoJump` | `ClockInv` only says that the phases are accepted ones and the reading is their multiplier at the time elapsed; the rest is about the function. `StartDef` and `ChainedDef`: the two recursive functions exist and obey their equations. A ramp rises by its steepness in one unit of time (`RampStep`) and meets its neighbours at both ends (`RampEnds`), so a step over a phase boundary is bounded by the ramp it leaves (`ClockStep`); steps add up by the triangle inequality (`ClockSpan`), and one of the ramps is the steepest (`LargestFraction`) |

Assumptions: `NoIdAssumption`, `PairingAssumption`, `ControlCycleAssumption`, `ActuationAssumption`,
`SensingAssumption`, `LoadEmulatorAssumption` and `CalibrationSweepAssumption` say what the constants
are (finite sets of pods, disjoint Deployments, a null value outside its set, Deployments that are
numbered in the order of their names, positive replicas in a decision). `CycleLogAssumption`: a solution
is not empty and gives each of its servers an allocation; `TornAssumption`: a line that does not parse is no record. The
assumptions of `Standalone` say what its programs read: levels are numbers; archives are sequences of
records or torn lines, in the order of time where the script relies on it; cycles are counted from one; `None` is
neither a number nor a figure; a phase has an integer duration and a ratio that is a fraction with a positive
denominator, and everything else about a phase file is what `Accepted` rejects. TLC evaluates all of
them on every run that has them. No bound is among them beyond being a natural number: the theorems hold for any
number of Deployments, pods, requests, handlers, points, cycles, levels, records, phases and faults. Only
`HealthyPairsAreKept` has a hypothesis of its own (`TargetsDistinct`), for the reason given above.

Every invariant and action property of a passing run is proved. Where an argument is an induction
over data (ranks, lines, starts of phases, units of time), it is led as a contradiction from the smallest
counterexample (`LeastNat`) or from a bijection, because the provers cannot instantiate an induction theorem.

Only model-checked: liveness (the two properties `Converges`, `KeepsDeciding`, `CallsReturn`,
`EveryReplicaReports`, `LoadReachesPods`, `SweepReturns`, `EventuallyShown`), which is beyond TLAPS. The
three runs that expect a violation show counterexamples, of which there is nothing to prove.

## 6 Disagreements found

Shown by a run:

1. `ControlCycle_warmup`: a cycle in which no replica reports skips the whole tuner block
   (`controller.go:254`), so it also skips the warm-up gate, resets `warmUpCount` and calls the optimizer during
   warm-up; `docs/operational-notes.md:28` says this never happens. With zero `perfParms` the optimizer
   fails and the cycle is aborted, so the consequence is an error the notes call unreachable.
2. `Actuation_labels`: the Deployment patch replaces the two labels (`handlers.go:54-57`), which the API
   server rejects if one is missing. `README.md:309-313` calls `maxbatchsize` optional.
3. `CycleLog_skipped`: `json.Encoder` keeps its first write error, and the recorder is never made anew: after
   one failed write no cycle is logged until the Controller restarts, though the disk is free again.
   `monitor.go:15` promises a line per cycle.

Read from the code while modelling it, without a run of their own:

- In dynamic mode `currentModelData` is reset from the file in every cycle (`controller.go:228`);
  `docs/model-tuner-usage.md:139` says it is updated only by `/merge`. `LearnedKept` excepts the reset.
- Running pods of old ReplicaSets are relabelled; the comment at `pod_alloc.go:27-29` says they are not. A
  Deployment owns the ReplicaSets of its old revisions too. The instance of `Actuation` has such a pod.
- The coherence gate compares the concurrency and not the accelerator (`replicaspec.go:14`), and reads the
  M* in force from the Deployment (`sensor_serversim.go:32`): a window of the same M* on the old accelerator is
  accepted. `docs/operational-notes.md:48` says it reads the pod's label, and that a match means the current
  allocation. `EveryReplicaReports` shows that such windows are not read for good.
- A pod that is shutting down is still Running and is counted as reporting (`sensor_serversim.go:219`): in the
  place of a replica that is starting or silent it makes a partial sum look whole, which the comment at
  `sensor_serversim.go:207-216` means to rule out. The same sum is taken when more pods are alive than the
  Deployment asks for and only some report. `RateNotPartial` excepts both.
- An /update works with `context.Background()` (`handlers.go:38`) and may outlive a Controller that restarts or
  loses the connection, and change `maxbatchsize` while the next cycle sweeps; `docs/calibration.md:80-81` says it
  cannot change mid-sweep. `CalibratedInForce` shows what is left of that: all points of a calibration are of
  one concurrency, which was in force since the Controller asked, though perhaps no longer is.
- `plot_run18.py` skips an arm whose archive is empty or missing (`plot_run18.py:106-108`) and leaves its PNG of
  an earlier recording where it is, and prints "done" all the same. `FiguresOfThisRun` is about arms that had data.
- A Deployment without nominal token labels gets zero tokens, below `LoadRangeTokensFloor`
  (`loademulator.go:219`).
- `cycleNum` starts at zero with every Controller; `record.go:6` calls it monotonically increasing. Where
  the log outlives the Controller the cost panel drops the repeated numbers, the others do not.
- The empty value of the log's variable means the default path and does not disable it (`monitor.go:25-28`).
- `incluster_sweep.py:87` sleeps six seconds to drain a level whose requests may take 600.
- `gen_report_figs_run12.py:155` marks a pod without a result as saturated; `analyze.py:71` (run 17) prints a
  band that includes 1000 rpm as above it; `plot_surge.py:60` counts from the first record with the
  model, not from the first record.

## 7 What is not modelled

- The older report scripts (runs 1, 5, 6, 7b, 9, 10, 11, and `analyze.py` of run 18): they read one archive
  and draw the same figures as those of runs 12, 15 and 17; a model of each would repeat `Run12Report` or
  `ArmReports` with other names.
- Process entry points, manifests, sample data: parsing of flags and environment, values of constants.
- Deployment scripts: sequences of `kubectl` and `kind` commands. The archiving of a log is an action of
  `ArmReports` (`save-cycle-log.sh`), and the copying of the log has its
  model in the dashboard's sync thread.
- The text of Prometheus queries and the number formats; that they answer or fail is in `Sensing`.
- The numbers inside the tuner and the optimizer, which are not part of the repository.
- The configuration in which two managed Deployments name one vLLM Deployment is not in a run: the
  theorems of section 5 other than `HealthyPairsAreKept` hold for it, and it promises no liveness.
- A whole loop with Actuation's calls, Sensing's reads and the sweep's polls in one state space: `Sensing`
  composes all parts with the update as one step per Deployment, `CalibrationSweep` the sweep with the
  cycle; both at once are out of TLC's reach at bounds where anything happens.
