-------------------------- MODULE CalibrationSweep --------------------------
(***************************************************************************)
(* Benchmarking on the fly: the Collector's /sweep handler                 *)
(* (pkg/collector/calibrate.go), runSimulate (serversim.go), the           *)
(* Controller that waits for it in the middle of a cycle (calibrator.go,   *)
(* utils.go) and the server-sim that works on the jobs.                    *)
(*                                                                         *)
(* Neither this handler nor the Actuator's notices that its caller is      *)
(* gone: after the client's time-out, a lost connection or a restart of    *)
(* the Controller it goes on beside the next cycles, and an /update that   *)
(* was given up may write the label while the next sweep is at work.       *)
(* ControlCycle has the sweep as one call and Actuation the update call by *)
(* call; here the sweep is gone through point by point and poll by poll,   *)
(* and an update is the write of one label.                                *)
(***************************************************************************)
EXTENDS Naturals, Sequences, SequencesExt

CONSTANTS Handlers,   \* sweeps that may be running at the same time
          Updates,    \* /update requests that may be running at the same time
          Nobody,
          Points,     \* the number of points of the grid
          Batches,    \* values of the maxbatchsize label; 0: no label
          Budget,     \* the point's time-out, in poll intervals
          MaxFaults   \* bound on failed calls, time-outs of the caller and restarts

ASSUME CalibrationSweepAssumption ==
    /\ Nobody \notin Handlers \cup Updates /\ Handlers \cap Updates = {}
    /\ Points \in Nat \ {0}
    /\ Batches \subseteq Nat /\ 0 \in Batches
    /\ Budget \in Nat /\ MaxFaults \in Nat

VARIABLES
    \* the Controller
    cycle,    \* idle, sweeping, calibrate, actuate or updating
    waiting,  \* the handler whose answer GETSweep or POSTActuator waits for
    points,   \* the answer, which POSTCalibrate sends to the tuner
    \* the cluster
    label,    \* maxbatchsize of the server's Deployment
    \* the Actuator
    write,    \* the label each request has still to write, if any
    \* the Collector
    pc,       \* of each handler: free, find, create, poll or wait
    batch,    \* the concurrency it read at its start
    point,    \* the point it is at
    job,      \* the server-sim job it polls: point, concurrency and status
    left,     \* what is left of the point's time-out
    specs,    \* the usable points: point, concurrency and what was simulated
    \* history
    inForce,  \* the labels there were since the Controller asked for this cycle's sweep
    faults

controller == <<cycle, waiting, points, inForce>>
handler == <<pc, batch, point, job, left, specs>>
cluster == <<label, write>>
vars == <<controller, cluster, handler, faults>>

\* a job may end without a usable measurement: failed, saturated or without latencies
Outcomes == {"usable", "unusable"}
Jobs == [point : 1..Points, batch : Batches, status : Outcomes \cup {"pending"}]
NoJob == [point |-> 1, batch |-> 0, status |-> "unusable"]

\* a point as reported, and what the job simulated
Measurements == [point : 1..Points, batch : Batches, of : (1..Points) \X Batches]

TypeOK ==
    /\ cycle \in {"idle", "sweeping", "calibrate", "actuate", "updating"}
    /\ waiting \in Handlers \cup Updates \cup {Nobody}
    /\ waiting \in Handlers <=> cycle = "sweeping"
    /\ waiting \in Updates <=> cycle = "updating"
    /\ waiting \in Handlers => pc[waiting] # "free"
    /\ points \in Seq(Measurements) /\ label \in Batches
    /\ write \in [Updates -> SUBSET Batches] /\ inForce \subseteq Batches
    /\ pc \in [Handlers -> {"free", "find", "create", "poll", "wait"}]
    /\ batch \in [Handlers -> Batches] /\ left \in [Handlers -> 0..Budget]
    /\ point \in [Handlers -> 1..(Points + 1)]
    /\ job \in [Handlers -> Jobs] /\ specs \in [Handlers -> Seq(Measurements)]
    /\ \A h \in Handlers : /\ Len(specs[h]) < point[h]
                           /\ pc[h] \in {"free", "find"} => specs[h] = <<>>
    /\ faults \in 0..MaxFaults

Init ==
    /\ cycle = "idle" /\ waiting = Nobody /\ points = <<>>
    /\ label \in Batches /\ inForce = {} /\ write = [u \in Updates |-> {}]
    /\ pc = [h \in Handlers |-> "free"] /\ batch = [h \in Handlers |-> 0]
    /\ point = [h \in Handlers |-> 1] /\ job = [h \in Handlers |-> NoJob]
    /\ left = [h \in Handlers |-> 0] /\ specs = [h \in Handlers |-> <<>>]
    /\ faults = 0

Disturb == faults < MaxFaults /\ faults' = faults + 1
Calm == UNCHANGED faults

-----------------------------------------------------------------------------
(***************************************************************************)
(* The Controller.                                                         *)
(***************************************************************************)

\* Mutant: a sweep of the server that is still running is joined.
JoinSweep(h) ==
    /\ cycle = "idle" /\ cycle' = "sweeping" /\ inForce' = {label}
    /\ LET busy == {g \in Handlers : pc[g] # "free"} IN
       IF busy # {} THEN waiting' \in busy /\ UNCHANGED pc
                    ELSE waiting' = h /\ pc' = [pc EXCEPT ![h] = "find"]
    /\ UNCHANGED <<points, cluster, batch, point, job, left, specs>>

\* the handlers that are free are alike, and so are the requests
NextHandler == CHOOSE h \in Handlers : pc[h] = "free"
NextUpdate == CHOOSE u \in Updates : write[u] = {}

\* The tuner asks for a calibration.
GETSweep(h) ==
    /\ cycle = "idle" /\ pc[h] = "free" /\ h = NextHandler
    /\ cycle' = "sweeping" /\ waiting' = h /\ inForce' = {label}
    /\ pc' = [pc EXCEPT ![h] = "find"]
    /\ UNCHANGED <<points, cluster, batch, point, job, left, specs>>

\* no calibration is needed
NoSweep ==
    /\ cycle = "idle"
    /\ cycle' = "actuate"
    /\ UNCHANGED <<waiting, points, inForce, cluster, handler>>

\* the Controller waits for nobody and goes on without points
GoOn(stage) == cycle' = stage /\ waiting' = Nobody /\ points' = <<>> /\ inForce' = {}

\* Mutant: the next sweep of the handler starts with the points of this one.
ResetKeepsPoints(h) ==
    /\ pc' = [pc EXCEPT ![h] = "free"] /\ batch' = [batch EXCEPT ![h] = 0]
    /\ point' = [point EXCEPT ![h] = 1] /\ job' = [job EXCEPT ![h] = NoJob]
    /\ left' = [left EXCEPT ![h] = 0] /\ UNCHANGED specs

Reset(h) ==
    /\ pc' = [pc EXCEPT ![h] = "free"] /\ batch' = [batch EXCEPT ![h] = 0]
    /\ point' = [point EXCEPT ![h] = 1] /\ job' = [job EXCEPT ![h] = NoJob]
    /\ left' = [left EXCEPT ![h] = 0] /\ specs' = [specs EXCEPT ![h] = <<>>]

\* The handler answers, or ends with an error, which is an answer without points.  Fewer
\* than two points calibrate nothing; nobody may be waiting.
Reply(h) ==
    /\ IF waiting = h
       THEN IF Len(specs[h]) < 2 THEN GoOn("actuate")
            ELSE /\ cycle' = "calibrate" /\ waiting' = Nobody /\ points' = specs[h]
                 /\ UNCHANGED inForce
       ELSE UNCHANGED controller
    /\ Reset(h)
    /\ UNCHANGED cluster

Answer(h) == pc[h] = "create" /\ point[h] = Points + 1 /\ Reply(h)

POSTCalibrate ==
    /\ cycle = "calibrate"
    /\ GoOn("actuate")
    /\ UNCHANGED <<cluster, handler>>

\* the rest of the cycle, which gives the Actuator a new allocation
POSTActuator(u) ==
    /\ cycle = "actuate" /\ write[u] = {} /\ u = NextUpdate
    /\ cycle' = "updating" /\ waiting' = u
    /\ \E b \in Batches : write' = [write EXCEPT ![u] = {b}]
    /\ UNCHANGED <<points, inForce, label, handler>>

\* the Actuator has answered; a request that failed ends the cycle too
CycleEnds ==
    /\ cycle = "updating" /\ write[waiting] = {}
    /\ GoOn("idle")
    /\ UNCHANGED <<cluster, handler>>

\* GETSweep's 20 minutes are over: the cycle goes on without calibration.
ClientTimeout ==
    /\ cycle = "sweeping"
    /\ GoOn("actuate")
    /\ UNCHANGED <<cluster, handler>>

\* The Controller restarts, or loses the connection to the Actuator: the request goes on.
RestartController ==
    /\ cycle # "idle"
    /\ GoOn("idle")
    /\ UNCHANGED <<cluster, handler>>

-----------------------------------------------------------------------------
(***************************************************************************)
(* The Actuator.                                                           *)
(***************************************************************************)

\* The Deployment is patched, whether the Controller still waits or not.
PatchLabel(u) ==
    /\ \E b \in write[u] : label' = b
    /\ write' = [write EXCEPT ![u] = {}]
    /\ inForce' = IF cycle \in {"sweeping", "calibrate"} THEN inForce \cup {label'} ELSE {}
    /\ UNCHANGED <<cycle, waiting, points, handler>>

\* the patch fails, or the Actuator restarts
PatchFails(u) ==
    /\ write[u] # {}
    /\ write' = [write EXCEPT ![u] = {}]
    /\ UNCHANGED <<controller, label, handler>>

-----------------------------------------------------------------------------
(***************************************************************************)
(* The Collector.                                                          *)
(***************************************************************************)

\* findServerPod lists the Deployments and reads the label: without one there is nothing
\* to measure at.
Find(h) ==
    /\ pc[h] = "find" /\ label > 0
    /\ pc' = [pc EXCEPT ![h] = "create"] /\ batch' = [batch EXCEPT ![h] = label]
    /\ UNCHANGED <<controller, cluster, point, job, left, specs>>

\* no label, no ready pod, no nominal load
FindNothing(h) == pc[h] = "find" /\ Reply(h)

\* The next point; the usable measurement of this one, if there is one, is kept.  A job that
\* is given up goes on in server-sim.
NextPoint(h, measured) ==
    /\ pc' = [pc EXCEPT ![h] = "create"] /\ point' = [point EXCEPT ![h] = @ + 1]
    /\ specs' = [specs EXCEPT ![h] = @ \o measured]
    /\ left' = [left EXCEPT ![h] = 0]
    /\ job' = [job EXCEPT ![h] = IF @.status = "pending" THEN @ ELSE NoJob]
    /\ UNCHANGED <<controller, cluster, batch>>

NewJob(h) == [point |-> point[h], batch |-> batch[h], status |-> "pending"]

\* Mutant: a job that is still pending is polled on with the next point.
CreateOrReuse(h) ==
    /\ pc[h] = "create" /\ point[h] <= Points
    /\ IF job[h].status = "pending" THEN UNCHANGED job
       ELSE job' = [job EXCEPT ![h] = NewJob(h)]
    /\ pc' = [pc EXCEPT ![h] = "poll"] /\ left' = [left EXCEPT ![h] = Budget]
    /\ UNCHANGED <<controller, cluster, batch, point, specs>>

\* runSimulate posts the point and is given a job; the time-out starts.  A job of an
\* earlier point that was given up is never polled again.
CreateJob(h) ==
    /\ pc[h] = "create" /\ point[h] <= Points
    /\ job' = [job EXCEPT ![h] = NewJob(h)]
    /\ pc' = [pc EXCEPT ![h] = "poll"] /\ left' = [left EXCEPT ![h] = Budget]
    /\ UNCHANGED <<controller, cluster, batch, point, specs>>

CreateFails(h) == pc[h] = "create" /\ point[h] <= Points /\ NextPoint(h, <<>>)

\* the sweep's verdict on a finished job: saturated points and points without a latency
\* are skipped like failed ones
Measured(h) ==
    IF job[h].status = "usable"
    THEN <<[point |-> point[h], batch |-> batch[h], of |-> <<job[h].point, job[h].batch>>]>>
    ELSE <<>>

\* the status is read in time
Poll(h) ==
    /\ pc[h] = "poll" /\ left[h] > 0
    /\ IF job[h].status = "pending"
       THEN /\ pc' = [pc EXCEPT ![h] = "wait"]
            /\ UNCHANGED <<controller, cluster, batch, point, job, left, specs>>
       ELSE NextPoint(h, Measured(h))

\* Mutant: after a transient error the time-out starts anew.
PollRestartsTimeout(h) ==
    /\ pc[h] = "poll"
    /\ left' = [left EXCEPT ![h] = Budget]
    /\ UNCHANGED <<controller, cluster, pc, batch, point, job, specs>>

\* a transient error of the API server's proxy is retried with the next tick
PollFails(h) ==
    /\ pc[h] = "poll" /\ left[h] > 0
    /\ pc' = [pc EXCEPT ![h] = "wait"]
    /\ UNCHANGED <<controller, cluster, batch, point, job, left, specs>>

\* the ticker, while the time-out has not passed
Tick(h) ==
    /\ pc[h] = "wait" /\ left[h] > 0
    /\ pc' = [pc EXCEPT ![h] = "poll"] /\ left' = [left EXCEPT ![h] = @ - 1]
    /\ UNCHANGED <<controller, cluster, batch, point, job, specs>>

\* the context is done: the select sees it, or the call does
Deadline(h) == pc[h] \in {"poll", "wait"} /\ left[h] = 0 /\ NextPoint(h, <<>>)

RestartCollector ==
    /\ \E h \in Handlers : pc[h] # "free"
    /\ pc' = [h \in Handlers |-> "free"] /\ batch' = [h \in Handlers |-> 0]
    /\ point' = [h \in Handlers |-> 1] /\ job' = [h \in Handlers |-> NoJob]
    /\ left' = [h \in Handlers |-> 0] /\ specs' = [h \in Handlers |-> <<>>]
    /\ IF cycle = "sweeping" THEN GoOn("actuate") ELSE UNCHANGED controller
    /\ UNCHANGED cluster

-----------------------------------------------------------------------------

\* server-sim finishes the job a handler polls; the ones given up finish unseen
Finish(h) ==
    /\ pc[h] \in {"poll", "wait"} /\ job[h].status = "pending"
    /\ \E outcome \in Outcomes : job' = [job EXCEPT ![h].status = outcome]
    /\ UNCHANGED <<controller, cluster, pc, batch, point, left, specs>>

Sweep(h) ==
    \/ Find(h) \/ FindNothing(h) \/ Answer(h) \/ CreateJob(h)
    \/ Poll(h) \/ PollFails(h) \/ Tick(h) \/ Deadline(h)

Control ==
    \/ NoSweep \/ POSTCalibrate \/ CycleEnds
    \/ \E h \in Handlers : GETSweep(h)
    \/ \E u \in Updates : POSTActuator(u) \/ PatchLabel(u)

Fault ==
    \/ ClientTimeout \/ RestartController \/ RestartCollector
    \/ \E h \in Handlers : CreateFails(h)
    \/ \E u \in Updates : PatchFails(u)

Next ==
    \/ (Control \/ \E h \in Handlers : Sweep(h) \/ Finish(h)) /\ Calm
    \/ Fault /\ Disturb

\* Every handler's goroutine goes on; server-sim need not finish any job.
Fairness == \A h \in Handlers : WF_vars(Sweep(h) /\ Calm)

Spec == Init /\ [][Next]_vars
FairSpec == Spec /\ Fairness

-----------------------------------------------------------------------------
(***************************************************************************)
(* Properties                                                              *)
(***************************************************************************)

\* The points the tuner is calibrated with were all measured at one concurrency, and that
\* was in force at some time since the Controller asked for them, although sweeps and
\* updates of earlier cycles may still be at work.  It need not be in force any more: an
\* update that was given up may write the label while the sweep measures.
CalibratedInForce ==
    cycle = "calibrate" => \E b \in inForce : \A i \in DOMAIN points : points[i].batch = b

\* A measurement belongs to the point it is reported for: a job that was given up and
\* finishes late is not taken for the next one.
OwnMeasurement ==
    \A h \in Handlers : \A m \in ToSet(specs[h]) : m.of = <<m.point, m.batch>>

\* The Controller, which holds its mutex meanwhile, always gets an answer, although
\* server-sim hangs and the API server's proxy fails again and again.
SweepReturns == (cycle = "sweeping") ~> (cycle # "sweeping")
=============================================================================
