----------------------- MODULE CalibrationSweepProofs -----------------------
(***************************************************************************)
(* Type correctness of the sweep and its two safety properties, for any    *)
(* number of sweeps, updates, points and polls and any labels.             *)
(*                                                                         *)
(* A handler keeps the concurrency it read at its start, and the handler   *)
(* the Controller waits for read it after the Controller asked; updates    *)
(* may change it then, but what was in force since the Controller asked is *)
(* remembered.  The job a handler polls is the one of its point.           *)
(***************************************************************************)
EXTENDS CalibrationSweep, TLAPS

Working(h) == pc[h] \in {"poll", "wait"}

OwnJob ==
    \A h \in Handlers : Working(h) =>
        point[h] <= Points /\ job[h].point = point[h] /\ job[h].batch = batch[h]

OwnBatch == \A h \in Handlers : \A m \in ToSet(specs[h]) : m.batch = batch[h]

InForce ==
    cycle = "sweeping" =>
        /\ label \in inForce
        /\ pc[waiting] # "find" => batch[waiting] \in inForce

IInv ==
    TypeOK /\ OwnJob /\ OwnBatch /\ InForce /\ CalibratedInForce /\ OwnMeasurement

\* Lengths and elements of a list of measurements to which one more may be added.
LEMMA Kept ==
    ASSUME NEW s \in Seq(Measurements), NEW t,
           t = <<>> \/ \E m \in Measurements : t = <<m>>
    PROVE  /\ s \o t \in Seq(Measurements)
           /\ Len(s \o t) <= Len(s) + 1
           /\ ToSet(s \o t) \subseteq ToSet(s) \cup ToSet(t)
<1>1. CASE t = <<>>
    <2>1. s \o t = s
        BY <1>1
    <2>2. QED
        BY <2>1
<1>2. ASSUME NEW m \in Measurements, t = <<m>>
      PROVE  /\ s \o t \in Seq(Measurements) /\ Len(s \o t) <= Len(s) + 1
             /\ ToSet(s \o t) \subseteq ToSet(s) \cup ToSet(t)
    <2>1. /\ s \o t \in Seq(Measurements) /\ Len(s \o t) = Len(s) + 1
          /\ \A i \in 1..Len(s) : (s \o t)[i] = s[i]
          /\ (s \o t)[Len(s) + 1] = m
        BY <1>2
    <2>2. m \in ToSet(t)
        BY <1>2 DEF ToSet
    <2>3. ASSUME NEW i \in DOMAIN (s \o t) PROVE (s \o t)[i] \in ToSet(s) \cup ToSet(t)
        <3>1. i \in 1..Len(s) \/ i = Len(s) + 1
            BY <2>1
        <3>2. CASE i \in 1..Len(s)
            <4>1. s[i] \in ToSet(s)
                BY <3>2 DEF ToSet
            <4>2. QED
                BY <2>1, <3>2, <4>1
        <3>3. CASE i = Len(s) + 1
            BY <2>1, <2>2, <3>3
        <3>4. QED
            BY <3>1, <3>2, <3>3
    <2>4. QED
        BY <2>1, <2>3 DEF ToSet
<1>3. QED
    BY <1>1, <1>2

\* The handler goes on to its next point with a measurement of this one, or with none.
LEMMA PointStep ==
    ASSUME IInv, NEW h \in Handlers, pc[h] \notin {"free", "find"}, point[h] <= Points, NEW measured,
           \/ measured = <<>>
           \/ measured = <<[point |-> point[h], batch |-> batch[h],
                            of |-> <<point[h], batch[h]>>]>>,
           NextPoint(h, measured), faults' \in 0..MaxFaults
    PROVE  IInv'
<1> USE CalibrationSweepAssumption
<1>y. TypeOK /\ OwnJob /\ OwnBatch /\ InForce /\ CalibratedInForce /\ OwnMeasurement
    BY DEF IInv
<1> DEFINE m == [point |-> point[h], batch |-> batch[h], of |-> <<point[h], batch[h]>>]
<1>1. m \in Measurements /\ m.batch = batch[h] /\ m.of = <<m.point, m.batch>>
    BY <1>y DEF TypeOK, Measurements
<1>2. measured = <<>> \/ measured = <<m>>
    OBVIOUS
<1> HIDE DEF m
<1>3. ToSet(measured) \subseteq {m}
    BY <1>2 DEF ToSet
<1>4. /\ specs[h] \o measured \in Seq(Measurements)
      /\ Len(specs[h] \o measured) <= Len(specs[h]) + 1
      /\ ToSet(specs[h] \o measured) \subseteq ToSet(specs[h]) \cup {m}
    BY <1>y, <1>1, <1>2, <1>3, Kept DEF TypeOK
<1>5. /\ pc' = [pc EXCEPT ![h] = "create"] /\ point' = [point EXCEPT ![h] = @ + 1]
      /\ specs' = [specs EXCEPT ![h] = specs[h] \o measured]
      /\ left' = [left EXCEPT ![h] = 0]
      /\ job' = [job EXCEPT ![h] = IF job[h].status = "pending" THEN job[h] ELSE NoJob]
      /\ UNCHANGED <<cycle, waiting, points, inForce, label, write, batch>>
    BY DEF NextPoint, controller, cluster
<1>6. /\ specs'[h] = specs[h] \o measured /\ point'[h] = point[h] + 1 /\ pc'[h] = "create"
      /\ \A k \in Handlers \ {h} : /\ specs'[k] = specs[k] /\ point'[k] = point[k]
                                    /\ pc'[k] = pc[k] /\ job'[k] = job[k]
    BY <1>y, <1>5 DEF TypeOK
<1>7. TypeOK'
    <2>1. point' \in [Handlers -> 1..(Points + 1)]
        BY <1>y, <1>5 DEF TypeOK
    <2>2. specs' \in [Handlers -> Seq(Measurements)]
        BY <1>y, <1>4, <1>5 DEF TypeOK
    <2>3. left' \in [Handlers -> 0..Budget] /\ pc' \in [Handlers -> {"free", "find", "create", "poll", "wait"}]
        BY <1>y, <1>5 DEF TypeOK
    <2>4. ASSUME NEW k \in Handlers
          PROVE  Len(specs'[k]) < point'[k] /\ (pc'[k] \in {"free", "find"} => specs'[k] = <<>>)
        <3>1. CASE k = h
            <4>1. Len(specs[h]) < point[h] /\ Len(specs[h]) \in Nat /\ point[h] \in Nat
                  /\ Len(specs[h] \o measured) \in Nat
                BY <1>y, <1>4 DEF TypeOK
            <4>2. QED
                BY <1>4, <1>6, <3>1, <4>1
        <3>2. CASE k # h
            BY <1>y, <1>6, <3>2 DEF TypeOK
        <3>3. QED
            BY <3>1, <3>2
    <2>5. waiting' \in Handlers => pc'[waiting'] # "free"
        BY <1>y, <1>5, <1>6 DEF TypeOK
    <2>6. job' \in [Handlers -> Jobs]
        <3>1. NoJob \in Jobs
            BY DEF NoJob, Jobs, Outcomes
        <3>2. QED
            BY <1>y, <1>5, <3>1 DEF TypeOK
    <2>7. QED
        BY <1>y, <1>5, <2>1, <2>2, <2>3, <2>4, <2>5, <2>6 DEF TypeOK
<1>8. OwnJob'
    BY <1>y, <1>5, <1>6 DEF OwnJob, Working
<1>9. ASSUME NEW k \in Handlers, NEW x \in ToSet(specs'[k])
      PROVE  x.batch = batch'[k] /\ x.of = <<x.point, x.batch>>
    <2>1. CASE x \in ToSet(specs[k])
        BY <1>y, <1>5, <2>1 DEF OwnBatch, OwnMeasurement
    <2>2. CASE k = h /\ x = m
        BY <1>1, <1>5, <2>2
    <2>3. QED
        BY <1>4, <1>6, <1>9, <2>1, <2>2
<1>10. InForce' /\ CalibratedInForce'
    BY <1>y, <1>5, <1>6 DEF InForce, CalibratedInForce, TypeOK
<1>11. QED
    BY <1>7, <1>8, <1>9, <1>10 DEF IInv, OwnBatch, OwnMeasurement

\* The handler is done, with or without points; the Controller may wait for it.
LEMMA ReplyStep ==
    ASSUME IInv, NEW h \in Handlers, Reply(h), faults' \in 0..MaxFaults,
           pc[h] = "find" \/ pc[h] = "create"
    PROVE  IInv'
<1> USE CalibrationSweepAssumption
<1>y. TypeOK /\ OwnJob /\ OwnBatch /\ InForce /\ CalibratedInForce /\ OwnMeasurement
    BY DEF IInv
<1>e. ToSet(<<>>) = {} /\ <<>> \in Seq(Measurements) /\ Len(<<>>) = 0
    BY DEF ToSet
<1>1. /\ pc' = [pc EXCEPT ![h] = "free"] /\ batch' = [batch EXCEPT ![h] = 0]
      /\ point' = [point EXCEPT ![h] = 1] /\ job' = [job EXCEPT ![h] = NoJob]
      /\ left' = [left EXCEPT ![h] = 0] /\ specs' = [specs EXCEPT ![h] = <<>>]
      /\ UNCHANGED <<label, write>>
    BY DEF Reply, Reset, cluster
<1>2. /\ pc'[h] = "free" /\ specs'[h] = <<>> /\ point'[h] = 1
      /\ \A k \in Handlers \ {h} :
             /\ pc'[k] = pc[k] /\ batch'[k] = batch[k] /\ point'[k] = point[k]
             /\ job'[k] = job[k] /\ specs'[k] = specs[k]
    BY <1>y, <1>1 DEF TypeOK
<1>3. /\ pc' \in [Handlers -> {"free", "find", "create", "poll", "wait"}]
      /\ batch' \in [Handlers -> Batches] /\ left' \in [Handlers -> 0..Budget]
      /\ point' \in [Handlers -> 1..(Points + 1)] /\ job' \in [Handlers -> Jobs]
      /\ specs' \in [Handlers -> Seq(Measurements)]
    <2>1. NoJob \in Jobs
        BY DEF NoJob, Jobs, Outcomes
    <2>2. QED
        BY <1>y, <1>e, <1>1, <2>1 DEF TypeOK
<1>4. \A k \in Handlers : /\ Len(specs'[k]) < point'[k]
                          /\ pc'[k] \in {"free", "find"} => specs'[k] = <<>>
    BY <1>y, <1>e, <1>2 DEF TypeOK
<1>5. OwnJob' /\ OwnBatch' /\ OwnMeasurement'
    BY <1>y, <1>e, <1>2 DEF OwnJob, Working, OwnBatch, OwnMeasurement
<1>6. CASE waiting = h /\ Len(specs[h]) < 2
    <2>1. cycle' = "actuate" /\ waiting' = Nobody /\ points' = <<>> /\ inForce' = {}
        BY <1>6 DEF Reply, GoOn
    <2>2. TypeOK'
        BY <1>y, <1>e, <1>1, <1>3, <1>4, <2>1 DEF TypeOK
    <2>3. QED
        BY <1>5, <2>1, <2>2 DEF IInv, InForce, CalibratedInForce
<1>7. CASE waiting = h /\ ~ Len(specs[h]) < 2
    <2>1. /\ cycle' = "calibrate" /\ waiting' = Nobody /\ points' = specs[h]
          /\ cycle = "sweeping" /\ UNCHANGED inForce
        BY <1>7, <1>y DEF Reply, TypeOK
    <2>2. TypeOK'
        BY <1>y, <1>1, <1>3, <1>4, <2>1 DEF TypeOK
    <2>3. pc[h] = "create"
        BY <1>7, <1>e, <1>y DEF TypeOK
    <2>4. batch[h] \in inForce
        BY <1>7, <1>y, <2>1, <2>3 DEF InForce
    <2>5. ASSUME NEW i \in DOMAIN points' PROVE points'[i].batch = batch[h]
        <3>1. specs[h][i] \in ToSet(specs[h])
            BY <2>1, <2>5 DEF ToSet
        <3>2. QED
            BY <1>y, <2>1, <3>1 DEF OwnBatch
    <2>6. CalibratedInForce'
        BY <2>1, <2>4, <2>5 DEF CalibratedInForce
    <2>7. QED
        BY <1>5, <2>1, <2>2, <2>6 DEF IInv, InForce
<1>8. CASE waiting # h
    <2>1. UNCHANGED <<cycle, waiting, points, inForce>>
        BY <1>8 DEF Reply, controller
    <2>2. TypeOK'
        BY <1>y, <1>1, <1>2, <1>3, <1>4, <1>8, <2>1 DEF TypeOK
    <2>3. InForce' /\ CalibratedInForce'
        BY <1>y, <1>1, <1>2, <1>8, <2>1 DEF InForce, CalibratedInForce, TypeOK
    <2>4. QED
        BY <1>5, <2>2, <2>3 DEF IInv
<1>9. QED
    BY <1>6, <1>7, <1>8

\* Every step keeps the invariant.
LEMMA Step == IInv /\ [Next]_vars => IInv'
<1> SUFFICES ASSUME IInv, [Next]_vars PROVE IInv'
    OBVIOUS
<1> USE CalibrationSweepAssumption
<1>y. TypeOK /\ OwnJob /\ OwnBatch /\ InForce /\ CalibratedInForce /\ OwnMeasurement
    BY DEF IInv
<1>f. Calm \/ Disturb => faults' \in 0..MaxFaults
    BY <1>y DEF Calm, Disturb, TypeOK
<1>e. ToSet(<<>>) = {} /\ <<>> \in Seq(Measurements) /\ Len(<<>>) = 0
    BY DEF ToSet
\* steps that leave the Collector alone
<1>h. ASSUME UNCHANGED handler, TypeOK', InForce', CalibratedInForce' PROVE IInv'
    <2>1. UNCHANGED <<pc, batch, point, job, left, specs>>
        BY <1>h DEF handler
    <2>2. OwnJob' /\ OwnBatch' /\ OwnMeasurement'
        BY <1>y, <2>1 DEF OwnJob, Working, OwnBatch, OwnMeasurement
    <2>3. QED
        BY <1>h, <2>2 DEF IInv
\* the Controller goes on without points
<1>g. ASSUME UNCHANGED <<handler, cluster>>, faults' \in 0..MaxFaults, NEW stage \in {"idle", "actuate"},
             GoOn(stage)
      PROVE  IInv'
    <2>1. UNCHANGED <<pc, batch, point, job, left, specs, label, write>>
        BY <1>g DEF handler, cluster
    <2>2. cycle' = stage /\ waiting' = Nobody /\ points' = <<>> /\ inForce' = {}
        BY <1>g DEF GoOn
    <2>3. TypeOK'
        BY <1>y, <1>e, <1>g, <2>1, <2>2 DEF TypeOK
    <2>4. InForce' /\ CalibratedInForce'
        BY <2>2 DEF InForce, CalibratedInForce
    <2>5. QED
        BY <1>g, <1>h, <2>3, <2>4
<1>1. ASSUME NEW h \in Handlers, GETSweep(h), Calm PROVE IInv'
    <2>1. /\ cycle' = "sweeping" /\ waiting' = h /\ pc[h] = "free" /\ inForce' = {label}
          /\ pc' = [pc EXCEPT ![h] = "find"]
          /\ UNCHANGED <<points, label, write, batch, point, job, left, specs>>
        BY <1>1 DEF GETSweep, cluster
    <2>2. /\ pc' \in [Handlers -> {"free", "find", "create", "poll", "wait"}] /\ pc'[h] = "find"
          /\ \A k \in Handlers \ {h} : pc'[k] = pc[k]
        BY <1>y, <2>1 DEF TypeOK
    <2>3. specs[h] = <<>>
        BY <1>y, <2>1 DEF TypeOK
    <2>4. TypeOK'
        BY <1>y, <1>f, <1>1, <2>1, <2>2, <2>3 DEF TypeOK
    <2>5. OwnJob' /\ OwnBatch' /\ OwnMeasurement'
        BY <1>y, <2>1, <2>2 DEF OwnJob, Working, OwnBatch, OwnMeasurement
    <2>6. InForce' /\ CalibratedInForce'
        BY <2>1, <2>2 DEF InForce, CalibratedInForce
    <2>7. QED
        BY <2>4, <2>5, <2>6 DEF IInv
<1>2. ASSUME NoSweep, Calm PROVE IInv'
    <2>1. /\ cycle = "idle" /\ cycle' = "actuate"
          /\ UNCHANGED <<waiting, points, inForce, label, write, handler>>
        BY <1>2 DEF NoSweep, cluster
    <2>2. TypeOK'
        BY <1>y, <1>f, <1>2, <2>1 DEF TypeOK, handler
    <2>3. QED
        BY <1>h, <2>1, <2>2 DEF InForce, CalibratedInForce
<1>3. ASSUME POSTCalibrate \/ CycleEnds, Calm PROVE IInv'
    <2>1. UNCHANGED <<handler, cluster>> /\ (GoOn("actuate") \/ GoOn("idle"))
        BY <1>3 DEF POSTCalibrate, CycleEnds
    <2>2. QED
        BY <1>3, <1>f, <1>g, <2>1
<1>4. ASSUME ClientTimeout \/ RestartController, Disturb PROVE IInv'
    <2>1. UNCHANGED <<handler, cluster>> /\ (GoOn("actuate") \/ GoOn("idle"))
        BY <1>4 DEF ClientTimeout, RestartController
    <2>2. QED
        BY <1>4, <1>f, <1>g, <2>1
<1>5. ASSUME NEW u \in Updates, POSTActuator(u), Calm PROVE IInv'
    <2>1. PICK b \in Batches : write' = [write EXCEPT ![u] = {b}]
        BY <1>5 DEF POSTActuator
    <2>2. /\ cycle' = "updating" /\ waiting' = u /\ UNCHANGED <<points, inForce, label, handler>>
        BY <1>5 DEF POSTActuator
    <2>3. write' \in [Updates -> SUBSET Batches]
        BY <1>y, <2>1 DEF TypeOK
    <2>4. TypeOK'
        BY <1>y, <1>f, <1>5, <2>2, <2>3 DEF TypeOK, handler
    <2>5. QED
        BY <1>h, <2>2, <2>4 DEF InForce, CalibratedInForce
<1>6. ASSUME NEW u \in Updates, PatchLabel(u), Calm PROVE IInv'
    <2>1. PICK b \in write[u] : label' = b
        BY <1>6 DEF PatchLabel
    <2>2. /\ write' = [write EXCEPT ![u] = {}]
          /\ inForce' = IF cycle \in {"sweeping", "calibrate"} THEN inForce \cup {label'} ELSE {}
          /\ UNCHANGED <<cycle, waiting, points, handler>>
        BY <1>6 DEF PatchLabel
    <2>3. label' \in Batches /\ write' \in [Updates -> SUBSET Batches]
        BY <1>y, <2>1, <2>2 DEF TypeOK
    <2>4. inForce' \subseteq Batches
        BY <1>y, <2>2, <2>3 DEF TypeOK
    <2>5. TypeOK'
        BY <1>y, <1>f, <1>6, <2>2, <2>3, <2>4 DEF TypeOK, handler
    <2>6. InForce' /\ CalibratedInForce'
        BY <1>y, <2>2 DEF InForce, CalibratedInForce, handler
    <2>7. QED
        BY <1>h, <2>2, <2>5, <2>6
<1>7. ASSUME NEW u \in Updates, PatchFails(u), Disturb PROVE IInv'
    <2>1. /\ write' = [write EXCEPT ![u] = {}]
          /\ UNCHANGED <<cycle, waiting, points, inForce, label, handler>>
        BY <1>7 DEF PatchFails, controller
    <2>2. write' \in [Updates -> SUBSET Batches]
        BY <1>y, <2>1 DEF TypeOK
    <2>3. TypeOK'
        BY <1>y, <1>f, <1>7, <2>1, <2>2 DEF TypeOK, handler
    <2>4. InForce' /\ CalibratedInForce'
        BY <1>y, <2>1 DEF InForce, CalibratedInForce, handler
    <2>5. QED
        BY <1>h, <2>1, <2>3, <2>4
<1>8. ASSUME NEW h \in Handlers, Find(h), Calm PROVE IInv'
    <2>1. /\ pc[h] = "find" /\ pc' = [pc EXCEPT ![h] = "create"] /\ batch' = [batch EXCEPT ![h] = label]
          /\ UNCHANGED <<cycle, waiting, points, inForce, label, write, point, job, left, specs>>
        BY <1>8 DEF Find, controller, cluster
    <2>2. /\ pc' \in [Handlers -> {"free", "find", "create", "poll", "wait"}] /\ pc'[h] = "create"
          /\ batch' \in [Handlers -> Batches] /\ batch'[h] = label
          /\ \A k \in Handlers \ {h} : pc'[k] = pc[k] /\ batch'[k] = batch[k]
        BY <1>y, <2>1 DEF TypeOK
    <2>3. specs[h] = <<>>
        BY <1>y, <2>1 DEF TypeOK
    <2>4. TypeOK'
        BY <1>y, <1>f, <1>8, <2>1, <2>2, <2>3 DEF TypeOK
    <2>5. OwnJob' /\ OwnMeasurement'
        BY <1>y, <2>1, <2>2 DEF OwnJob, Working, OwnMeasurement
    <2>6. OwnBatch'
        BY <1>y, <1>e, <2>1, <2>2, <2>3 DEF OwnBatch
    <2>7. InForce' /\ CalibratedInForce'
        BY <1>y, <2>1, <2>2 DEF InForce, CalibratedInForce, TypeOK
    <2>8. QED
        BY <2>4, <2>5, <2>6, <2>7 DEF IInv
<1>9. ASSUME NEW h \in Handlers, Answer(h) \/ FindNothing(h), Calm PROVE IInv'
    BY <1>9, <1>f, ReplyStep DEF Answer, FindNothing
<1>10. ASSUME NEW h \in Handlers, CreateFails(h), Disturb PROVE IInv'
    BY <1>10, <1>f, PointStep DEF CreateFails
<1>11. ASSUME NEW h \in Handlers, Deadline(h), Calm PROVE IInv'
    <2>1. point[h] <= Points
        BY <1>11, <1>y DEF Deadline, OwnJob, Working
    <2>2. QED
        BY <1>11, <1>f, <2>1, PointStep DEF Deadline
<1>12. ASSUME NEW h \in Handlers, Poll(h) \/ PollFails(h) \/ Tick(h), Calm PROVE IInv'
    <2>1. Working(h)
        BY <1>12 DEF Poll, PollFails, Tick, Working
    <2>2. point[h] <= Points /\ job[h].point = point[h] /\ job[h].batch = batch[h]
        BY <1>y, <2>1 DEF OwnJob
    <2>3. CASE NextPoint(h, Measured(h))
        <3>1. \/ Measured(h) = <<>>
              \/ Measured(h) = <<[point |-> point[h], batch |-> batch[h],
                                  of |-> <<point[h], batch[h]>>]>>
            BY <2>2 DEF Measured
        <3>2. pc[h] \notin {"free", "find"}
            BY <2>1 DEF Working
        <3>3. QED
            BY <1>12, <1>f, <2>2, <2>3, <3>1, <3>2, PointStep
    <2>4. CASE /\ pc' = [pc EXCEPT ![h] = "wait"] \/ pc' = [pc EXCEPT ![h] = "poll"]
               /\ left' = left \/ (left[h] > 0 /\ left' = [left EXCEPT ![h] = @ - 1])
               /\ UNCHANGED <<controller, cluster, batch, point, job, specs>>
        <3>1. /\ pc' \in [Handlers -> {"free", "find", "create", "poll", "wait"}]
              /\ pc'[h] \in {"poll", "wait"} /\ \A k \in Handlers \ {h} : pc'[k] = pc[k]
            BY <1>y, <2>4 DEF TypeOK
        <3>2. left' \in [Handlers -> 0..Budget]
            <4>1. left \in [Handlers -> 0..Budget] /\ Budget \in Nat
                BY <1>y DEF TypeOK
            <4>2. left[h] > 0 => left[h] - 1 \in 0..Budget
                BY <4>1
            <4>3. QED
                BY <2>4, <4>1, <4>2
        <3>3. UNCHANGED <<cycle, waiting, points, inForce, label, write, batch, point, job, specs>>
            BY <2>4 DEF controller, cluster
        <3>4. TypeOK'
            BY <1>y, <1>f, <1>12, <3>1, <3>2, <3>3 DEF TypeOK
        <3>5. OwnJob'
            BY <1>y, <2>2, <3>1, <3>3 DEF OwnJob, Working
        <3>6. InForce'
            <4>1. \A k \in Handlers : pc'[k] # "find" => pc[k] # "find"
                BY <2>1, <3>1 DEF Working
            <4>2. QED
                BY <1>y, <3>3, <4>1 DEF InForce, TypeOK
        <3>7. QED
            BY <1>y, <3>3, <3>4, <3>5, <3>6
               DEF IInv, OwnBatch, OwnMeasurement, CalibratedInForce
    <2>5. QED
        BY <1>12, <2>3, <2>4 DEF Poll, PollFails, Tick
<1>13. ASSUME NEW h \in Handlers, CreateJob(h), Calm PROVE IInv'
    <2>1. /\ point[h] <= Points /\ pc[h] = "create"
          /\ job' = [job EXCEPT ![h] = NewJob(h)]
          /\ pc' = [pc EXCEPT ![h] = "poll"] /\ left' = [left EXCEPT ![h] = Budget]
          /\ UNCHANGED <<cycle, waiting, points, inForce, label, write, batch, point, specs>>
        BY <1>13 DEF CreateJob, controller, cluster
    <2>2. /\ NewJob(h) \in Jobs /\ NewJob(h).point = point[h] /\ NewJob(h).batch = batch[h]
        BY <1>y, <2>1 DEF NewJob, Jobs, TypeOK
    <2>3. /\ job' \in [Handlers -> Jobs] /\ left' \in [Handlers -> 0..Budget]
          /\ pc' \in [Handlers -> {"free", "find", "create", "poll", "wait"}]
          /\ job'[h] = NewJob(h) /\ pc'[h] = "poll"
          /\ \A k \in Handlers \ {h} : job'[k] = job[k] /\ pc'[k] = pc[k]
        BY <1>y, <2>1, <2>2 DEF TypeOK
    <2>4. TypeOK'
        BY <1>y, <1>f, <1>13, <2>1, <2>3 DEF TypeOK
    <2>5. OwnJob'
        BY <1>y, <2>1, <2>2, <2>3 DEF OwnJob, Working
    <2>6. QED
        BY <1>y, <2>1, <2>4, <2>5 DEF IInv, OwnBatch, OwnMeasurement, InForce, CalibratedInForce
<1>14. ASSUME NEW h \in Handlers, Finish(h), Calm PROVE IInv'
    <2>1. PICK outcome \in Outcomes : job' = [job EXCEPT ![h].status = outcome]
        BY <1>14 DEF Finish
    <2>2. /\ job' \in [Handlers -> Jobs]
          /\ \A k \in Handlers : job'[k].point = job[k].point /\ job'[k].batch = job[k].batch
        <3>1. job \in [Handlers -> Jobs] /\ job[h] \in Jobs
            BY <1>y DEF TypeOK
        <3> DEFINE next == [job[h] EXCEPT !.status = outcome]
        <3>2. next \in Jobs /\ next.point = job[h].point /\ next.batch = job[h].batch
            BY <3>1 DEF Jobs
        <3>3. job' = [job EXCEPT ![h] = next]
            BY <2>1
        <3> HIDE DEF next
        <3>4. QED
            BY <3>1, <3>2, <3>3
    <2>3. UNCHANGED <<cycle, waiting, points, inForce, label, write, pc, batch, point, left, specs>>
        BY <1>14 DEF Finish, controller, cluster
    <2>4. TypeOK'
        BY <1>y, <1>f, <1>14, <2>2, <2>3 DEF TypeOK
    <2>5. OwnJob'
        BY <1>y, <2>2, <2>3 DEF OwnJob, Working
    <2>6. QED
        BY <1>y, <2>3, <2>4, <2>5 DEF IInv, OwnBatch, OwnMeasurement, InForce, CalibratedInForce
<1>15. ASSUME RestartCollector, Disturb PROVE IInv'
    <2>1. /\ pc' = [h \in Handlers |-> "free"] /\ batch' = [h \in Handlers |-> 0]
          /\ point' = [h \in Handlers |-> 1] /\ job' = [h \in Handlers |-> NoJob]
          /\ left' = [h \in Handlers |-> 0] /\ specs' = [h \in Handlers |-> <<>>]
          /\ UNCHANGED <<label, write>>
        BY <1>15 DEF RestartCollector, cluster
    <2>2. NoJob \in Jobs
        BY DEF NoJob, Jobs, Outcomes
    <2>3. \/ /\ cycle # "sweeping" /\ UNCHANGED <<cycle, waiting, points, inForce>>
          \/ cycle' = "actuate" /\ waiting' = Nobody /\ points' = <<>> /\ inForce' = {}
        BY <1>15 DEF RestartCollector, GoOn, controller
    <2>4. TypeOK'
        <3>1. /\ pc' \in [Handlers -> {"free", "find", "create", "poll", "wait"}]
              /\ batch' \in [Handlers -> Batches] /\ left' \in [Handlers -> 0..Budget]
              /\ point' \in [Handlers -> 1..(Points + 1)] /\ job' \in [Handlers -> Jobs]
              /\ specs' \in [Handlers -> Seq(Measurements)]
              /\ \A h \in Handlers : specs'[h] = <<>> /\ Len(specs'[h]) < point'[h]
            BY <1>e, <2>1, <2>2
        <3>2. /\ waiting' \in Updates \cup {Nobody} /\ (waiting' \in Updates <=> cycle' = "updating")
              /\ cycle' \in {"idle", "calibrate", "actuate", "updating"}
            BY <1>y, <2>3 DEF TypeOK
        <3>3. points' \in Seq(Measurements) /\ inForce' \subseteq Batches
            BY <1>y, <1>e, <2>3 DEF TypeOK
        <3>4. QED
            BY <1>y, <1>f, <1>15, <2>1, <3>1, <3>2, <3>3 DEF TypeOK
    <2>5. OwnJob' /\ OwnBatch' /\ OwnMeasurement'
        BY <1>e, <2>1 DEF OwnJob, Working, OwnBatch, OwnMeasurement
    <2>6. InForce' /\ CalibratedInForce'
        BY <1>y, <2>1, <2>3 DEF InForce, CalibratedInForce
    <2>7. QED
        BY <2>4, <2>5, <2>6 DEF IInv
<1>16. ASSUME UNCHANGED vars PROVE IInv'
    <2>1. UNCHANGED <<cycle, waiting, points, inForce, label, write, faults, pc, batch, point, job,
                      left, specs>>
        BY <1>16 DEF vars, controller, cluster, handler
    <2>2. TypeOK'
        BY <1>y, <2>1 DEF TypeOK
    <2>3. OwnJob' /\ OwnBatch' /\ OwnMeasurement'
        BY <1>y, <2>1 DEF OwnJob, Working, OwnBatch, OwnMeasurement
    <2>4. InForce' /\ CalibratedInForce'
        BY <1>y, <2>1 DEF InForce, CalibratedInForce
    <2>5. QED
        BY <2>2, <2>3, <2>4 DEF IInv
<1>17. QED
    BY <1>1, <1>2, <1>3, <1>4, <1>5, <1>6, <1>7, <1>8, <1>9, <1>10, <1>11, <1>12, <1>13, <1>14, <1>15,
       <1>16 DEF Next, Control, Sweep, Fault

\* The invariant holds at the start.
LEMMA Start == Init => IInv
<1> SUFFICES ASSUME Init PROVE IInv
    OBVIOUS
<1> USE CalibrationSweepAssumption
<1>1. ToSet(<<>>) = {} /\ <<>> \in Seq(Measurements) /\ Len(<<>>) = 0
    BY DEF ToSet
<1>2. NoJob \in Jobs
    BY DEF NoJob, Jobs, Outcomes
<1>3. TypeOK
    BY <1>1, <1>2 DEF Init, TypeOK
<1>4. QED
    BY <1>1, <1>3 DEF Init, IInv, OwnJob, Working, OwnBatch, OwnMeasurement, InForce, CalibratedInForce

\* Sweeps, jobs and points stay well typed.
THEOREM TypeCorrect == Spec => []TypeOK
<1>1. IInv => TypeOK
    BY DEF IInv
<1>2. QED
    BY <1>1, Start, Step, PTL DEF Spec

\* The tuner is calibrated with points measured at one concurrency, one that was in force
\* since the Controller asked for them, whatever sweeps and updates are still at work.
THEOREM CalibratesInForce == Spec => []CalibratedInForce
<1>1. IInv => CalibratedInForce
    BY DEF IInv
<1>2. QED
    BY <1>1, Start, Step, PTL DEF Spec

\* A measurement belongs to the point it is reported for.
THEOREM MeasuresItsPoint == Spec => []OwnMeasurement
<1>1. IInv => OwnMeasurement
    BY DEF IInv
<1>2. QED
    BY <1>1, Start, Step, PTL DEF Spec
=============================================================================
