--------------------------- MODULE StandaloneProofs ---------------------------
(***************************************************************************)
(* What the programs that stand alone are proved to do.                    *)
(*                                                                         *)
(* A behaviour runs one program, so the inductive invariant has a part per *)
(* program that says something only while that program runs: CurveInv and  *)
(* DriverInv of the sweeps, one for each of the report scripts, ClockInv.  *)
(***************************************************************************)
EXTENDS Standalone, FiniteSetTheorems, SequenceTheorems, WellFoundedInduction, TLAPS

-----------------------------------------------------------------------------
(***************************************************************************)
(* incluster_sweep.py.                                                     *)
(***************************************************************************)

CurveType ==
    /\ pc \in {"next", "ramp", "window", "drain", "done", "crashed"}
    /\ level \in 0..Len(CurveLevels)
    /\ m0 \in Nat /\ runs \in Nat /\ success \in Nat /\ finished \in Nat
    /\ restarted \in BOOLEAN
    /\ rows \in Seq([level : Nat, succ : Int, run : Nat])
    /\ worker \in [Curve!Workers -> {"none", "test", "send", "wait", "pause", "gone"}]
    /\ late \in [Curve!Workers -> Nat]

\* the window's count, and who may have sent the one late request
Counted == pc = "window" /\ ~restarted => success = m0 + finished

LateOnce ==
    /\ stopped \subseteq 0..level
    /\ \A w \in Curve!Workers : late[w] # 0 =>
          /\ late[w] = 1 /\ w[1] \in stopped
          /\ worker[w] \in {"test", "wait", "pause", "gone"}

CurveInv == CurveType /\ Counted /\ LateOnce

\* The workers of all levels are finitely many.
LEMMA WorkersFinite == IsFiniteSet(Curve!Workers)
<1> DEFINE L == DOMAIN CurveLevels
           W == {1..CurveLevels[l] : l \in L}
<1>1. L = 1..Len(CurveLevels) /\ Len(CurveLevels) \in Nat /\ \A l \in L : CurveLevels[l] \in Nat
  BY SweepAssumption
<1>2. IsFiniteSet(L)
  BY <1>1, FS_Interval
<1>3. IsFiniteSet(W)
  <2> DEFINE f == [l \in L |-> 1..CurveLevels[l]]
  <2>1. f \in Surjection(L, W)
    BY DEF Surjection
  <2>2. QED
    BY <1>2, <2>1, FS_Surjection
<1>4. \A S \in W : IsFiniteSet(S)
  BY <1>1, FS_Interval
<1>5. IsFiniteSet(UNION W)
  BY <1>3, <1>4, FS_UNION
<1>6. IsFiniteSet(L \X UNION W)
  BY <1>2, <1>5, FS_Product
<1>7. Curve!Workers \subseteq L \X UNION W
  BY DEF Curve!Workers
<1>8. QED
  BY <1>6, <1>7, FS_Subset

\* The module's own name for the number of elements.
LEMMA SampledNumber == ASSUME NEW S, IsFiniteSet(S) PROVE Curve!Cardinality(S) \in Nat
<1>1. Curve!Cardinality(S) = Cardinality(S)
  BY DEF Curve!Cardinality, Cardinality, Curve!IsFiniteSet, IsFiniteSet
<1>2. QED
  BY <1>1, FS_CardinalityType

LEMMA CurveStart == Curve!Init => CurveInv
<1>1. Len(CurveLevels) \in Nat
  BY SweepAssumption
<1>2. SUFFICES ASSUME Curve!Init PROVE CurveInv
  OBVIOUS
<1>3. CurveType
  <2>1. rows \in Seq([level : Nat, succ : Int, run : Nat])
    BY <1>2, EmptySeq DEF Curve!Init
  <2>2. /\ worker \in [Curve!Workers -> {"none", "test", "send", "wait", "pause", "gone"}]
        /\ late \in [Curve!Workers -> Nat]
    BY <1>2 DEF Curve!Init
  <2>3. level \in 0..Len(CurveLevels)
    BY <1>1, <1>2 DEF Curve!Init
  <2>4. QED
    BY <1>2, <2>1, <2>2, <2>3 DEF Curve!Init, CurveType
<1>4. Counted /\ LateOnce
  BY <1>2 DEF Curve!Init, Counted, LateOnce
<1>5. QED
  BY <1>3, <1>4 DEF CurveInv

\* The sweep and its workers keep the types.
LEMMA CurveTypeStep == ASSUME CurveInv, Curve!Next PROVE CurveType'
<1> USE DEF CurveInv, CurveType
<1>0. Len(CurveLevels) \in Nat
  BY SweepAssumption
<1>1. CASE Curve!StartLevel
  BY <1>0, <1>1 DEF Curve!StartLevel
<1>2. CASE Curve!OpenWindow
  BY <1>2 DEF Curve!OpenWindow
<1>3. CASE Curve!CloseWindow
  <2>1. Curve!Row \in [level : Nat, succ : Int, run : Nat]
    BY <1>0 DEF Curve!Row
  <2>2. rows' \in Seq([level : Nat, succ : Int, run : Nat])
    BY <1>3, <2>1, AppendProperties DEF Curve!CloseWindow
  <2>3. QED
    BY <1>3, <2>2 DEF Curve!CloseWindow
<1>4. CASE Curve!Drained
  BY <1>4 DEF Curve!Drained
<1>5. CASE Curve!SweepDone \/ Curve!MetricsFail
  BY <1>5 DEF Curve!SweepDone, Curve!MetricsFail, Curve!Exit
<1>6. CASE Curve!Sample
  <2>1. IsFiniteSet(Curve!Running)
    BY WorkersFinite, FS_Subset DEF Curve!Running
  <2>2. Curve!Cardinality(Curve!Running) \in Nat
    BY <2>1, SampledNumber
  <2>3. runs' \in Nat
    BY <1>6, <2>2 DEF Curve!Sample
  <2>4. QED
    BY <1>6, <2>3 DEF Curve!Sample
<1>7. ASSUME NEW w \in Curve!Workers, Curve!Work(w) PROVE CurveType'
  <2>1. CASE Curve!Test(w)
    BY <2>1 DEF Curve!Test, Curve!Step, Curve!mainVars
  <2>2. CASE Curve!Send(w)
    BY <2>2 DEF Curve!Send, Curve!Step, Curve!mainVars
  <2>3. CASE Curve!Answered(w)
    BY <2>3 DEF Curve!Answered, Curve!Step, Curve!mainVars
  <2>4. CASE Curve!Failed(w)
    BY <2>4 DEF Curve!Failed, Curve!Step, Curve!mainVars
  <2>5. CASE Curve!Resume(w)
    BY <2>5 DEF Curve!Resume, Curve!Step, Curve!mainVars
  <2>6. QED
    BY <1>7, <2>1, <2>2, <2>3, <2>4, <2>5 DEF Curve!Work
<1>8. CASE Curve!ServerRestart
  BY <1>8 DEF Curve!ServerRestart, Curve!mainVars
<1>9. QED
  BY <1>1, <1>2, <1>3, <1>4, <1>5, <1>6, <1>7, <1>8 DEF Curve!Next, Curve!Main

\* Every request that is answered in the window is counted by the server and by the window.
LEMMA CountedStep == ASSUME CurveInv, Curve!Next PROVE Counted'
<1> USE DEF CurveInv, CurveType, Counted
<1>1. CASE Curve!Main \/ Curve!MetricsFail
  BY <1>1 DEF Curve!Main, Curve!StartLevel, Curve!OpenWindow, Curve!CloseWindow, Curve!Drained,
              Curve!SweepDone, Curve!MetricsFail, Curve!Exit
<1>2. CASE Curve!Sample \/ Curve!ServerRestart
  BY <1>2 DEF Curve!Sample, Curve!ServerRestart, Curve!mainVars
<1>3. ASSUME NEW w \in Curve!Workers, Curve!Work(w) PROVE Counted'
  <2>1. CASE Curve!Answered(w)
    BY <2>1 DEF Curve!Answered, Curve!mainVars
  <2>2. CASE Curve!Test(w) \/ Curve!Send(w) \/ Curve!Failed(w) \/ Curve!Resume(w)
    BY <2>2 DEF Curve!Test, Curve!Send, Curve!Failed, Curve!Resume, Curve!mainVars
  <2>3. QED
    BY <1>3, <2>1, <2>2 DEF Curve!Work
<1>4. QED
  BY <1>1, <1>2, <1>3 DEF Curve!Next

\* A worker that has sent its late request does not reach another: the test of the stop event
\* is between them.
LEMMA LateStep == ASSUME CurveInv, Curve!Next PROVE LateOnce'
<1> USE DEF CurveInv, CurveType, LateOnce
<1>0. Len(CurveLevels) \in Nat
  BY SweepAssumption
<1>1. CASE Curve!StartLevel
  BY <1>0, <1>1 DEF Curve!StartLevel
<1>2. CASE Curve!OpenWindow \/ Curve!Sample \/ Curve!Drained
  <2>1. UNCHANGED <<stopped, level, late, worker>>
    BY <1>2 DEF Curve!OpenWindow, Curve!Sample, Curve!Drained
  <2>2. QED
    BY <2>1
<1>3. CASE Curve!CloseWindow
  BY <1>0, <1>3 DEF Curve!CloseWindow
<1>4. CASE Curve!SweepDone \/ Curve!MetricsFail
  BY <1>4 DEF Curve!SweepDone, Curve!MetricsFail, Curve!Exit
<1>5. ASSUME NEW w \in Curve!Workers, Curve!Work(w) PROVE LateOnce'
  <2>1. CASE Curve!Test(w)
    BY <2>1 DEF Curve!Test, Curve!Step, Curve!mainVars
  <2>2. CASE Curve!Send(w)
    BY <2>2 DEF Curve!Send, Curve!Step, Curve!mainVars
  <2>3. CASE Curve!Answered(w)
    BY <2>3 DEF Curve!Answered, Curve!Step, Curve!mainVars
  <2>4. CASE Curve!Failed(w)
    BY <2>4 DEF Curve!Failed, Curve!Step, Curve!mainVars
  <2>5. CASE Curve!Resume(w)
    BY <2>5 DEF Curve!Resume, Curve!Step, Curve!mainVars
  <2>6. QED
    BY <1>5, <2>1, <2>2, <2>3, <2>4, <2>5 DEF Curve!Work
<1>6. CASE Curve!ServerRestart
  BY <1>6 DEF Curve!ServerRestart, Curve!mainVars
<1>7. QED
  BY <1>1, <1>2, <1>3, <1>4, <1>5, <1>6 DEF Curve!Next, Curve!Main

LEMMA CurveStep == ASSUME CurveInv, Curve!Next PROVE CurveInv'
BY CurveTypeStep, CountedStep, LateStep DEF CurveInv

LEMMA CurveRow == ASSUME CurveInv, Curve!Next PROVE Curve!RowCountsWindow
<1> SUFFICES ASSUME pc = "window", pc' = "drain", ~restarted
             PROVE rows'[Len(rows')].succ = finished
  BY DEF Curve!RowCountsWindow
<1>1. Curve!CloseWindow
  <2>1. ~ (Curve!StartLevel \/ Curve!OpenWindow \/ Curve!Drained \/ Curve!SweepDone
           \/ Curve!Sample \/ Curve!MetricsFail \/ Curve!ServerRestart)
    BY DEF Curve!StartLevel, Curve!OpenWindow, Curve!Drained, Curve!SweepDone, Curve!Sample,
           Curve!MetricsFail, Curve!ServerRestart, Curve!Exit, Curve!mainVars
  <2>2. \A w \in Curve!Workers : ~Curve!Work(w)
    BY DEF Curve!Work, Curve!Test, Curve!Send, Curve!Answered, Curve!Failed, Curve!Resume,
           Curve!mainVars
  <2>3. QED
    BY <2>1, <2>2 DEF Curve!Next, Curve!Main
<1>2. rows'[Len(rows')] = Curve!Row
  BY <1>1, AppendProperties DEF Curve!CloseWindow, CurveInv, CurveType
<1>3. QED
  BY <1>2 DEF Curve!Row, CurveInv, CurveType, Counted

-----------------------------------------------------------------------------
(***************************************************************************)
(* sweep_curve.py.                                                         *)
(***************************************************************************)

DriverType ==
    /\ pc \in {"next", "ramp", "window", "drain", "done", "crashed"}
    /\ level \in 0..Len(DriverLevels)
    /\ driver \in [DOMAIN DriverLevels -> {"none", "running", "signalled", "gone"}]
    /\ m0 \in Nat /\ success \in Nat /\ finished \in Nat
    /\ restarted \in BOOLEAN
    /\ rows \in Seq(Int)

DriverInv == DriverType /\ Counted /\ Driver!NoDriverLeft

LEMMA DriverStart == Driver!Init => DriverInv
<1>1. Len(DriverLevels) \in Nat
  BY SweepAssumption
<1>2. SUFFICES ASSUME Driver!Init PROVE DriverInv
  OBVIOUS
<1>3. rows \in Seq(Int)
  BY <1>2, EmptySeq DEF Driver!Init
<1>4. driver \in [DOMAIN DriverLevels -> {"none", "running", "signalled", "gone"}]
  BY <1>2 DEF Driver!Init
<1>5. level \in 0..Len(DriverLevels)
  BY <1>1, <1>2 DEF Driver!Init
<1>6. DriverType
  BY <1>2, <1>3, <1>4, <1>5 DEF Driver!Init, DriverType
<1>7. Counted /\ Driver!NoDriverLeft
  BY <1>2 DEF Driver!Init, Counted, Driver!NoDriverLeft
<1>8. QED
  BY <1>6, <1>7 DEF DriverInv

LEMMA DriverStep == ASSUME DriverInv, Driver!Next PROVE DriverInv'
<1> USE DEF DriverInv, DriverType, Counted, Driver!NoDriverLeft
<1>0. Len(DriverLevels) \in Nat /\ DOMAIN DriverLevels = 1..Len(DriverLevels)
  BY SweepAssumption
<1>1. CASE Driver!StartLevel
  <2>1. level' \in 0..Len(DriverLevels)
    BY <1>0, <1>1 DEF Driver!StartLevel
  <2>2. driver' \in [DOMAIN DriverLevels -> {"none", "running", "signalled", "gone"}]
    BY <1>1 DEF Driver!StartLevel
  <2>3. pc' = "ramp" /\ UNCHANGED <<m0, rows, success, finished, restarted>>
    BY <1>1 DEF Driver!StartLevel
  <2>4. QED
    BY <2>1, <2>2, <2>3
<1>2. CASE Driver!OpenWindow
  <2>1. pc' = "window" /\ m0' = success /\ finished' = 0 /\ restarted' = FALSE
    BY <1>2 DEF Driver!OpenWindow
  <2>2. UNCHANGED <<level, driver, rows, success>>
    BY <1>2 DEF Driver!OpenWindow
  <2>3. DriverType'
    BY <2>1, <2>2
  <2>4. Counted' /\ Driver!NoDriverLeft'
    BY <2>1, <2>2
  <2>5. QED
    BY <2>3, <2>4
<1>3. CASE Driver!CloseWindow
  <2>1. rows' \in Seq(Int)
    BY <1>3, AppendProperties DEF Driver!CloseWindow
  <2>2. QED
    BY <1>3, <2>1 DEF Driver!CloseWindow, Driver!SignalDrivers
<1>4. CASE Driver!Drained \/ Driver!SweepDone
  BY <1>4 DEF Driver!Drained, Driver!SweepDone
<1>5. CASE Driver!MetricsFail
  BY <1>5 DEF Driver!MetricsFail, Driver!Fault, Driver!SignalDrivers
<1>6. CASE Driver!Answered
  BY <1>6 DEF Driver!Answered
<1>7. ASSUME NEW l \in DOMAIN DriverLevels, Driver!DriverEnds(l) \/ Driver!DriverFails(l)
      PROVE DriverInv'
  BY <1>7 DEF Driver!DriverEnds, Driver!DriverFails, Driver!Fault
<1>8. CASE Driver!ServerRestart
  BY <1>8 DEF Driver!ServerRestart, Driver!Fault
<1>9. QED
  BY <1>1, <1>2, <1>3, <1>4, <1>5, <1>6, <1>7, <1>8 DEF Driver!Next, Driver!Main

LEMMA DriverRow == ASSUME DriverInv, Driver!Next PROVE Driver!RowCountsWindow
<1> SUFFICES ASSUME pc = "window", pc' = "drain", ~restarted
             PROVE rows'[Len(rows')] = finished
  BY DEF Driver!RowCountsWindow
<1>1. Driver!CloseWindow
  BY DEF Driver!Next, Driver!Main, Driver!StartLevel, Driver!OpenWindow, Driver!Drained,
         Driver!SweepDone, Driver!MetricsFail, Driver!Answered, Driver!DriverEnds,
         Driver!DriverFails, Driver!ServerRestart, Driver!Fault
<1>2. rows' = Append(rows, success - m0) /\ rows \in Seq(Int) /\ success - m0 \in Int
  BY <1>1 DEF Driver!CloseWindow, DriverInv, DriverType
<1>3. rows'[Len(rows')] = success - m0
  BY <1>2, AppendProperties
<1>4. QED
  BY <1>3 DEF DriverInv, DriverType, Counted

-----------------------------------------------------------------------------
(***************************************************************************)
(* gen_report_figs_run12.py.                                               *)
(***************************************************************************)

Whole12 == \A i \in DOMAIN archive : archive[i] # Torn

\* while the archive is read the records are its lines so far, then they are all of them
Reading12 ==
    /\ archive \in Archives12
    /\ pc \in {"load", "plot", "done", "crashed"}
    /\ pos \in Nat /\ records \in Seq(Record12)
    /\ pc = "load" => /\ Len(records) = pos /\ pos <= Len(archive)
                      /\ \A i \in 1..pos : archive[i] = records[i] /\ archive[i] # Torn
    /\ pc \in {"plot", "done"} => records = archive /\ Whole12

\* a figure that was drawn is of the whole archive, and the ones before next were drawn
Drawing12 ==
    /\ next \in 1..9
    /\ figs = [f \in 1..8 |-> figs[f]]
    /\ pc = "load" => next = 1
    /\ \A f \in 1..8 : figs[f] # None => Whole12 /\ figs[f] = Run12!Figure(f, archive)
    /\ pc \in {"plot", "done"} => \A f \in 1..8 : f < next => figs[f] # None
    /\ pc = "done" => next = 9

Run12Inv == Reading12 /\ Drawing12

LEMMA EightFigures == Len(Run12!FigureNames) = 8
BY DEF Run12!FigureNames

LEMMA Run12Start == Run12!Init => Run12Inv
<1>1. SUFFICES ASSUME Run12!Init PROVE Run12Inv
  OBVIOUS
<1>2. archive \in Seq({Torn} \cup Record12) /\ records \in Seq(Record12)
  BY <1>1, EmptySeq, Run12Assumption DEF Run12!Init
<1>3. Reading12
  BY <1>1, <1>2 DEF Run12!Init, Reading12
<1>4. figs = [f \in 1..8 |-> None] /\ next = 1 /\ pc = "load"
  BY <1>1, EightFigures DEF Run12!Init
<1>5. Drawing12
  BY <1>4 DEF Drawing12
<1>6. QED
  BY <1>3, <1>5 DEF Run12Inv

LEMMA Reading12Step == ASSUME Run12Inv, Run12!Next PROVE Reading12'
<1> USE DEF Run12Inv, Reading12, Whole12
<1>0. archive \in Seq({Torn} \cup Record12) /\ Len(archive) \in Nat
      /\ DOMAIN archive = 1..Len(archive)
      /\ \A i \in 1..Len(archive) : archive[i] \in {Torn} \cup Record12
  BY Run12Assumption
<1>1. CASE Run12!LoadLine
  <2>1. CASE archive[pos + 1] = Torn
    BY <1>1, <2>1 DEF Run12!LoadLine
  <2>2. CASE archive[pos + 1] # Torn
    <3>1. pos + 1 \in 1..Len(archive) /\ pc' = "load" /\ pos' = pos + 1 /\ archive' = archive
          /\ records' = Append(records, archive[pos + 1])
      BY <1>0, <1>1, <2>2 DEF Run12!LoadLine
    <3>2. archive[pos + 1] \in Record12
      BY <1>0, <2>2, <3>1
    <3>3. /\ records' \in Seq(Record12) /\ Len(records') = pos + 1
          /\ \A i \in 1..pos : records'[i] = records[i]
          /\ records'[pos + 1] = archive[pos + 1]
      BY <1>1, <3>1, <3>2, AppendProperties DEF Run12!LoadLine
    <3>4. \A i \in 1..(pos + 1) : archive[i] = records'[i] /\ archive[i] # Torn
      BY <1>1, <2>2, <3>3 DEF Run12!LoadLine
    <3>5. QED
      BY <3>1, <3>3, <3>4
  <2>3. QED
    BY <2>1, <2>2
<1>2. CASE Run12!Loaded
  <2>1. pos = Len(archive) /\ Len(records) = pos
        /\ \A i \in 1..pos : archive[i] = records[i] /\ archive[i] # Torn
    BY <1>2 DEF Run12!Loaded
  <2>2. records = [i \in 1..Len(records) |-> records[i]]
    BY LenProperties
  <2>3. archive = [i \in 1..Len(archive) |-> archive[i]]
    BY <1>0, LenProperties
  <2>4. records = archive
    BY <2>1, <2>2, <2>3
  <2>5. QED
    BY <1>0, <1>2, <2>1, <2>4 DEF Run12!Loaded
<1>3. CASE Run12!DrawFigure \/ Run12!Interrupted \/ Run12!AllGenerated
  BY <1>3 DEF Run12!DrawFigure, Run12!Interrupted, Run12!AllGenerated
<1>4. QED
  BY <1>1, <1>2, <1>3 DEF Run12!Next

\* No step changes the archive, so what was drawn of it remains drawn of it.
LEMMA DrawnRemains ==
    ASSUME archive' = archive, NEW F \in SUBSET (1..8), \A f \in F : figs'[f] = figs[f],
           \A f \in F : figs[f] # None => Whole12 /\ figs[f] = Run12!Figure(f, archive)
    PROVE  \A f \in F : figs'[f] # None => Whole12' /\ figs'[f] = Run12!Figure(f, archive)'
<1>1. SUFFICES ASSUME NEW f \in F, figs'[f] # None
               PROVE  Whole12' /\ figs'[f] = Run12!Figure(f, archive)'
  OBVIOUS
<1>2. Run12!Figure(f, archive)' = Run12!Figure(f, archive)
  OBVIOUS
<1>3. Whole12' <=> Whole12
  BY DEF Whole12
<1>4. QED
  BY <1>1, <1>2, <1>3

LEMMA Drawing12Step == ASSUME Run12Inv, Run12!Next PROVE Drawing12'
<1> USE DEF Run12Inv, Reading12, Drawing12
<1>0. archive' = archive
  BY DEF Run12!Next, Run12!LoadLine, Run12!Loaded, Run12!DrawFigure, Run12!Interrupted,
         Run12!AllGenerated
<1>1. ASSUME UNCHANGED <<next, figs>>
      PROVE  \A f \in 1..8 : figs'[f] # None => Whole12' /\ figs'[f] = Run12!Figure(f, archive)'
  BY <1>0, <1>1, DrawnRemains
<1>2. CASE Run12!LoadLine \/ Run12!Loaded \/ Run12!Interrupted
  <2>1. UNCHANGED <<next, figs>>
    BY <1>2 DEF Run12!LoadLine, Run12!Loaded, Run12!Interrupted
  <2>2. /\ pc' = "load" => pc = "load"
        /\ pc' = "plot" => pc = "load" /\ pos = Len(archive)
        /\ pc' # "done"
    BY <1>2 DEF Run12!LoadLine, Run12!Loaded, Run12!Interrupted
  <2>3. pc = "load" => next = 1
    OBVIOUS
  <2>4. QED
    BY <1>1, <2>1, <2>2, <2>3
<1>3. CASE Run12!DrawFigure
  <2>1. CASE records = <<>>
    <3>1. UNCHANGED <<next, figs>> /\ pc' = "crashed"
      BY <1>3, <2>1 DEF Run12!DrawFigure
    <3>2. QED
      BY <1>1, <3>1
  <2>2. CASE records # <<>>
    <3>1. /\ pc = "plot" /\ next \in 1..8
          /\ figs' = [figs EXCEPT ![next] = Run12!Figure(next, archive)]
          /\ next' = next + 1 /\ UNCHANGED <<archive, pc>>
      BY <1>3, <2>2, EightFigures DEF Run12!DrawFigure
    <3>2. Whole12 /\ archive # <<>>
      BY <2>2, <3>1
    <3>3. Run12!Figure(next, archive) # None
      BY <3>1, <3>2, Run12Assumption DEF Whole12
    <3>4. figs' = [f \in 1..8 |-> figs'[f]] /\ figs'[next] = Run12!Figure(next, archive)
          /\ \A f \in 1..8 \ {next} : figs'[f] = figs[f]
      BY <3>1
    <3>5. \A f \in 1..8 \ {next} :
             figs'[f] # None => Whole12' /\ figs'[f] = Run12!Figure(f, archive)'
      BY <3>1, <3>4, DrawnRemains
    <3>6. Whole12' /\ figs'[next] = Run12!Figure(next, archive)
      BY <3>1, <3>2, <3>4 DEF Whole12
    <3>7. \A f \in 1..8 : Run12!Figure(f, archive)' = Run12!Figure(f, archive)
      BY <3>1
    <3>8. \A f \in 1..8 : figs'[f] # None => Whole12' /\ figs'[f] = Run12!Figure(f, archive)'
      BY <3>5, <3>6, <3>7
    <3>9. \A f \in 1..8 : f < next' => figs'[f] # None
      BY <3>1, <3>3, <3>4
    <3>10. QED
      BY <3>1, <3>4, <3>8, <3>9
  <2>3. QED
    BY <2>1, <2>2
<1>4. CASE Run12!AllGenerated
  <2>1. UNCHANGED <<next, figs>> /\ pc' = "done" /\ pc = "plot" /\ next > 8
    BY <1>4, EightFigures DEF Run12!AllGenerated
  <2>2. next' = 9 /\ \A f \in 1..8 : figs'[f] # None
    BY <2>1
  <2>3. QED
    BY <1>1, <2>1, <2>2
<1>5. QED
  BY <1>2, <1>3, <1>4 DEF Run12!Next

LEMMA Run12Complete == Run12Inv => Run12!ReportComplete
<1>1. SUFFICES ASSUME Run12Inv PROVE Run12!ReportComplete
  OBVIOUS
<1>2. DOMAIN figs = 1..8
  BY <1>1 DEF Run12Inv, Drawing12
<1>3. Whole12 => Torn \notin {archive[i] : i \in DOMAIN archive}
  BY DEF Whole12
<1>4. QED
  BY <1>1, <1>2, <1>3 DEF Run12Inv, Drawing12, Run12!ReportComplete

\* The TTFT axis: a point for every cycle with a measured latency, a mark for every cycle of
\* pods that were all saturated or silent.
Measured(recs) == {i \in DOMAIN recs : recs[i].kind \in {"served", "untuned"}}
Unmeasured(recs) == {i \in DOMAIN recs : recs[i].kind \in {"saturated", "silent"}}

LEMMA TTFTSeries ==
    ASSUME NEW recs, \A i \in DOMAIN recs : recs[i] \in Record12
    PROVE  LET ttft == Run12!server_series(recs, "ttft") IN
           /\ {i \in DOMAIN recs : Run12!positive(ttft)[i] # None} = Measured(recs)
           /\ {i \in DOMAIN recs : ttft[i] = 0} = Unmeasured(recs)
<1> DEFINE ttft == Run12!server_series(recs, "ttft")
           pos_ttft == Run12!positive(ttft)
<1>1. SUFFICES ASSUME NEW i \in DOMAIN recs
               PROVE  /\ pos_ttft[i] # None <=> i \in Measured(recs)
                      /\ ttft[i] = 0 <=> i \in Unmeasured(recs)
  BY Zenon DEF Measured, Unmeasured
<1>2. None # 0 /\ None # 1
  BY NoneAssumption
<1>3. ttft[i] = IF recs[i].kind = "absent" THEN None
                ELSE IF recs[i].kind \in {"saturated", "silent"} THEN 0 ELSE 1
  BY DEF Run12!server_series, Run12!Field
<1>4. pos_ttft[i] = IF ttft[i] = 0 THEN None ELSE ttft[i]
  BY DEF Run12!positive, Run12!server_series
<1>5. recs[i].kind \in {"absent", "served", "saturated", "silent", "untuned"}
  BY DEF Record12
<1>6. QED
  BY <1>2, <1>3, <1>4, <1>5 DEF Measured, Unmeasured

LEMMA TTFTAxis ==
    ASSUME NEW recs, \A i \in DOMAIN recs : recs[i] \in Record12
    PROVE  LET axis == Run12!FigLatency(recs)[2] IN
           /\ Run12!Drawn(axis) = {recs[i].t : i \in Measured(recs)}
           /\ axis.marks = {recs[i].t : i \in Unmeasured(recs)}
<1> DEFINE ttft == Run12!server_series(recs, "ttft")
           plot == Run12!Plot(recs, Run12!positive(ttft))
           axis == Run12!FigLatency(recs)[2]
<1>1. axis.curves = {plot} /\ axis.marks = Run12!sat_times(recs)
  BY DEF Run12!FigLatency, Run12!Axis
<1>2. Run12!Drawn(axis) = {pt.t : pt \in plot}
  BY <1>1 DEF Run12!Drawn
<1>3. {pt.t : pt \in plot} = {recs[i].t : i \in Measured(recs)}
  <2>1. plot = {[t |-> recs[i].t, v |-> Run12!positive(ttft)[i]] : i \in Measured(recs)}
    BY TTFTSeries DEF Run12!Plot, Run12!times, Measured
  <2> DEFINE point(i) == [t |-> recs[i].t, v |-> Run12!positive(ttft)[i]]
  <2> HIDE DEF plot, ttft
  <2>2. \A pt \in plot : \E i \in Measured(recs) : pt.t = recs[i].t
    BY <2>1
  <2>3. \A i \in Measured(recs) : point(i) \in plot /\ point(i).t = recs[i].t
    BY <2>1
  <2> HIDE DEF point
  <2>4. QED
    BY <2>2, <2>3
<1>4. Run12!sat_times(recs) = {recs[i].t : i \in Unmeasured(recs)}
  BY TTFTSeries DEF Run12!sat_times, Run12!times, Unmeasured
<1>5. QED
  BY <1>1, <1>2, <1>3, <1>4

\* The times of an archive tell its records apart.
LEMMA TimesDistinct ==
    ASSUME NEW lines \in Archives12, \A i \in DOMAIN lines : lines[i] # Torn,
           NEW i \in DOMAIN lines, NEW j \in DOMAIN lines, lines[i].t = lines[j].t
    PROVE  i = j
<1>1. lines \in Seq({Torn} \cup Record12) /\ InTime(lines)
  BY Run12Assumption
<1>2. i \in Nat /\ j \in Nat /\ lines[i].t \in Nat /\ lines[j].t \in Nat
  BY <1>1 DEF Record12
<1>3. ~(i < j) /\ ~(j < i)
  BY <1>1, <1>2 DEF InTime
<1>4. QED
  BY <1>2, <1>3

LEMMA Run12Gaps == Run12Inv => Run12!GapsExplained
<1>1. SUFFICES ASSUME Run12Inv, figs[2] # None
               PROVE  LET axis == figs[2][2]
                          missing == {archive[i].t :
                              i \in {j \in DOMAIN archive : archive[j].kind = "absent"}}
                      IN /\ Run12!Drawn(axis) \cup axis.marks \cup missing
                              = {archive[i].t : i \in DOMAIN archive}
                         /\ Run12!Drawn(axis) \cap axis.marks = {}
                         /\ (Run12!Drawn(axis) \cup axis.marks) \cap missing = {}
  BY DEF Run12!GapsExplained
<1> DEFINE axis == Run12!FigLatency(archive)[2]
           Missing == {j \in DOMAIN archive : archive[j].kind = "absent"}
           T(I) == {archive[i].t : i \in I}
<1>2. Whole12 /\ archive \in Archives12 /\ figs[2] = Run12!Figure(2, archive)
  BY <1>1 DEF Run12Inv, Reading12, Drawing12
<1>3. Run12!Figure(2, archive) = Run12!FigLatency(archive)
  BY DEF Run12!Figure, Run12!FigureNames
<1>4. \A i \in DOMAIN archive : archive[i] \in Record12
  BY <1>2, Run12Assumption DEF Whole12
<1>5. Run12!Drawn(axis) = T(Measured(archive)) /\ axis.marks = T(Unmeasured(archive))
  BY <1>4, TTFTAxis
<1>6. Measured(archive) \cup Unmeasured(archive) \cup Missing = DOMAIN archive
  BY <1>4 DEF Measured, Unmeasured, Record12
<1>7. Measured(archive) \cap Unmeasured(archive) = {}
      /\ (Measured(archive) \cup Unmeasured(archive)) \cap Missing = {}
  BY DEF Measured, Unmeasured
<1>8. ASSUME NEW I \in SUBSET DOMAIN archive, NEW J \in SUBSET DOMAIN archive, I \cap J = {}
      PROVE  T(I) \cap T(J) = {}
  BY <1>2, <1>8, TimesDistinct DEF Whole12
<1>9. Measured(archive) \subseteq DOMAIN archive /\ Unmeasured(archive) \subseteq DOMAIN archive
      /\ Missing \subseteq DOMAIN archive
  BY DEF Measured, Unmeasured
<1> HIDE DEF axis, Missing
<1>10. T(Measured(archive)) \cup T(Unmeasured(archive)) \cup T(Missing) = T(DOMAIN archive)
  BY <1>6
<1>11. /\ T(Measured(archive)) \cap T(Unmeasured(archive)) = {}
       /\ T(Measured(archive)) \cap T(Missing) = {}
       /\ T(Unmeasured(archive)) \cap T(Missing) = {}
  BY <1>7, <1>8, <1>9
<1>12. QED
  BY <1>2, <1>3, <1>5, <1>10, <1>11 DEF axis, Missing

-----------------------------------------------------------------------------
(***************************************************************************)
(* gen_report_figs_run15.py.                                               *)
(***************************************************************************)

Whole15 == \A a \in {"A", "B"} : \A i \in DOMAIN input.cycles[a] : input.cycles[a][i] # Torn

\* once both arms have been read they are the archived ones, and the figures before next, and
\* no others, have been drawn of them
Run15Inv ==
    /\ input \in Inputs15
    /\ pc \in {"load", "plot", "done", "crashed"}
    /\ pc \in {"plot", "done"} => ARMS = input.cycles /\ Whole15
    /\ next \in Nat \ {0} /\ (next # 1 => Whole15)
    /\ figs = [f \in 1..7 |-> IF f < next THEN Run15!Figure(f, input.cycles) ELSE None]

LEMMA SevenFigures == Len(Run15!FigureNames) = 7
BY DEF Run15!FigureNames

\* A figure depends on nothing but the archived files.
LEMMA FigureOfInput ==
    ASSUME input' = input, NEW f
    PROVE  Run15!Figure(f, input.cycles)' = Run15!Figure(f, input.cycles)
BY DEF Run15!Figure, Run15!FigureNames, Run15!FigLoadReplicas, Run15!FigLatency,
       Run15!FigConcurrency, Run15!FigCost, Run15!FigEkf, Run15!FigTiming,
       Run15!FigConcurrencyActual, Run15!plot_both, Run15!plot_both_clipped, Run15!annotate,
       Run15!load_mstar, Run15!OfCycle, Run15!avg_concurrency, Run15!Axis, Run15!Plot,
       Run15!cyc, Run15!srv, Run15!clipped, Run15!min, Run15!add_phase_shading, Run15!MAXCYC,
       Run15!Arms

LEMMA Run15Start == Run15!Init => Run15Inv
BY SevenFigures DEF Run15!Init, Run15Inv

LEMMA Run15Step == ASSUME Run15Inv, Run15!Next PROVE Run15Inv'
<1> USE DEF Run15Inv
<1>1. input' = input
  BY DEF Run15!Next, Run15!Load, Run15!DrawFigure, Run15!Interrupted, Run15!AllGenerated
<1>2. Whole15' <=> Whole15
  BY <1>1 DEF Whole15
<1>3. \A f \in 1..7 : Run15!Figure(f, input.cycles)' = Run15!Figure(f, input.cycles)
  BY <1>1, FigureOfInput
<1>4. CASE Run15!Load
  <2>1. UNCHANGED <<next, figs>> /\ pc' \in {"plot", "crashed"}
        /\ (pc' = "plot" => ARMS' = input.cycles /\ Whole15)
    BY <1>4 DEF Run15!Load, Whole15, Run15!Arms
  <2>2. QED
    BY <1>1, <1>2, <1>3, <2>1
<1>5. CASE Run15!DrawFigure
  <2> DEFINE drawn == Run15!Figure(next, ARMS)
             F(f) == Run15!Figure(f, input.cycles)
  <2>1. /\ pc = "plot" /\ next \in 1..7 /\ next' = next + 1 /\ UNCHANGED <<pc, ARMS>>
        /\ figs' = [figs EXCEPT ![next] = drawn]
    <3> HIDE DEF drawn
    <3>1. /\ pc = "plot" /\ next <= 7 /\ next' = next + 1 /\ UNCHANGED <<pc, ARMS>>
          /\ figs' = [figs EXCEPT ![next] = drawn]
      BY <1>5, SevenFigures DEF Run15!DrawFigure, drawn
    <3>2. QED
      BY <3>1
  <2>2. ARMS = input.cycles /\ Whole15
    BY <2>1
  <2>3. drawn = F(next)
    BY <2>2
  <2>4. figs = [f \in 1..7 |-> IF f < next THEN F(f) ELSE None]
    OBVIOUS
  <2> HIDE DEF drawn, F
  <2>5. ASSUME NEW f \in 1..7 PROVE figs'[f] = IF f < next' THEN F(f) ELSE None
    BY <2>1, <2>3, <2>4
  <2>6. figs' = [f \in 1..7 |-> IF f < next' THEN F(f) ELSE None]
    BY <2>1, <2>4, <2>5
  <2>7. figs' = [f \in 1..7 |-> IF f < next' THEN Run15!Figure(f, input.cycles)' ELSE None]
    BY <1>3, <2>6 DEF F
  <2>8. QED
    BY <1>1, <1>2, <2>1, <2>2, <2>7
<1>6. CASE Run15!Interrupted \/ Run15!AllGenerated
  <2>1. UNCHANGED <<ARMS, next, figs>> /\ pc = "plot" /\ pc' \in {"crashed", "done"}
    BY <1>6 DEF Run15!Interrupted, Run15!AllGenerated
  <2>2. QED
    BY <1>1, <1>2, <1>3, <2>1
<1>7. QED
  BY <1>4, <1>5, <1>6 DEF Run15!Next

LEMMA Run15Whole == Run15Inv => Run15!WholeArms
BY DEF Run15Inv, Run15!WholeArms, Run15!CyclesOf, Run15!Row, Run15!Arms, Whole15

\* The records of an arm that was read.
LEMMA Records15 ==
    ASSUME Run15Inv, Whole15, NEW a \in {"A", "B"}
    PROVE  \A i \in DOMAIN input.cycles[a] : input.cycles[a][i] \in Record15
BY Run15Assumption DEF Run15Inv, Whole15

LEMMA DrawnFigures ==
    ASSUME Run15Inv, NEW f \in 1..7, figs[f] # None
    PROVE  /\ Whole15 /\ figs[f] = Run15!Figure(f, input.cycles)
           /\ \A g \in 1..f : figs[g] = Run15!Figure(g, input.cycles)
BY DEF Run15Inv

\* Of the TTFT of an arm, a curve shows what a cycle logged, clipped or not.
LEMMA TTFTCurve ==
    ASSUME NEW recs, \A i \in DOMAIN recs : recs[i] \in Record15
    PROVE  LET served == {i \in DOMAIN recs : recs[i].srv # None}
               ttft == Run15!srv(recs, "ttft")
           IN /\ Run15!Plot(Run15!cyc(recs), ttft) =
                    {[x |-> recs[i].cycle, y |-> recs[i].srv.ttft] : i \in served}
              /\ Run15!Plot(Run15!cyc(recs), Run15!clipped(ttft)) =
                    {[x |-> recs[i].cycle, y |-> Run15!min(recs[i].srv.ttft, CLIP)] : i \in served}
<1> DEFINE served == {i \in DOMAIN recs : recs[i].srv # None}
           ttft == Run15!srv(recs, "ttft")
<1>1. ASSUME NEW i \in DOMAIN recs
      PROVE  /\ Run15!cyc(recs)[i] = recs[i].cycle
             /\ ttft[i] = IF i \in served THEN recs[i].srv.ttft ELSE None
             /\ Run15!clipped(ttft)[i] =
                    IF i \in served THEN Run15!min(recs[i].srv.ttft, CLIP) ELSE None
             /\ i \in served => recs[i].srv.ttft # None
                                /\ Run15!min(recs[i].srv.ttft, CLIP) # None
  <2>1. i \in served => recs[i].srv.ttft \in Nat /\ Run15!min(recs[i].srv.ttft, CLIP) \in Nat
    BY Run15Assumption DEF Record15, Run15!min
  <2>2. i \in served => recs[i].srv.ttft # None /\ Run15!min(recs[i].srv.ttft, CLIP) # None
    BY <2>1, NoneAssumption
  <2>3. Run15!cyc(recs)[i] = recs[i].cycle
    BY DEF Run15!cyc
  <2>4. DOMAIN ttft = DOMAIN recs /\ ttft[i] = IF i \in served THEN recs[i].srv.ttft ELSE None
    BY DEF Run15!srv
  <2>5. Run15!clipped(ttft)[i] = IF ttft[i] = None THEN None ELSE Run15!min(ttft[i], CLIP)
    BY <2>4 DEF Run15!clipped
  <2>6. QED
    BY <2>2, <2>3, <2>4, <2>5
<1>2. /\ DOMAIN Run15!cyc(recs) = DOMAIN recs /\ DOMAIN ttft = DOMAIN recs
      /\ DOMAIN Run15!clipped(ttft) = DOMAIN recs
  BY DEF Run15!cyc, Run15!srv, Run15!clipped
<1> HIDE DEF ttft
<1>3. {j \in DOMAIN Run15!cyc(recs) \cap DOMAIN ttft : ttft[j] # None} = served
  BY <1>1, <1>2
<1>4. {j \in DOMAIN Run15!cyc(recs) \cap DOMAIN Run15!clipped(ttft) :
         Run15!clipped(ttft)[j] # None} = served
  BY <1>1, <1>2
<1>5. \A i \in served : i \in DOMAIN recs
  OBVIOUS
<1> HIDE DEF served
<1>6. Run15!Plot(Run15!cyc(recs), ttft) =
        {[x |-> recs[i].cycle, y |-> recs[i].srv.ttft] : i \in served}
  BY <1>1, <1>3, <1>5 DEF Run15!Plot
<1>7. Run15!Plot(Run15!cyc(recs), Run15!clipped(ttft)) =
        {[x |-> recs[i].cycle, y |-> Run15!min(recs[i].srv.ttft, CLIP)] : i \in served}
  BY <1>1, <1>4, <1>5 DEF Run15!Plot
<1>8. QED
  BY <1>6, <1>7 DEF ttft, served

LEMMA Run15Clipping == Run15Inv => Run15!ClippingLosesNothing
<1> DEFINE arm(a) == input.cycles[a]
           served(a) == {j \in Run15!CyclesOf(a) : Run15!Row(a, j).srv # None}
           logged(a) == {[x |-> Run15!Row(a, i).cycle, y |-> Run15!Row(a, i).srv.ttft] :
                           i \in served(a)}
           axis == Run15!FigLatency(input.cycles)[1]
           curve(a) == Run15!Plot(Run15!cyc(arm(a)), Run15!clipped(Run15!srv(arm(a), "ttft")))
<1>1. SUFFICES ASSUME Run15Inv, figs[2] # None
               PROVE  /\ \A a \in {"A", "B"} : \A pt \in logged(a) :
                            pt \in axis.curves[a] \/ (pt \in axis.notes /\ pt.y > CLIP)
                      /\ axis.notes \subseteq UNION {logged(a) : a \in {"A", "B"}}
  <2>1. Run15Inv /\ figs[2] # None => figs[2] = Run15!FigLatency(input.cycles)
    BY DrawnFigures DEF Run15!Figure, Run15!FigureNames
  <2>2. QED
    BY <2>1 DEF Run15!ClippingLosesNothing, Run15!Arms
<1>2. Whole15
  BY <1>1, DrawnFigures
<1>3. \A a \in {"A", "B"} : axis.curves[a] = curve(a)
  BY DEF Run15!FigLatency, Run15!plot_both_clipped, Run15!Axis, Run15!Arms
<1>4. axis.notes = Run15!annotate(input.cycles)
  BY DEF Run15!FigLatency, Run15!plot_both_clipped, Run15!Axis
<1>5. ASSUME NEW a \in {"A", "B"}
      PROVE  /\ Run15!Plot(Run15!cyc(arm(a)), Run15!srv(arm(a), "ttft")) = logged(a)
             /\ curve(a) = {[x |-> arm(a)[i].cycle, y |-> Run15!min(arm(a)[i].srv.ttft, CLIP)] :
                              i \in served(a)}
             /\ \A i \in served(a) : arm(a)[i].srv.ttft \in Nat
  <2>1. \A i \in DOMAIN arm(a) : arm(a)[i] \in Record15
    BY <1>1, <1>2, Records15
  <2>2. served(a) = {j \in DOMAIN arm(a) : arm(a)[j].srv # None}
    BY DEF Run15!CyclesOf, Run15!Row
  <2>3. logged(a) = {[x |-> arm(a)[i].cycle, y |-> arm(a)[i].srv.ttft] : i \in served(a)}
    BY DEF Run15!Row
  <2>4. \A i \in served(a) : arm(a)[i].srv.ttft \in Nat
    BY <2>1, <2>2 DEF Record15
  <2>5. QED
    BY <2>1, <2>2, <2>3, <2>4, TTFTCurve
<1>6. axis.notes = {pt \in UNION {logged(a) : a \in {"A", "B"}} : pt.y > CLIP}
  BY <1>4, <1>5 DEF Run15!annotate, Run15!Arms
<1>7. ASSUME NEW a \in {"A", "B"}, NEW i \in served(a)
      PROVE  LET pt == [x |-> arm(a)[i].cycle, y |-> arm(a)[i].srv.ttft]
             IN  pt \in curve(a) \/ pt.y > CLIP
  <2>1. arm(a)[i].srv.ttft \in Nat /\ CLIP \in Nat
    BY <1>5, <1>7, Run15Assumption
  <2>2. CASE arm(a)[i].srv.ttft <= CLIP
    <3>1. Run15!min(arm(a)[i].srv.ttft, CLIP) = arm(a)[i].srv.ttft
      BY <2>1, <2>2 DEF Run15!min
    <3>2. QED
      BY <1>5, <1>7, <3>1
  <2>3. QED
    BY <2>1, <2>2
<1>8. \A a \in {"A", "B"} : \A pt \in logged(a) :
          \E i \in served(a) : pt = [x |-> arm(a)[i].cycle, y |-> arm(a)[i].srv.ttft]
  BY DEF Run15!Row
<1> HIDE DEF served, logged, axis, curve, arm
<1>9. QED
  BY <1>3, <1>6, <1>7, <1>8

\* The points of both curves are the cycles that have a server with replicas.
Busy(recs) == {i \in DOMAIN recs : recs[i].srv # None /\ recs[i].srv.replicas > 0}

LEMMA ConcurrencyCurve ==
    ASSUME NEW recs, \A i \in DOMAIN recs : recs[i] \in Record15
    PROVE  {pt.x : pt \in Run15!Plot(Run15!cyc(recs), Run15!avg_concurrency(recs))} =
           {recs[i].cycle : i \in Busy(recs)}
<1> DEFINE cyc == Run15!cyc(recs)
           avg == Run15!avg_concurrency(recs)
           plot == Run15!Plot(cyc, avg)
           point(i) == [x |-> cyc[i], y |-> avg[i]]
<1>1. ASSUME NEW i \in DOMAIN recs PROVE avg[i] # None <=> i \in Busy(recs)
  <2>1. recs[i].srv # None => recs[i].srv.replicas \in Nat /\ recs[i].srv.ttft \in Nat
    BY DEF Record15
  <2>2. i \in Busy(recs) => recs[i].srv.ttft \div recs[i].srv.replicas \in Nat
    BY <2>1 DEF Busy
  <2>3. avg[i] = IF i \in Busy(recs) THEN recs[i].srv.ttft \div recs[i].srv.replicas ELSE None
    BY <2>1 DEF Run15!avg_concurrency, Busy
  <2>4. QED
    BY <2>2, <2>3, NoneAssumption
<1>2. DOMAIN cyc = DOMAIN recs /\ DOMAIN avg = DOMAIN recs
      /\ \A i \in DOMAIN recs : cyc[i] = recs[i].cycle
  BY DEF Run15!cyc, Run15!avg_concurrency
<1>3. {j \in DOMAIN cyc \cap DOMAIN avg : avg[j] # None} = Busy(recs)
  BY <1>1, <1>2 DEF Busy
<1>4. plot = {point(i) : i \in Busy(recs)}
  BY <1>3 DEF Run15!Plot
<1>5. \A i \in Busy(recs) : point(i).x = recs[i].cycle
  BY <1>2 DEF Busy
<1> HIDE DEF plot, point
<1>6. {pt.x : pt \in {point(i) : i \in Busy(recs)}} = {recs[i].cycle : i \in Busy(recs)}
  BY <1>5
<1>7. QED
  BY <1>4, <1>6 DEF plot

LEMMA ReplicasCurve ==
    ASSUME NEW recs, \A i \in DOMAIN recs : recs[i] \in Record15
    PROVE  {pt.x : pt \in {p \in Run15!Plot(Run15!cyc(recs), Run15!srv(recs, "replicas")) :
                              p.y > 0}} =
           {recs[i].cycle : i \in Busy(recs)}
<1> DEFINE cyc == Run15!cyc(recs)
           repl == Run15!srv(recs, "replicas")
           served == {j \in DOMAIN cyc \cap DOMAIN repl : repl[j] # None}
           plot == Run15!Plot(cyc, repl)
           point(i) == [x |-> cyc[i], y |-> repl[i]]
<1>1. DOMAIN cyc = DOMAIN recs /\ DOMAIN repl = DOMAIN recs
      /\ \A i \in DOMAIN recs : cyc[i] = recs[i].cycle
  BY DEF Run15!cyc, Run15!srv
<1>2. ASSUME NEW i \in DOMAIN recs PROVE i \in Busy(recs) <=> i \in served /\ repl[i] > 0
  <2>1. recs[i].srv # None => recs[i].srv.replicas \in Nat
    BY DEF Record15
  <2>2. repl[i] = IF recs[i].srv = None THEN None ELSE recs[i].srv.replicas
    BY DEF Run15!srv
  <2>3. QED
    BY <1>1, <2>1, <2>2, NoneAssumption DEF Busy
<1>3. plot = {point(i) : i \in served}
  BY DEF Run15!Plot
<1>4. \A i \in served : point(i).x = recs[i].cycle /\ point(i).y = repl[i]
  BY <1>1
<1>5. Busy(recs) \subseteq served /\ \A i \in served : i \in Busy(recs) <=> repl[i] > 0
  BY <1>1, <1>2 DEF Busy
<1> HIDE DEF plot, point, served, repl
<1>6. {p \in plot : p.y > 0} = {point(i) : i \in Busy(recs)}
  BY <1>3, <1>4, <1>5
<1>7. {pt.x : pt \in {point(i) : i \in Busy(recs)}} = {recs[i].cycle : i \in Busy(recs)}
  BY <1>4, <1>5
<1>8. QED
  BY <1>6, <1>7 DEF plot, repl

LEMMA Run15Aligned == Run15Inv => Run15!ConcurrencyAligned
<1>1. SUFFICES ASSUME Run15Inv, figs[7] # None, NEW a \in {"A", "B"}
               PROVE  {pt.x : pt \in figs[7][1].curves[a]} =
                      {pt.x : pt \in {p \in figs[1][1].curves[a] : p.y > 0}}
  BY DEF Run15!ConcurrencyAligned, Run15!Arms
<1> DEFINE recs == input.cycles[a]
<1>2. /\ figs[7] = Run15!FigConcurrencyActual(input.cycles)
      /\ figs[1] = Run15!FigLoadReplicas(input.cycles)
  BY <1>1, DrawnFigures DEF Run15!Figure, Run15!FigureNames
<1>3. figs[7][1].curves[a] = Run15!Plot(Run15!cyc(recs), Run15!avg_concurrency(recs))
  BY <1>2 DEF Run15!FigConcurrencyActual, Run15!Axis, Run15!Arms
<1>4. figs[1][1].curves[a] = Run15!Plot(Run15!cyc(recs), Run15!srv(recs, "replicas"))
  BY <1>2 DEF Run15!FigLoadReplicas, Run15!plot_both, Run15!Axis, Run15!Arms
<1>5. \A i \in DOMAIN recs : recs[i] \in Record15
  BY <1>1, DrawnFigures, Records15
<1>6. QED
  BY <1>3, <1>4, <1>5, ConcurrencyCurve, ReplicasCurve

-----------------------------------------------------------------------------
(***************************************************************************)
(* plot_run18.py and what runs beside it.                                  *)
(***************************************************************************)

\* what one run of plot_run18.py leaves of an arm, across the arms and by itself
AcrossOf(a) ==
    /\ a \in DOMAIN figure18 => \E log \in Arms17!Legible(a) :
           figure18[a] = Arms17!curve(Arms17!load_rows(log))
    /\ during[a] \cap {None, <<>>} = {} => a \in DOMAIN figure18

AloneOf(a) ==
    during[a] \cap {None, <<>>} = {} =>
        \E log \in Arms17!Legible(a) : perArm[a] = Arms17!load_rows(log)

\* the figure across the arms is of archives there were, and so is the one of every arm that
\* is not still to be drawn
ArmsInv ==
    /\ archive \in [Arms17!Names -> {None} \cup Logs17]
    /\ pc \in {"idle", "across", "arms", "done"}
    /\ todo \in Seq(Arms17!Names)
    /\ perArm = [a \in Arms17!Names |-> perArm[a]]
    /\ during = [a \in Arms17!Names |-> during[a]]
    /\ pc = "across" => todo = ArmOrder
    /\ pc \in {"idle", "done"} => todo = <<>>
    /\ pc \in {"across", "arms"} => \A a \in Arms17!Names : archive[a] \in during[a]
    /\ pc \in {"arms", "done"} =>
          \A a \in Arms17!Names : AcrossOf(a) /\ (a \in Range(todo) \/ AloneOf(a))

LEMMA ArmNames == ArmOrder \in Seq(Arms17!Names) /\ Range(ArmOrder) = Arms17!Names
BY Arms17Assumption DEF Arms17!Names, Arms17!Range, Range

\* An arm whose archive has lines is in the figure.
LEMMA DrawnArms ==
    ASSUME ArmsInv, NEW a \in Arms17!Names, archive[a] \notin {None, <<>>}
    PROVE  a \in Arms17!Drawn(Arms17!load_rows)
<1>1. archive[a] \in Seq({Torn} \cup Record17)
  BY Arms17Assumption DEF ArmsInv
<1>2. DOMAIN Arms17!load_rows(archive[a]) = DOMAIN archive[a]
  BY DEF Arms17!load_rows
<1>3. 1 \in DOMAIN archive[a]
  BY <1>1, EmptySeq
<1>4. Arms17!load_rows(archive[a]) # <<>>
  BY <1>2, <1>3
<1>5. QED
  BY <1>4 DEF Arms17!Drawn

LEMMA ArmsStart == Arms17!Init => ArmsInv
BY EmptySeq DEF Arms17!Init, ArmsInv

\* What per_arm is still called for after the first arm of todo.
LEMMA RangeOfTail ==
    ASSUME NEW S, NEW s \in Seq(S), s # <<>>
    PROVE  Tail(s) \in Seq(S) /\ Range(s) = {s[1]} \cup Range(Tail(s))
<1>1. Len(s) \in Nat \ {0} /\ DOMAIN s = 1..Len(s)
  BY EmptySeq
<1>2. Tail(s) \in Seq(S) /\ Len(Tail(s)) = Len(s) - 1
      /\ \A i \in 1..(Len(s) - 1) : Tail(s)[i] = s[i + 1]
  OBVIOUS
<1>3. \A i \in 1..Len(s) : i = 1 \/ (i - 1 \in 1..(Len(s) - 1) /\ s[i] = Tail(s)[i - 1])
  BY <1>1, <1>2
<1>4. DOMAIN Tail(s) = 1..(Len(s) - 1) /\ \A i \in 1..(Len(s) - 1) : i + 1 \in 1..Len(s)
  BY <1>1, <1>2
<1>5. \A x : x \in Range(s) => x = s[1] \/ x \in Range(Tail(s))
  <2>1. ASSUME NEW x \in Range(s) PROVE x = s[1] \/ x \in Range(Tail(s))
    <3>1. PICK i \in 1..Len(s) : x = s[i]
      BY <1>1 DEF Range
    <3>2. CASE i = 1
      BY <3>1, <3>2
    <3>3. CASE i - 1 \in 1..(Len(s) - 1) /\ x = Tail(s)[i - 1]
      BY <1>4, <3>3 DEF Range
    <3>4. QED
      BY <1>3, <3>1, <3>2, <3>3
  <2>2. QED
    BY <2>1
<1>6. \A x : x = s[1] \/ x \in Range(Tail(s)) => x \in Range(s)
  BY <1>1, <1>2, <1>4 DEF Range
<1>7. QED
  BY <1>2, <1>5, <1>6

\* What was true of the archives there were remains true when there are more.
LEMMA MoreArchives ==
    ASSUME NEW a \in Arms17!Names, during[a] \subseteq during'[a], UNCHANGED <<figure18, perArm>>
    PROVE  /\ AcrossOf(a) => AcrossOf(a)'
           /\ AloneOf(a) => AloneOf(a)'
<1>1. Arms17!Legible(a) \subseteq Arms17!Legible(a)'
  BY DEF Arms17!Legible, Arms17!IsTorn
<1>2. during'[a] \cap {None, <<>>} = {} => during[a] \cap {None, <<>>} = {}
  OBVIOUS
<1>3. \A log : (Arms17!load_rows(log)' = Arms17!load_rows(log)
               /\ Arms17!curve(Arms17!load_rows(log))' = Arms17!curve(Arms17!load_rows(log)))
  OBVIOUS
<1>4. QED
  BY <1>1, <1>2, <1>3 DEF AcrossOf, AloneOf

LEMMA ArmsStep == ASSUME ArmsInv, Arms17!Next PROVE ArmsInv'
<1> USE DEF ArmsInv
<1>0. ASSUME UNCHANGED <<during, figure18, perArm>>, NEW a \in Arms17!Names
      PROVE  (AcrossOf(a) => AcrossOf(a)') /\ (AloneOf(a) => AloneOf(a)')
  BY <1>0, MoreArchives
<1>1. ASSUME NEW b \in Arms17!Names, Arms17!RecordArm(b) PROVE ArmsInv'
  <2>1. PICK log \in Logs17 : archive' = [archive EXCEPT ![b] = log]
    BY <1>1 DEF Arms17!RecordArm
  <2>2. /\ UNCHANGED <<pc, todo, figure18, perArm>>
        /\ during' = IF pc \in {"across", "arms"}
                     THEN [during EXCEPT ![b] = during[b] \cup {archive'[b]}] ELSE during
    BY <1>1 DEF Arms17!RecordArm
  <2>3. during' = [a \in Arms17!Names |-> during'[a]]
        /\ \A a \in Arms17!Names : during[a] \subseteq during'[a]
    BY <2>2
  <2>4. \A a \in Arms17!Names : (AcrossOf(a) => AcrossOf(a)') /\ (AloneOf(a) => AloneOf(a)')
    BY <2>2, <2>3, MoreArchives
  <2>5. archive' \in [Arms17!Names -> {None} \cup Logs17]
    BY <2>1
  <2>6. pc \in {"across", "arms"} => \A a \in Arms17!Names : archive'[a] \in during'[a]
    BY <2>1, <2>2
  <2>7. QED
    BY <2>2, <2>3, <2>4, <2>5, <2>6
<1>2. CASE Arms17!Start18
  <2>1. /\ pc' = "across" /\ todo' = ArmOrder
        /\ during' = [a \in Arms17!Names |-> {archive[a]}]
        /\ UNCHANGED <<archive, figure18, perArm>>
    BY <1>2 DEF Arms17!Start18
  <2>2. QED
    BY <2>1, ArmNames
<1>3. CASE Arms17!ThreeArm18
  <2>1. CASE \E a \in Arms17!Names : Arms17!IsTorn(archive[a])
    <3>1. /\ pc' = "idle" /\ todo' = <<>> /\ during' = [a \in Arms17!Names |-> {}]
          /\ UNCHANGED <<archive, figure18, perArm>>
      BY <1>3, <2>1 DEF Arms17!ThreeArm18, Arms17!Crash18
    <3>2. QED
      BY <3>1, EmptySeq
  <2>2. CASE ~\E a \in Arms17!Names : Arms17!IsTorn(archive[a])
    <3>1. /\ pc = "across" /\ pc' = "arms" /\ UNCHANGED <<archive, todo, during, perArm>>
          /\ figure18' = [a \in Arms17!Drawn(Arms17!load_rows) |->
                            Arms17!curve(Arms17!load_rows(archive[a]))]
      BY <1>3, <2>2 DEF Arms17!ThreeArm18
    <3>2. ASSUME NEW a \in Arms17!Names PROVE AcrossOf(a)' /\ a \in Range(todo')
      <4>1. a \in Range(todo')
        BY <3>1, ArmNames
      <4>2. ASSUME a \in DOMAIN figure18' PROVE archive[a] \in Arms17!Legible(a)
        <5>1. archive[a] # None
          BY <3>1, <4>2 DEF Arms17!Drawn
        <5>2. QED
          BY <2>2, <3>1, <5>1 DEF Arms17!Legible
      <4>3. Arms17!Legible(a)' = Arms17!Legible(a)
        BY <3>1 DEF Arms17!Legible, Arms17!IsTorn
      <4>4. a \in DOMAIN figure18' =>
                \E log \in Arms17!Legible(a) : figure18'[a] = Arms17!curve(Arms17!load_rows(log))
        BY <3>1, <4>2
      <4>5. during[a] \cap {None, <<>>} = {} => a \in DOMAIN figure18'
        BY <3>1, DrawnArms
      <4>6. \A log : Arms17!curve(Arms17!load_rows(log))' = Arms17!curve(Arms17!load_rows(log))
        OBVIOUS
      <4>7. QED
        BY <3>1, <4>1, <4>3, <4>4, <4>5, <4>6 DEF AcrossOf
    <3>3. QED
      BY <3>1, <3>2
  <2>3. QED
    BY <2>1, <2>2
<1>4. CASE Arms17!PerArm18
  <2> DEFINE b == todo[1]
  <2>1. CASE Arms17!IsTorn(archive[b])
    <3>1. /\ pc' = "idle" /\ todo' = <<>> /\ during' = [a \in Arms17!Names |-> {}]
          /\ UNCHANGED <<archive, figure18, perArm>>
      BY <1>4, <2>1 DEF Arms17!PerArm18, Arms17!Crash18
    <3>2. QED
      BY <3>1, EmptySeq
  <2>2. CASE ~Arms17!IsTorn(archive[b])
    <3>1. /\ pc = "arms" /\ todo # <<>> /\ todo' = Tail(todo)
          /\ UNCHANGED <<archive, pc, during, figure18>>
          /\ perArm' = IF archive[b] \in {None, <<>>} THEN perArm
                       ELSE [perArm EXCEPT ![b] = Arms17!load_rows(archive[b])]
      BY <1>4, <2>2 DEF Arms17!PerArm18
    <3>2. todo' \in Seq(Arms17!Names) /\ Range(todo) = {b} \cup Range(todo')
      BY <3>1, RangeOfTail
    <3>3. perArm' = [a \in Arms17!Names |-> perArm'[a]]
      BY <3>1
    <3>4. ASSUME NEW a \in Arms17!Names PROVE AcrossOf(a)' /\ (a \in Range(todo') \/ AloneOf(a)')
      <4>1. Arms17!Legible(a)' = Arms17!Legible(a)
        BY <3>1 DEF Arms17!Legible, Arms17!IsTorn
      <4>2. \A log : (Arms17!load_rows(log)' = Arms17!load_rows(log)
                     /\ Arms17!curve(Arms17!load_rows(log))' = Arms17!curve(Arms17!load_rows(log)))
        OBVIOUS
      <4>3. AcrossOf(a)'
        BY <3>1, <4>1, <4>2 DEF AcrossOf
      <4>4. CASE a # b
        <5>1. perArm'[a] = perArm[a]
          BY <3>1, <4>4
        <5>2. AloneOf(a) => AloneOf(a)'
          BY <3>1, <4>1, <4>2, <5>1 DEF AloneOf
        <5>3. QED
          BY <3>1, <3>2, <4>3, <4>4, <5>2
      <4>5. CASE a = b
        <5>1. ASSUME during[a] \cap {None, <<>>} = {}
              PROVE  archive[a] \in Arms17!Legible(a) /\ perArm'[a] = Arms17!load_rows(archive[a])
          <6>1. archive[a] \in during[a] /\ archive[a] \notin {None, <<>>}
            BY <3>1, <5>1
          <6>2. QED
            BY <2>2, <3>1, <4>5, <6>1 DEF Arms17!Legible
        <5>2. AloneOf(a)'
          BY <3>1, <4>1, <4>2, <5>1 DEF AloneOf
        <5>3. QED
          BY <4>3, <5>2
      <4>6. QED
        BY <4>4, <4>5
    <3>5. QED
      BY <3>1, <3>2, <3>3, <3>4
  <2>3. QED
    BY <2>1, <2>2
<1>5. CASE Arms17!Done18
  <2>1. pc = "arms" /\ pc' = "done" /\ todo = <<>> /\ UNCHANGED <<archive, todo, figure18, perArm, during>>
    BY <1>5 DEF Arms17!Done18
  <2>2. QED
    BY <1>0, <2>1
<1>6. CASE Arms17!Plot17 \/ Arms17!Analyze
  <2>1. UNCHANGED <<archive, pc, todo, figure18, perArm, during>>
    BY <1>6 DEF Arms17!Plot17, Arms17!Analyze
  <2>2. QED
    BY <1>0, <2>1
<1>7. QED
  BY <1>1, <1>2, <1>3, <1>4, <1>5, <1>6 DEF Arms17!Next

LEMMA ArmsOfThisRun == ArmsInv => Arms17!FiguresOfThisRun
<1>1. SUFFICES ASSUME ArmsInv, pc = "done", NEW a \in Arms17!Names PROVE AcrossOf(a) /\ AloneOf(a)
  BY DEF Arms17!FiguresOfThisRun, AcrossOf, AloneOf
<1>2. a \notin Range(todo)
  BY <1>1 DEF ArmsInv, Range
<1>3. QED
  BY <1>1, <1>2 DEF ArmsInv

-----------------------------------------------------------------------------
(***************************************************************************)
(* plot_surge.py and gen_report_figs_run19.py.                             *)
(***************************************************************************)

\* A set of numbers that is not empty has a least one.
LEMMA LeastNat == ASSUME NEW T \in SUBSET Nat, T # {} PROVE \E m \in T : \A n \in T : m <= n
<1>1. PICK x \in T : \A y \in T : ~ (<<y, x>> \in OpToRel(<, Nat))
  BY NatLessThanWellFounded, WFMin, Zenon
<1>2. ASSUME NEW y \in T, y < x PROVE FALSE
  <2>1. x \in Nat /\ y \in Nat
    OBVIOUS
  <2>2. QED
    BY <1>1, <1>2, <2>1, Zenon DEF OpToRel
<1>3. QED
  BY <1>2

\* A column that is not empty has a largest value: otherwise there would be a shortest
\* beginning of it that has none.
LEMMA Largest ==
    ASSUME NEW n \in Nat \ {0}, NEW c, \A i \in 1..n : c[i] \in Nat
    PROVE  \E m \in 1..n : \A i \in 1..n : c[i] <= c[m]
<1> DEFINE Has(k) == \E m \in 1..k : \A i \in 1..k : c[i] <= c[m]
           T == {k \in 1..n : ~Has(k)}
<1>1. SUFFICES ASSUME ~Has(n) PROVE FALSE
  OBVIOUS
<1>2. PICK k \in T : \A j \in T : k <= j
  <2>1. n \in T
    BY <1>1
  <2>2. T \subseteq Nat
    OBVIOUS
  <2> HIDE DEF T
  <2>3. QED
    BY <2>1, <2>2, LeastNat
<1>3. k \in 1..n /\ ~Has(k)
  BY <1>2
<1>4. k - 1 \in 1..n /\ Has(k - 1)
  <2>1. k # 1
    <3>1. Has(1)
      <4>1. c[1] <= c[1] /\ \A i \in 1..1 : i = 1
        OBVIOUS
      <4>2. QED
        BY <4>1
    <3>2. QED
      BY <1>3, <3>1
  <2>2. k - 1 \in 1..n /\ ~(k <= k - 1)
    BY <1>3, <2>1
  <2>3. k - 1 \notin T
    BY <1>2, <2>2
  <2>4. QED
    BY <2>2, <2>3
<1>5. PICK m \in 1..(k - 1) : \A i \in 1..(k - 1) : c[i] <= c[m]
  BY <1>4
<1>6. c[k] \in Nat /\ c[m] \in Nat /\ \A i \in 1..k : i = k \/ i \in 1..(k - 1)
  BY <1>2, <1>4, <1>5
<1>7. CASE c[k] <= c[m]
  <2>1. \A i \in 1..k : c[i] <= c[m]
    BY <1>5, <1>6, <1>7
  <2>2. QED
    BY <1>2, <1>4, <1>5, <2>1
<1>8. CASE c[m] < c[k]
  <2>1. \A i \in 1..k : c[i] <= c[k]
    BY <1>2, <1>5, <1>6, <1>8
  <2>2. k \in 1..k
    BY <1>2
  <2>3. QED
    BY <1>2, <2>1, <2>2
<1>9. QED
  BY <1>6, <1>7, <1>8

Rows19 == Overlay!load_rows(archive["run19"])
Repl19 == Overlay!Curve(Overlay!cycles(Rows19), Overlay!ttft(Rows19))

\* part A, once it has been drawn, shows the rows of run19
OverlayInv ==
    /\ archive \in [Overlay!Sources -> Archives19]
    /\ part = [p \in Overlay!Parts |-> part[p]]
    /\ part["partA"] # None =>
          /\ Rows19 # <<>>
          /\ part["partA"].repl = Repl19 /\ part["partA"].xlim = Overlay!shade(Rows19)
    /\ Overlay!ArmsAligned

LEMMA OverlayStart == Overlay!Init => OverlayInv
<1>1. SUFFICES ASSUME Overlay!Init PROVE OverlayInv
  OBVIOUS
<1>2. part = [p \in Overlay!Parts |-> None] /\ "partA" \in Overlay!Parts
  BY <1>1 DEF Overlay!Init, Overlay!Parts
<1>3. QED
  BY <1>1, <1>2 DEF Overlay!Init, OverlayInv, Overlay!ArmsAligned

\* The axis of part A holds every cycle of the run.
LEMMA OnTheAxis ==
    ASSUME OverlayInv, Rows19 # <<>> PROVE \A pt \in Repl19 : pt.x \in Overlay!shade(Rows19)
<1> DEFINE log == archive["run19"]
           c == [i \in DOMAIN log |-> log[i].cycle]
<1>1. log # None /\ log \in Seq(Record19)
  <2>1. log \in Archives19
    BY DEF OverlayInv, Overlay!Sources
  <2>2. log # None
    BY DEF Rows19, Overlay!load_rows
  <2>3. QED
    BY <2>1, <2>2, OverlayAssumption
<1>2. DOMAIN Rows19 = DOMAIN log /\ \A i \in DOMAIN log : Rows19[i].cycle = log[i].cycle
  BY <1>1 DEF Rows19, Overlay!load_rows
<1>3. Len(log) \in Nat \ {0} /\ DOMAIN log = 1..Len(log)
  <2>1. log # <<>>
    BY <1>1 DEF Rows19, Overlay!load_rows
  <2>2. QED
    BY <1>1, <2>1, EmptySeq
<1>4. \A i \in DOMAIN log : log[i].cycle \in Nat \ {0}
  <2>1. \A i \in DOMAIN log : log[i] \in Record19
    BY <1>1, <1>3, ElementOfSeq
  <2>2. QED
    BY <2>1 DEF Record19
<1>5. PICK m \in DOMAIN log : \A i \in DOMAIN log : log[i].cycle <= log[m].cycle
  <2>1. \A i \in 1..Len(log) : c[i] \in Nat
    BY <1>3, <1>4
  <2>2. PICK m \in 1..Len(log) : \A i \in 1..Len(log) : c[i] <= c[m]
    BY <1>3, <2>1, Largest
  <2>3. QED
    BY <1>3, <2>2
<1> DEFINE M == Overlay!maxcyc(Rows19)
           Values == {Rows19[i].cycle : i \in DOMAIN Rows19}
<1>6. M \in Values /\ \A i \in DOMAIN Rows19 : Rows19[i].cycle <= M
  <2>1. Rows19[m].cycle \in Values /\ \A i \in DOMAIN Rows19 : Rows19[i].cycle <= Rows19[m].cycle
    BY <1>2, <1>5
  <2>2. \E x \in Values : \A i \in DOMAIN Rows19 : Rows19[i].cycle <= x
    BY <2>1
  <2>3. QED
    BY <2>2 DEF Overlay!maxcyc
<1>7. M \in Nat
  BY <1>2, <1>4, <1>6
<1>8. \A i \in DOMAIN Rows19 : Rows19[i].cycle \in 1..(M + 1)
  BY <1>2, <1>4, <1>6, <1>7
<1>9. \A pt \in Repl19 : \E i \in DOMAIN Rows19 : pt.x = Rows19[i].cycle
  BY DEF Repl19, Overlay!Curve, Overlay!cycles
<1>10. QED
  BY <1>8, <1>9 DEF Overlay!shade

LEMMA OverlayOnAxis == OverlayInv => Overlay!CyclesOnAxis
BY OnTheAxis DEF OverlayInv, Overlay!CyclesOnAxis

\* The first of an arm's rows is a point at zero.
LEMMA StartsAtZero ==
    ASSUME NEW log \in Seq(Record19), DOMAIN Overlay!load(log) # {}
    PROVE  \E pt \in Overlay!Curve(Overlay!rel(Overlay!load(log)), Overlay!col(Overlay!load(log))) :
              pt.x = 0
<1> DEFINE kept == Overlay!load(log)
           f == CHOOSE i \in DOMAIN kept : \A j \in DOMAIN kept : i <= j
<1>1. DOMAIN kept \subseteq DOMAIN log /\ \A i \in DOMAIN kept : kept[i] = log[i]
  BY DEF Overlay!load
<1>2. DOMAIN kept \subseteq Nat
  BY <1>1
<1>3. f \in DOMAIN kept
  BY <1>2, LeastNat
<1>4. kept[f].cycle \in Nat
  <2>1. kept[f] \in Record19
    BY <1>1, <1>3, ElementOfSeq
  <2>2. QED
    BY <2>1 DEF Record19
<1> HIDE DEF kept
<1>5. DOMAIN Overlay!rel(kept) = DOMAIN kept
      /\ Overlay!rel(kept)[f] = kept[f].cycle - Overlay!first(kept).cycle
  BY <1>3 DEF Overlay!rel
<1>6. Overlay!first(kept) = kept[f]
  BY DEF Overlay!first
<1>7. Overlay!rel(kept)[f] = 0
  BY <1>4, <1>5, <1>6
<1>8. [x |-> Overlay!rel(kept)[f], y |-> Overlay!col(kept)[f]]
         \in Overlay!Curve(Overlay!rel(kept), Overlay!col(kept))
  BY <1>3, <1>5 DEF Overlay!Curve
<1>9. QED
  BY <1>7, <1>8 DEF kept

LEMMA SurgeStep == ASSUME OverlayInv, Overlay!PlotSurge PROVE Overlay!ArmsAligned'
<1> DEFINE kept(a) == Overlay!load(archive[a])
           curve(a) == Overlay!Curve(Overlay!rel(kept(a)), Overlay!col(kept(a)))
           A == {"surgeA", "surgeB"}
<1>1. \A panel \in {"rpm", "itl", "control"} : surge'[panel] = [a \in A |-> curve(a)]
  BY DEF Overlay!PlotSurge
<1>2. \A a \in A : archive[a] # None /\ DOMAIN kept(a) # {}
  BY DEF Overlay!PlotSurge
<1>3. \A a \in A : archive[a] \in Seq(Record19)
  BY <1>2, OverlayAssumption DEF OverlayInv, Overlay!Sources
<1>4. ASSUME NEW a \in A PROVE \E pt \in curve(a) : pt.x = 0
  BY <1>2, <1>3, StartsAtZero
<1> HIDE DEF curve
<1>5. QED
  BY <1>1, <1>4 DEF Overlay!ArmsAligned

LEMMA OverlayStep == ASSUME OverlayInv, Overlay!Next PROVE OverlayInv'
<1> USE DEF OverlayInv
<1>0. {"partA", "partB", "bonus"} \subseteq Overlay!Parts
  BY DEF Overlay!Parts
<1>1. archive' = archive
  BY DEF Overlay!Next, Overlay!PlotSurge, Overlay!PartA, Overlay!PartB, Overlay!Bonus
<1>2. Rows19' = Rows19 /\ Repl19' = Repl19 /\ Overlay!shade(Rows19)' = Overlay!shade(Rows19)
  BY <1>1 DEF Rows19, Repl19
<1>3. ASSUME surge' = surge PROVE Overlay!ArmsAligned'
  BY <1>3 DEF Overlay!ArmsAligned
<1>4. CASE Overlay!PlotSurge
  <2>1. part' = part
    BY <1>4 DEF Overlay!PlotSurge
  <2>2. Overlay!ArmsAligned'
    BY <1>4, SurgeStep
  <2>3. QED
    BY <1>1, <1>2, <2>1, <2>2
<1>5. CASE Overlay!PartA
  <2>1. CASE Rows19 = <<>>
    <3>1. UNCHANGED <<part, surge>>
      BY <1>5, <2>1 DEF Overlay!PartA, Rows19
    <3>2. QED
      BY <1>1, <1>2, <1>3, <3>1
  <2>2. CASE Rows19 # <<>>
    <3> DEFINE new == [ttft |-> Overlay!LogCurve(Rows19), repl |-> Repl19,
                       xlim |-> Overlay!shade(Rows19)]
    <3>1. part' = [part EXCEPT !["partA"] = new] /\ surge' = surge
      BY <1>5, <2>2 DEF Overlay!PartA, Rows19, Repl19
    <3>2. new.repl = Repl19 /\ new.xlim = Overlay!shade(Rows19)
      OBVIOUS
    <3> HIDE DEF new
    <3>3. part' = [p \in Overlay!Parts |-> part'[p]] /\ part'["partA"] = new
      BY <1>0, <3>1
    <3>4. QED
      BY <1>1, <1>2, <1>3, <2>2, <3>1, <3>2, <3>3
  <2>3. QED
    BY <2>1, <2>2
<1>6. CASE Overlay!PartB \/ Overlay!Bonus
  <2>1. surge' = surge /\ (part' = part \/ \E p \in {"partB", "bonus"} : \E new :
                              part' = [part EXCEPT ![p] = new])
    BY <1>6 DEF Overlay!PartB, Overlay!Bonus
  <2>2. part' = [p \in Overlay!Parts |-> part'[p]] /\ part'["partA"] = part["partA"]
    BY <1>0, <2>1
  <2>3. QED
    BY <1>1, <1>2, <1>3, <2>1, <2>2
<1>7. QED
  BY <1>4, <1>5, <1>6 DEF Overlay!Next

-----------------------------------------------------------------------------
(***************************************************************************)
(* The phase clock.  The functions Start and Chained are recursive: that   *)
(* they exist is shown for the shortest sequence that could lack one.  The *)
(* multiplier is a fraction of two products, so what a ramp amounts to is  *)
(* compared by cross-multiplication (Scale, SizeAtMost); the change in one *)
(* unit of time (ClockStep) adds up to that of a cycle (ClockSpan).        *)
(***************************************************************************)

\* the positive numbers, and the fractions the phases compute with
Pos == Nat \ {0}
Fraction == Int \X Pos

\* A common positive factor does not matter to an order.
LEMMA Scale == ASSUME NEW x \in Int, NEW y \in Int, NEW c \in Pos PROVE x <= y <=> c * x <= c * y
BY DEF Pos

\* Products, differences and sizes of fractions are fractions.
LEMMA FractionOps ==
    ASSUME NEW a \in Fraction, NEW b \in Fraction
    PROVE  /\ Ph!Times(a, b) \in Fraction
           /\ Ph!Minus(a, b) \in Fraction
           /\ Ph!Size(a) \in Fraction
<1>1. a[1] \in Int /\ b[1] \in Int /\ a[2] \in Pos /\ b[2] \in Pos
  BY DEF Fraction
<1>2. \A x, y \in Pos : x * y \in Pos
  BY DEF Pos
<1>. QED BY <1>1, <1>2 DEF Fraction, Ph!Times, Ph!Minus, Ph!Size, Pos

\* To be of size b at most is to lie between -b and b.
LEMMA SizeAtMost ==
    ASSUME NEW a \in Fraction, NEW b \in Fraction
    PROVE  Ph!AtMost(Ph!Size(a), b) <=> a[1] * b[2] <= b[1] * a[2] /\ -(b[1] * a[2]) <= a[1] * b[2]
<1>1. a[1] \in Int /\ b[1] \in Int /\ a[2] \in Pos /\ b[2] \in Pos
  BY DEF Fraction
<1>. QED BY <1>1 DEF Ph!AtMost, Ph!Size, Pos

\* From a to b no further than k times s, from b to c no further than s.
LEMMA Triangle ==
    ASSUME NEW a \in Fraction, NEW b \in Fraction, NEW c \in Fraction,
           NEW p \in Int, NEW q \in Pos, NEW k \in Nat,
           Ph!AtMost(Ph!Size(Ph!Minus(b, a)), <<k * p, q>>),
           Ph!AtMost(Ph!Size(Ph!Minus(c, b)), <<p, q>>)
    PROVE  Ph!AtMost(Ph!Size(Ph!Minus(c, a)), <<(k + 1) * p, q>>)
<1> DEFINE x == b[1] * a[2] - a[1] * b[2]
           y == c[1] * b[2] - b[1] * c[2]
           z == c[1] * a[2] - a[1] * c[2]
<1>1. /\ a[1] \in Int /\ b[1] \in Int /\ c[1] \in Int
      /\ a[2] \in Pos /\ b[2] \in Pos /\ c[2] \in Pos
  BY DEF Fraction
<1>2. x \in Int /\ y \in Int /\ z \in Int
  BY <1>1 DEF Pos
<1>3. /\ Ph!Minus(b, a) = <<x, b[2] * a[2]>> /\ Ph!Minus(c, b) = <<y, c[2] * b[2]>>
      /\ Ph!Minus(c, a) = <<z, c[2] * a[2]>>
  BY DEF Ph!Minus
<1>4. /\ Ph!Minus(b, a) \in Fraction /\ Ph!Minus(c, b) \in Fraction /\ Ph!Minus(c, a) \in Fraction
      /\ <<k * p, q>> \in Fraction /\ <<p, q>> \in Fraction /\ <<(k + 1) * p, q>> \in Fraction
  <2>1. k * p \in Int /\ (k + 1) * p \in Int
    OBVIOUS
  <2>. QED BY <2>1, FractionOps DEF Fraction
<1>5. x * q <= k * p * (b[2] * a[2]) /\ -(k * p * (b[2] * a[2])) <= x * q
  BY <1>3, <1>4, SizeAtMost
<1>6. y * q <= p * (c[2] * b[2]) /\ -(p * (c[2] * b[2])) <= y * q
  BY <1>3, <1>4, SizeAtMost
<1>7. b[2] * z = c[2] * x + a[2] * y
  BY <1>1 DEF Pos
<1> HIDE DEF x, y, z
<1>8. \A e, f \in Int, w \in Pos : e <= f <=> w * e <= w * f
  BY Scale
<1>9. /\ c[2] * (x * q) <= c[2] * (k * p * (b[2] * a[2]))
      /\ c[2] * (-(k * p * (b[2] * a[2]))) <= c[2] * (x * q)
  BY <1>1, <1>2, <1>5, <1>8 DEF Pos
<1>10. /\ a[2] * (y * q) <= a[2] * (p * (c[2] * b[2]))
       /\ a[2] * (-(p * (c[2] * b[2]))) <= a[2] * (y * q)
  BY <1>1, <1>2, <1>6, <1>8 DEF Pos
<1>11. b[2] * z * q = c[2] * (x * q) + a[2] * (y * q)
  BY <1>1, <1>2, <1>7 DEF Pos
<1> DEFINE u == (k + 1) * p * (c[2] * a[2])
<1>12. u \in Int /\ b[2] * u = c[2] * (k * p * (b[2] * a[2])) + a[2] * (p * (c[2] * b[2]))
  BY <1>1 DEF Pos
<1> HIDE DEF u
<1>13. b[2] * (z * q) <= b[2] * u /\ b[2] * (-u) <= b[2] * (z * q)
  <2> DEFINE e == c[2] * (x * q)
             f == a[2] * (y * q)
             g == c[2] * (k * p * (b[2] * a[2]))
             h == a[2] * (p * (c[2] * b[2]))
  <2>1. e \in Int /\ f \in Int /\ g \in Int /\ h \in Int
    BY <1>1, <1>2 DEF Pos
  <2>2. e <= g /\ -g <= e
    BY <1>1, <1>9 DEF Pos
  <2>3. f <= h /\ -h <= f
    BY <1>1, <1>10 DEF Pos
  <2>4. b[2] * (z * q) = e + f /\ b[2] * u = g + h /\ b[2] * (-u) = -(g + h)
    BY <1>1, <1>2, <1>11, <1>12 DEF Pos
  <2> HIDE DEF e, f, g, h
  <2>. QED BY <2>1, <2>2, <2>3, <2>4
<1>14. z * q <= u /\ -u <= z * q
  <2>1. z * q \in Int /\ -u \in Int
    BY <1>2, <1>12 DEF Pos
  <2>. QED BY <1>1, <1>8, <1>12, <1>13, <2>1
<1>. QED BY <1>3, <1>4, <1>14, SizeAtMost DEF u

\* what Start(ps) is defined to be, up to the n-th entry
IsStart(ps, n, f) ==
    f = [i \in 1..n |-> IF i = 1 THEN [time |-> 0, mult |-> <<1, 1>>]
                        ELSE [time |-> f[i - 1].time + ps[i - 1].duration,
                              mult |-> Ph!Times(f[i - 1].mult, ps[i - 1].ratio)]]

\* The function of the starts exists, for any phases.
LEMMA StartExists ==
    ASSUME NEW ps, NEW n \in Nat \ {0} PROVE \E f : IsStart(ps, n, f)
<1> DEFINE first == [time |-> 0, mult |-> <<1, 1>>]
           after(e, i) == [time |-> e.time + ps[i - 1].duration,
                           mult |-> Ph!Times(e.mult, ps[i - 1].ratio)]
           Has(k) == \E f : f = [i \in 1..k |-> IF i = 1 THEN first ELSE after(f[i - 1], i)]
           T == {k \in 1..n : ~Has(k)}
<1>1. Has(n) => \E f : IsStart(ps, n, f)
  BY DEF IsStart
<1> HIDE DEF first, after
<1>2. Has(1)
  <2> DEFINE f == [i \in 1..1 |-> first]
  <2>1. f = [i \in 1..1 |-> IF i = 1 THEN first ELSE after(f[i - 1], i)]
    OBVIOUS
  <2>. QED BY <2>1
<1>3. ASSUME NEW k \in Nat \ {0}, Has(k) PROVE Has(k + 1)
  <2>1. PICK f : f = [i \in 1..k |-> IF i = 1 THEN first ELSE after(f[i - 1], i)]
    BY <1>3
  <2> DEFINE g == [i \in 1..(k + 1) |-> IF i = k + 1 THEN after(f[k], k + 1) ELSE f[i]]
  <2>2. \A i \in 1..(k + 1) : g[i] = IF i = 1 THEN first ELSE after(g[i - 1], i)
    BY <2>1
  <2>3. g = [i \in 1..(k + 1) |-> IF i = 1 THEN first ELSE after(g[i - 1], i)]
    BY <2>2
  <2>. QED BY <2>3
<1> HIDE DEF Has
<1>4. SUFFICES ASSUME ~Has(n) PROVE FALSE
  BY <1>1
<1>5. PICK k \in T : \A j \in T : k <= j
  <2>1. T \in SUBSET Nat /\ T # {}
    BY <1>4
  <2>. QED BY <2>1, LeastNat
<1>6. k \in 1..n /\ ~Has(k) /\ k # 1
  BY <1>2, <1>5
<1>7. k - 1 \in 1..n /\ k - 1 \in Nat \ {0} /\ Has(k - 1)
  BY <1>5, <1>6
<1>8. Has(k - 1 + 1)
  BY <1>3, <1>7
<1>. QED BY <1>6, <1>8

\* A phase starts when the one before it ends, where that one has led.
LEMMA StartDef ==
    ASSUME NEW ps, NEW n \in Nat, Len(ps) = n
    PROVE  /\ Ph!Start(ps)[1] = [time |-> 0, mult |-> <<1, 1>>]
           /\ \A i \in 1..n :
                 Ph!Start(ps)[i + 1] =
                     [time |-> Ph!Start(ps)[i].time + ps[i].duration,
                      mult |-> Ph!Times(Ph!Start(ps)[i].mult, ps[i].ratio)]
<1>1. Ph!Start(ps) = CHOOSE f : IsStart(ps, Len(ps) + 1, f)
  BY DEF Ph!Start, IsStart
<1>2. IsStart(ps, n + 1, Ph!Start(ps))
  <2>1. \E f : IsStart(ps, n + 1, f)
    BY StartExists
  <2>. QED BY <1>1, <2>1
<1> DEFINE at == Ph!Start(ps)
<1>3. at = [i \in 1..(n + 1) |-> IF i = 1 THEN [time |-> 0, mult |-> <<1, 1>>]
                        ELSE [time |-> at[i - 1].time + ps[i - 1].duration,
                              mult |-> Ph!Times(at[i - 1].mult, ps[i - 1].ratio)]]
  BY <1>2 DEF IsStart
<1> HIDE DEF at
<1>4. at[1] = [time |-> 0, mult |-> <<1, 1>>]
  BY <1>3
<1>5. ASSUME NEW i \in 1..n
      PROVE  at[i + 1] = [time |-> at[i].time + ps[i].duration,
                          mult |-> Ph!Times(at[i].mult, ps[i].ratio)]
  <2>1. i + 1 \in 1..(n + 1) /\ i + 1 # 1 /\ (i + 1) - 1 = i
    OBVIOUS
  <2>. QED BY <1>3, <2>1
<1>. QED BY <1>4, <1>5 DEF at

\* The products of the ratios, one by one; a terminal phase leaves them as they are.
LEMMA ChainedDef ==
    ASSUME NEW ps, NEW n \in Nat, Len(ps) = n
    PROVE  /\ Ph!Chained(ps)[0] = <<1, 1>>
           /\ \A i \in 1..n :
                 Ph!Chained(ps)[i] =
                     Ph!Times(Ph!Chained(ps)[i - 1],
                              IF ps[i].duration = 0 THEN <<1, 1>> ELSE ps[i].ratio)
<1> DEFINE leads(i) == IF ps[i].duration = 0 THEN <<1, 1>> ELSE ps[i].ratio
           Is(f) == f = [i \in 0..n |-> IF i = 0 THEN <<1, 1>>
                                        ELSE Ph!Times(f[i - 1], leads(i))]
           led == [i \in 1..n |-> [duration |-> 0, ratio |-> leads(i)]]
<1>1. Ph!Chained(ps) = CHOOSE f : Is(f)
  BY DEF Ph!Chained
<1> HIDE DEF leads
<1>2. \E f : Is(f)
  <2>1. PICK f : IsStart(led, n + 1, f)
    <3> HIDE DEF led
    <3>1. n + 1 \in Nat \ {0}
      OBVIOUS
    <3>. QED BY <3>1, StartExists
  <2> DEFINE c == [i \in 0..n |-> f[i + 1].mult]
  <2>2. c[0] = <<1, 1>>
    <3>1. f[1].mult = <<1, 1>> /\ 0 \in 0..n /\ 0 + 1 = 1
      BY <2>1 DEF IsStart
    <3>. QED BY <3>1
  <2>3. ASSUME NEW i \in 1..n PROVE c[i] = Ph!Times(c[i - 1], leads(i))
    <3>1. i + 1 \in 1..(n + 1) /\ i + 1 # 1 /\ (i + 1) - 1 = i /\ led[i].ratio = leads(i)
      OBVIOUS
    <3> HIDE DEF led
    <3>2. f[i + 1].mult = Ph!Times(f[i].mult, leads(i))
      <4>1. f[i + 1] = [time |-> f[i].time + led[i].duration,
                        mult |-> Ph!Times(f[i].mult, led[i].ratio)]
        BY <2>1, <3>1 DEF IsStart
      <4>. QED BY <3>1, <4>1
    <3>3. i \in 0..n /\ i - 1 \in 0..n /\ (i - 1) + 1 = i
      OBVIOUS
    <3>4. c[i] = f[i + 1].mult /\ c[i - 1] = f[i].mult
      BY <3>3
    <3>. QED BY <3>2, <3>4
  <2> HIDE DEF c
  <2>4. \A i \in 0..n : c[i] = IF i = 0 THEN <<1, 1>> ELSE Ph!Times(c[i - 1], leads(i))
    BY <2>2, <2>3
  <2>5. Is(c)
    <3> DEFINE e(i) == IF i = 0 THEN <<1, 1>> ELSE Ph!Times(c[i - 1], leads(i))
    <3>1. \A i \in 0..n : c[i] = e(i)
      BY <2>4
    <3>2. c = [i \in 0..n |-> c[i]]
      BY DEF c
    <3> HIDE DEF e
    <3>3. c = [i \in 0..n |-> e(i)]
      BY <3>1, <3>2
    <3>. QED BY <3>3 DEF e
  <2> HIDE DEF Is, c
  <2>. QED BY <2>5
<1> HIDE DEF Is
<1>3. Is(Ph!Chained(ps))
  BY <1>1, <1>2
<1> DEFINE c == Ph!Chained(ps)
<1>4. c = [i \in 0..n |-> IF i = 0 THEN <<1, 1>> ELSE Ph!Times(c[i - 1], leads(i))]
  BY <1>3 DEF Is
<1> HIDE DEF c
<1>5. c[0] = <<1, 1>> /\ \A i \in 1..n : c[i] = Ph!Times(c[i - 1], leads(i))
  <2>1. 0 \in 0..n /\ \A i \in 1..n : i \in 0..n /\ i # 0
    OBVIOUS
  <2>. QED BY <1>4, <2>1
<1> USE DEF leads
<1>. QED BY <1>5 DEF c

\* a sequence of phases that was loaded
Loaded(ps) ==
    /\ ps \in Seq([duration : Int, ratio : Fraction])
    /\ Ph!Accepted(ps)

\* Only the last of the loaded phases may be terminal.
LEMMA LoadedPhases ==
    ASSUME NEW ps, Loaded(ps)
    PROVE  /\ Len(ps) \in Nat \ {0} /\ DOMAIN ps = 1..Len(ps)
           /\ \A i \in 1..Len(ps) :
                 /\ ps[i].duration \in Nat /\ ps[i].ratio \in Fraction
                 /\ i # Len(ps) => ps[i].duration \in Nat \ {0}
<1>1. /\ Len(ps) \in Nat /\ DOMAIN ps = 1..Len(ps) /\ ps # <<>>
      /\ \A i \in 1..Len(ps) : ps[i] \in [duration : Int, ratio : Fraction]
  BY LenProperties, ElementOfSeq DEF Loaded, Ph!Accepted
<1>2. Len(ps) # 0
  BY <1>1, EmptySeq DEF Loaded
<1>3. ASSUME NEW i \in 1..Len(ps)
      PROVE  /\ ps[i].duration \in Nat /\ ps[i].ratio \in Fraction
             /\ i # Len(ps) => ps[i].duration \in Nat \ {0}
  <2>1. ps[i].duration \in Int /\ ps[i].ratio \in Fraction
    BY <1>1
  <2>2. ps[i].duration >= 0 /\ (ps[i].duration = 0 => i = Len(ps))
    BY <1>1 DEF Loaded, Ph!Accepted
  <2>. QED BY <2>1, <2>2
<1>. QED BY <1>1, <1>2, <1>3

\* When the phases start: in order, at multipliers that are fractions.
LEMMA StartType ==
    ASSUME NEW ps, Loaded(ps)
    PROVE  \A i \in 1..(Len(ps) + 1) :
              Ph!Start(ps)[i].time \in Nat /\ Ph!Start(ps)[i].mult \in Fraction
<1> DEFINE n == Len(ps)
           at == Ph!Start(ps)
           Typed(i) == at[i].time \in Nat /\ at[i].mult \in Fraction
           T == {i \in 1..(n + 1) : ~Typed(i)}
<1>1. /\ n \in Nat \ {0}
      /\ \A i \in 1..n : ps[i].duration \in Nat /\ ps[i].ratio \in Fraction
  BY LoadedPhases
<1> HIDE DEF n
<1>2. /\ at[1] = [time |-> 0, mult |-> <<1, 1>>]
      /\ \A i \in 1..n : at[i + 1] = [time |-> at[i].time + ps[i].duration,
                                      mult |-> Ph!Times(at[i].mult, ps[i].ratio)]
  BY <1>1, StartDef DEF n
<1> HIDE DEF at
<1>3. Typed(1)
  BY <1>2 DEF Fraction, Pos
<1>4. ASSUME NEW i \in 1..n, Typed(i) PROVE Typed(i + 1)
  <2>1. Ph!Times(at[i].mult, ps[i].ratio) \in Fraction
    BY <1>1, <1>4, FractionOps
  <2>2. at[i + 1] = [time |-> at[i].time + ps[i].duration,
                     mult |-> Ph!Times(at[i].mult, ps[i].ratio)]
    BY <1>2
  <2>3. at[i].time + ps[i].duration \in Nat
    BY <1>1, <1>4
  <2>. QED BY <2>1, <2>2, <2>3
<1> HIDE DEF Typed
<1>5. SUFFICES ASSUME T # {} PROVE FALSE
  BY DEF Typed, n, at
<1>6. PICK k \in T : \A j \in T : k <= j
  <2>1. T \in SUBSET Nat
    BY <1>1
  <2>. QED BY <1>5, <2>1, LeastNat
<1>7. k \in 1..(n + 1) /\ ~Typed(k) /\ k # 1
  BY <1>3, <1>6
<1>8. k - 1 \in 1..n /\ k - 1 \notin T /\ (k - 1) + 1 = k
  BY <1>1, <1>6, <1>7
<1>9. Typed(k - 1)
  BY <1>1, <1>8
<1>10. Typed((k - 1) + 1)
  BY <1>4, <1>8, <1>9
<1>. QED BY <1>7, <1>8, <1>10

\* A later phase starts no earlier.
LEMMA StartsInOrder ==
    ASSUME NEW ps, Loaded(ps), NEW i \in 1..(Len(ps) + 1), NEW j \in 1..(Len(ps) + 1), i <= j
    PROVE  Ph!Start(ps)[i].time <= Ph!Start(ps)[j].time
<1> DEFINE n == Len(ps)
           at == Ph!Start(ps)
           T == {k \in i..(n + 1) : at[k].time < at[i].time}
<1>1. n \in Nat \ {0} /\ \A k \in 1..n : ps[k].duration \in Nat
  BY LoadedPhases
<1>2. \A k \in 1..(n + 1) : at[k].time \in Nat
  BY StartType
<1>3. ASSUME NEW k \in 1..n PROVE at[k + 1].time = at[k].time + ps[k].duration
  <2>1. at[k + 1] = [time |-> at[k].time + ps[k].duration,
                     mult |-> Ph!Times(at[k].mult, ps[k].ratio)]
    BY <1>1, StartDef
  <2> HIDE DEF at
  <2>. QED BY <2>1
<1>a. i \in 1..(n + 1) /\ j \in 1..(n + 1)
  OBVIOUS
<1> HIDE DEF n, at
<1>4. SUFFICES ASSUME T # {} PROVE FALSE
  BY <1>a, <1>1, <1>2 DEF at
<1>5. PICK k \in T : \A l \in T : k <= l
  <2>1. T \in SUBSET Nat
    BY <1>1, <1>a
  <2>. QED BY <1>4, <2>1, LeastNat
<1>6. k \in i..(n + 1) /\ at[k].time < at[i].time /\ k # i
  BY <1>5, <1>2, <1>a
<1>7. k - 1 \in i..(n + 1) /\ k - 1 \in 1..n /\ k - 1 \notin T /\ (k - 1) + 1 = k
  BY <1>1, <1>a, <1>5, <1>6
<1>8. at[k].time = at[k - 1].time + ps[k - 1].duration
  BY <1>3, <1>7
<1>9. ~ (at[k - 1].time < at[i].time)
  BY <1>7
<1>10. at[i].time \in Nat /\ at[k - 1].time \in Nat /\ ps[k - 1].duration \in Nat
  BY <1>1, <1>2, <1>7, <1>a
<1>. QED BY <1>6, <1>8, <1>9, <1>10

\* The product of the ratios is where the phase after them starts, unless one is terminal.
LEMMA ChainedIsStart ==
    ASSUME NEW ps, Loaded(ps), NEW k \in 0..Len(ps), \A i \in 1..k : ps[i].duration # 0
    PROVE  Ph!Chained(ps)[k] = Ph!Start(ps)[k + 1].mult
<1> DEFINE n == Len(ps)
           at == Ph!Start(ps)
           c == Ph!Chained(ps)
           T == {l \in 0..k : c[l] # at[l + 1].mult}
<1>1. n \in Nat \ {0} /\ k \in 0..n
  BY LoadedPhases
<1>2. at[1].mult = <<1, 1>> /\ \A i \in 1..n : at[i + 1].mult = Ph!Times(at[i].mult, ps[i].ratio)
  <2>1. /\ at[1] = [time |-> 0, mult |-> <<1, 1>>]
        /\ \A i \in 1..n : at[i + 1] = [time |-> at[i].time + ps[i].duration,
                                        mult |-> Ph!Times(at[i].mult, ps[i].ratio)]
    BY <1>1, StartDef
  <2> HIDE DEF at
  <2>2. at[1].mult = <<1, 1>>
    BY <2>1
  <2>3. ASSUME NEW i \in 1..n PROVE at[i + 1].mult = Ph!Times(at[i].mult, ps[i].ratio)
    <3>1. at[i + 1] = [time |-> at[i].time + ps[i].duration,
                       mult |-> Ph!Times(at[i].mult, ps[i].ratio)]
      BY <2>1
    <3>. QED BY <3>1
  <2>. QED BY <2>2, <2>3
<1>3. c[0] = <<1, 1>> /\ \A i \in 1..k : c[i] = Ph!Times(c[i - 1], ps[i].ratio)
  <2>1. /\ c[0] = <<1, 1>>
        /\ \A i \in 1..n :
              c[i] = Ph!Times(c[i - 1], IF ps[i].duration = 0 THEN <<1, 1>> ELSE ps[i].ratio)
    BY <1>1, ChainedDef
  <2> HIDE DEF c, n
  <2>2. ASSUME NEW i \in 1..k PROVE c[i] = Ph!Times(c[i - 1], ps[i].ratio)
    <3>1. i \in 1..n /\ ps[i].duration # 0
      BY <1>1
    <3>2. c[i] = Ph!Times(c[i - 1], IF ps[i].duration = 0 THEN <<1, 1>> ELSE ps[i].ratio)
      BY <2>1, <3>1
    <3>. QED BY <3>1, <3>2
  <2>. QED BY <2>1, <2>2
<1> HIDE DEF n, at, c
<1>4. SUFFICES ASSUME T # {} PROVE FALSE
  BY <1>1 DEF at, c
<1>5. PICK l \in T : \A m \in T : l <= m
  <2>1. T \in SUBSET Nat
    BY <1>1
  <2>. QED BY <1>4, <2>1, LeastNat
<1>6. l \in 1..k /\ c[l] # at[l + 1].mult
  BY <1>1, <1>2, <1>3, <1>5
<1>7. l - 1 \in 0..k /\ l - 1 \notin T /\ (l - 1) + 1 = l
  BY <1>1, <1>5, <1>6
<1>8. c[l - 1] = at[l].mult
  BY <1>7
<1>. QED BY <1>1, <1>2, <1>3, <1>6, <1>8

\* Fractions are ordered, whatever their terms.
LEMMA FractionOrder ==
    ASSUME NEW a \in Fraction, NEW b \in Fraction
    PROVE  /\ Ph!AtMost(a, a)
           /\ Ph!AtMost(a, b) \/ Ph!AtMost(b, a)
           /\ Ph!Equal(a, a)
           /\ Ph!Equal(a, b) => Ph!Equal(b, a)
           /\ a[1] >= 0 => Ph!AtMost(Ph!Size(Ph!Minus(b, b)), a)
<1>1. a[1] \in Int /\ b[1] \in Int /\ a[2] \in Pos /\ b[2] \in Pos
  BY DEF Fraction
<1>2. ASSUME a[1] >= 0 PROVE Ph!AtMost(Ph!Size(Ph!Minus(b, b)), a)
  <2>1. Ph!Minus(b, b) = <<0, b[2] * b[2]>> /\ b[2] * b[2] \in Pos
    BY <1>1 DEF Ph!Minus, Pos
  <2>. QED BY <1>1, <1>2, <2>1 DEF Ph!AtMost, Ph!Size, Pos
<1>. QED BY <1>1, <1>2 DEF Ph!AtMost, Ph!Equal, Pos

\* The order of fractions and their equality are transitive.
LEMMA FractionTransitive ==
    ASSUME NEW a \in Fraction, NEW b \in Fraction, NEW c \in Fraction
    PROVE  /\ Ph!AtMost(a, b) /\ Ph!AtMost(b, c) => Ph!AtMost(a, c)
           /\ Ph!Equal(a, b) /\ Ph!Equal(b, c) => Ph!Equal(a, c)
<1>1. /\ a[1] \in Int /\ b[1] \in Int /\ c[1] \in Int
      /\ a[2] \in Pos /\ b[2] \in Pos /\ c[2] \in Pos
  BY DEF Fraction
<1>2. \A e, f \in Int, w \in Pos : e <= f <=> w * e <= w * f
  BY Scale
<1> DEFINE x == a[1] * c[2]
           y == c[1] * a[2]
<1>3. x \in Int /\ y \in Int
  BY <1>1 DEF Pos
<1>4. ASSUME Ph!AtMost(a, b), Ph!AtMost(b, c) PROVE Ph!AtMost(a, c)
  <2>1. c[2] * (a[1] * b[2]) <= c[2] * (b[1] * a[2]) /\ a[2] * (b[1] * c[2]) <= a[2] * (c[1] * b[2])
    BY <1>1, <1>2, <1>4 DEF Ph!AtMost, Pos
  <2>2. b[2] * x <= b[2] * y
    BY <1>1, <2>1 DEF Pos
  <2> HIDE DEF x, y
  <2>3. x <= y
    BY <1>1, <1>2, <1>3, <2>2
  <2>. QED BY <2>3 DEF Ph!AtMost, x, y
<1>5. ASSUME Ph!Equal(a, b), Ph!Equal(b, c) PROVE Ph!Equal(a, c)
  <2>1. c[2] * (a[1] * b[2]) = c[2] * (b[1] * a[2]) /\ a[2] * (b[1] * c[2]) = a[2] * (c[1] * b[2])
    BY <1>5 DEF Ph!Equal
  <2>2. b[2] * x = b[2] * y
    BY <1>1, <2>1 DEF Pos
  <2> HIDE DEF x, y
  <2>3. b[2] * x <= b[2] * y /\ b[2] * y <= b[2] * x
    BY <1>1, <1>3, <2>2 DEF Pos
  <2>4. x <= y /\ y <= x
    BY <1>1, <1>2, <1>3, <2>3
  <2>5. x = y
    BY <1>3, <2>4
  <2>. QED BY <2>5 DEF Ph!Equal, x, y
<1>. QED BY <1>4, <1>5

\* Equal fractions are equally far from a third.
LEMMA SameFraction ==
    ASSUME NEW a \in Fraction, NEW b \in Fraction, NEW c \in Fraction, NEW s \in Fraction,
           Ph!Equal(b, c), Ph!AtMost(Ph!Size(Ph!Minus(b, a)), s)
    PROVE  Ph!AtMost(Ph!Size(Ph!Minus(c, a)), s)
<1> DEFINE x == b[1] * a[2] - a[1] * b[2]
           z == c[1] * a[2] - a[1] * c[2]
           u == s[1] * (c[2] * a[2])
<1>1. /\ a[1] \in Int /\ b[1] \in Int /\ c[1] \in Int /\ s[1] \in Int
      /\ a[2] \in Pos /\ b[2] \in Pos /\ c[2] \in Pos /\ s[2] \in Pos
  BY DEF Fraction
<1>2. \A e, f \in Int, w \in Pos : e <= f <=> w * e <= w * f
  BY Scale
<1>3. /\ x \in Int /\ z \in Int /\ z * s[2] \in Int /\ u \in Int /\ -u \in Int
      /\ x * s[2] \in Int /\ s[1] * (b[2] * a[2]) \in Int
  BY <1>1 DEF Pos
<1>4. Ph!Minus(b, a) = <<x, b[2] * a[2]>> /\ Ph!Minus(c, a) = <<z, c[2] * a[2]>>
  BY DEF Ph!Minus
<1>5. Ph!Minus(b, a) \in Fraction /\ Ph!Minus(c, a) \in Fraction
  BY FractionOps
<1>6. x * s[2] <= s[1] * (b[2] * a[2]) /\ -(s[1] * (b[2] * a[2])) <= x * s[2]
  BY <1>4, <1>5, SizeAtMost
<1>7. b[1] * c[2] = c[1] * b[2]
  BY DEF Ph!Equal
<1>8. c[2] * x = b[2] * z
  <2>1. c[2] * x = (b[1] * c[2]) * a[2] - a[1] * b[2] * c[2]
    BY <1>1 DEF Pos
  <2>2. b[2] * z = (c[1] * b[2]) * a[2] - a[1] * b[2] * c[2]
    BY <1>1 DEF Pos
  <2>. QED BY <1>7, <2>1, <2>2
<1>9. c[2] * (x * s[2]) = b[2] * (z * s[2]) /\ c[2] * (s[1] * (b[2] * a[2])) = b[2] * u
  <2>1. c[2] * (x * s[2]) = (c[2] * x) * s[2] /\ b[2] * (z * s[2]) = (b[2] * z) * s[2]
    <3> HIDE DEF x, z
    <3>. QED BY <1>1, <1>3 DEF Pos
  <2>. QED BY <1>1, <1>8, <2>1 DEF Pos
<1> HIDE DEF x, z, u
<1>10. c[2] * (x * s[2]) <= c[2] * (s[1] * (b[2] * a[2]))
       /\ c[2] * (-(s[1] * (b[2] * a[2]))) <= c[2] * (x * s[2])
  BY <1>1, <1>2, <1>3, <1>6
<1>11. c[2] * (-(s[1] * (b[2] * a[2]))) = b[2] * (-u)
  <2> DEFINE g == s[1] * (b[2] * a[2])
  <2>1. g \in Int /\ c[2] * g = b[2] * u
    BY <1>3, <1>9
  <2> HIDE DEF g
  <2>2. c[2] * (-g) = b[2] * (-u)
    BY <1>1, <1>3, <2>1 DEF Pos
  <2>. QED BY <2>2 DEF g
<1>12. b[2] * (z * s[2]) <= b[2] * u /\ b[2] * (-u) <= b[2] * (z * s[2])
  BY <1>9, <1>10, <1>11
<1>13. z * s[2] <= u /\ -u <= z * s[2]
  BY <1>1, <1>2, <1>3, <1>12
<1>. QED BY <1>4, <1>5, <1>13, SizeAtMost DEF u

\* One of finitely many fractions is the largest.
LEMMA LargestFraction ==
    ASSUME NEW n \in Nat \ {0}, NEW c, \A i \in 1..n : c[i] \in Fraction
    PROVE  \E m \in 1..n : \A i \in 1..n : Ph!AtMost(c[i], c[m])
<1> DEFINE Has(k) == \E m \in 1..k : \A i \in 1..k : Ph!AtMost(c[i], c[m])
           T == {k \in 1..n : ~Has(k)}
<1>1. SUFFICES ASSUME ~Has(n) PROVE FALSE
  OBVIOUS
<1>2. PICK k \in T : \A j \in T : k <= j
  <2>1. n \in T /\ T \in SUBSET Nat
    BY <1>1
  <2> HIDE DEF T
  <2>. QED BY <2>1, LeastNat
<1>3. Has(1)
  <2>1. Ph!AtMost(c[1], c[1])
    BY FractionOrder
  <2>2. 1 \in 1..1 /\ \A i \in 1..1 : i = 1
    OBVIOUS
  <2>. QED BY <2>1, <2>2
<1>4. k \in 1..n /\ k # 1
  BY <1>2, <1>3
<1>5. k - 1 \in 1..n /\ k - 1 \notin T
  <2>1. k - 1 \in 1..n /\ ~(k <= k - 1)
    BY <1>4
  <2> HIDE DEF T
  <2>. QED BY <1>2, <2>1
<1>6. PICK m \in 1..(k - 1) : \A i \in 1..(k - 1) : Ph!AtMost(c[i], c[m])
  BY <1>5
<1>7. m \in 1..k /\ k \in 1..k /\ c[m] \in Fraction /\ c[k] \in Fraction
      /\ \A i \in 1..k : i = k \/ i \in 1..(k - 1)
  BY <1>4, <1>6
<1>8. \A i \in 1..k : c[i] \in Fraction
  BY <1>4
<1>9. CASE Ph!AtMost(c[k], c[m])
  <2>1. \A i \in 1..k : Ph!AtMost(c[i], c[m])
    BY <1>6, <1>7, <1>9
  <2>. QED BY <1>2, <1>7, <2>1
<1>10. CASE Ph!AtMost(c[m], c[k])
  <2>1. \A i \in 1..k : Ph!AtMost(c[i], c[k])
    BY <1>6, <1>7, <1>8, <1>10, FractionOrder, FractionTransitive
  <2>. QED BY <1>2, <1>7, <2>1
<1>. QED BY <1>7, <1>9, <1>10, FractionOrder

\* phase i is not over at t
Open(ps, t, i) == ps[i].duration = 0 \/ t < Ph!Start(ps)[i].time + ps[i].duration

\* the multiplier GetMultiplier returns
Multiplier(ps, t) == Ph!GetMultiplier(ps, t).mult

\* When every phase is over the multiplier is where the last one has led.
LEMMA AllOver ==
    ASSUME NEW ps, Loaded(ps), NEW t \in Nat, \A i \in 1..Len(ps) : ~ Open(ps, t, i)
    PROVE  Multiplier(ps, t) = Ph!Start(ps)[Len(ps) + 1].mult
<1> DEFINE open == {i \in DOMAIN ps :
                       ps[i].duration = 0 \/ t < Ph!Start(ps)[i].time + ps[i].duration}
<1>1. open = {}
  BY LoadedPhases DEF Open
<1>. QED BY <1>1 DEF Multiplier, Ph!GetMultiplier

\* The first phase that is not over decides the multiplier.
LEMMA FirstOpen ==
    ASSUME NEW ps, Loaded(ps), NEW t \in Nat, NEW i \in 1..Len(ps), Open(ps, t, i),
           \A j \in 1..(i - 1) : ~ Open(ps, t, j)
    PROVE  Multiplier(ps, t) = IF ps[i].duration = 0 THEN Ph!Start(ps)[i].mult
                               ELSE Ph!Ramp(ps, i, t)
<1> DEFINE open == {j \in DOMAIN ps :
                       ps[j].duration = 0 \/ t < Ph!Start(ps)[j].time + ps[j].duration}
<1>1. DOMAIN ps = 1..Len(ps) /\ Len(ps) \in Nat
  BY LoadedPhases
<1>2. open = {j \in 1..Len(ps) : Open(ps, t, j)}
  BY <1>1 DEF Open
<1>3. i \in open /\ open # {} /\ \A j \in open : i <= j
  <2>1. \A j \in 1..Len(ps) : j < i => j \in 1..(i - 1)
    BY <1>1
  <2>. QED BY <1>1, <1>2, <2>1
<1>4. open \subseteq Nat
  BY <1>1, <1>2
<1>5. Ph!GetMultiplier(ps, t) =
          [mult |-> IF ps[Ph!Min(open)].duration = 0 THEN Ph!Start(ps)[Ph!Min(open)].mult
                    ELSE Ph!Ramp(ps, Ph!Min(open), t),
           phase |-> Ph!Min(open)]
  BY <1>3 DEF Ph!GetMultiplier
<1> HIDE DEF open
<1>6. Ph!Min(open) = i
  <2>1. Ph!Min(open) = CHOOSE x \in open : \A y \in open : x <= y
    BY DEF Ph!Min
  <2>2. Ph!Min(open) \in open /\ \A y \in open : Ph!Min(open) <= y
    BY <1>3, <2>1
  <2> DEFINE x == Ph!Min(open)
  <2> HIDE DEF x
  <2>3. x \in Nat /\ i \in Nat /\ i <= x /\ x <= i
    BY <1>3, <1>4, <2>2 DEF x
  <2>4. x = i
    BY <2>3
  <2>. QED BY <2>4 DEF x
<1> DEFINE at == IF ps[i].duration = 0 THEN Ph!Start(ps)[i].mult ELSE Ph!Ramp(ps, i, t)
<1>7. Ph!GetMultiplier(ps, t) = [mult |-> at, phase |-> i]
  BY <1>5, <1>6
<1> HIDE DEF at
<1>8. Multiplier(ps, t) = at
  BY <1>7 DEF Multiplier
<1>. QED BY <1>8 DEF at

\* the steepness of phase i
Slope(ps, i) ==
    Ph!Times(Ph!Size(Ph!Minus(Ph!Chained(ps)[i], Ph!Chained(ps)[i - 1])), <<1, ps[i].duration>>)

\* what the ramps from a/b to (a * p)/(b * q) in d units of time amount to
LEMMA RampArithmetic ==
    ASSUME NEW a \in Int, NEW b \in Pos, NEW d \in Pos, NEW p \in Int, NEW q \in Pos, NEW x \in Int
    PROVE  /\ a * p * b - a * (b * q) = a * b * (p - q)
           /\ b * q * b \in Pos /\ b * q * b * d \in Pos /\ b * (d * q) \in Pos
           /\ (a * (d * q + (x + 1) * (p - q)) * (b * (d * q))
                  - a * (d * q + x * (p - q)) * (b * (d * q))) * (b * q * b * d)
                  = a * b * (p - q) * (b * (d * q) * (b * (d * q)))
<1> DEFINE B == b * (d * q)
           E == d * q + x * (p - q)
           F == d * q + (x + 1) * (p - q)
<1>1. \A e, f \in Pos : e * f \in Pos
  BY DEF Pos
<1>2. b * q * b \in Pos /\ b * q * b * d \in Pos /\ B \in Pos
  BY <1>1
<1>3. E \in Int /\ F \in Int /\ F = E + (p - q)
  BY DEF Pos
<1>4. b * q * b * d = b * B
  BY DEF Pos
<1>5. a * p * b - a * (b * q) = a * b * (p - q)
  BY DEF Pos
<1> HIDE DEF B, E, F
<1>6. a * F * B - a * E * B = a * (p - q) * B
  <2>1. a * F = a * E + a * (p - q)
    BY <1>3 DEF Pos
  <2> DEFINE g == a * F
             h == a * E
             k == a * (p - q)
  <2>2. g \in Int /\ h \in Int /\ k \in Int /\ g = h + k
    BY <1>3, <2>1 DEF Pos
  <2> HIDE DEF g, h, k
  <2>3. g * B - h * B = k * B
    BY <1>2, <2>2 DEF Pos
  <2>. QED BY <2>3 DEF g, h, k
<1>7. (a * F * B - a * E * B) * (b * B) = a * b * (p - q) * (B * B)
  <2> DEFINE u == p - q
  <2>1. u \in Int
    BY DEF Pos
  <2> HIDE DEF u
  <2>2. (a * u * B) * (b * B) = a * b * u * (B * B)
    BY <1>2, <2>1 DEF Pos
  <2>. QED BY <1>6, <2>2 DEF u
<1>. QED BY <1>2, <1>4, <1>5, <1>7 DEF B, E, F

\* Phase i, which is not terminal, starts at T with a/b and leads to (a * p)/(b * q) in d.
Leads(ps, i, a, b, d, p, q, T) ==
    /\ d = ps[i].duration
    /\ Ph!Start(ps)[i].time = T /\ Ph!Start(ps)[i].mult = <<a, b>>
    /\ Ph!Start(ps)[i + 1].time = T + d
    /\ Ph!Start(ps)[i + 1].mult = <<a * p, b * q>>
    /\ Ph!Chained(ps)[i - 1] = <<a, b>> /\ Ph!Chained(ps)[i] = <<a * p, b * q>>
    /\ \A t \in Nat : Ph!Ramp(ps, i, t) = <<a * (d * q + (t - T) * (p - q)), b * (d * q)>>

\* Every phase that is not terminal leads somewhere.
LEMMA RampOf ==
    ASSUME NEW ps, Loaded(ps), NEW i \in 1..Len(ps), ps[i].duration # 0
    PROVE  \E a \in Int, b \in Pos, d \in Pos, p \in Int, q \in Pos, T \in Nat :
              Leads(ps, i, a, b, d, p, q, T)
<1> DEFINE d == ps[i].duration
           r == ps[i].ratio
           T == Ph!Start(ps)[i].time
           m == Ph!Start(ps)[i].mult
<1>1. /\ Len(ps) \in Nat \ {0}
      /\ \A j \in 1..Len(ps) : /\ ps[j].duration \in Nat /\ ps[j].ratio \in Fraction
                               /\ j # Len(ps) => ps[j].duration \in Nat \ {0}
  BY LoadedPhases
<1>2. d \in Pos /\ r \in Fraction
  BY <1>1 DEF Pos
<1>3. T \in Nat /\ m \in Fraction
  <2>1. i \in 1..(Len(ps) + 1)
    BY <1>1
  <2>. QED BY <2>1, StartType
<1>4. Ph!Start(ps)[i + 1] = [time |-> T + d, mult |-> Ph!Times(m, r)]
  BY <1>1, StartDef
<1>5. Ph!Chained(ps)[i - 1] = m /\ Ph!Chained(ps)[i] = Ph!Times(m, r)
  <2>1. i - 1 \in 0..Len(ps) /\ (i - 1) + 1 = i /\ \A j \in 1..(i - 1) : ps[j].duration # 0
    BY <1>1
  <2>2. Ph!Chained(ps)[i - 1] = m
    BY <2>1, ChainedIsStart
  <2>3. Ph!Chained(ps)[i] =
            Ph!Times(Ph!Chained(ps)[i - 1], IF ps[i].duration = 0 THEN <<1, 1>> ELSE ps[i].ratio)
    BY <1>1, ChainedDef
  <2>. QED BY <2>2, <2>3
<1>6. \A t : Ph!Ramp(ps, i, t) = Ph!Times(m, <<d * r[2] + (t - T) * (r[1] - r[2]), d * r[2]>>)
  BY DEF Ph!Ramp
<1> HIDE DEF r, T, m, d
<1>7. PICK a \in Int, b \in Pos : m = <<a, b>>
  BY <1>3 DEF Fraction
<1>8. PICK p \in Int, q \in Pos : r = <<p, q>>
  BY <1>2 DEF Fraction
<1>9. Ph!Times(m, r) = <<a * p, b * q>>
  BY <1>7, <1>8 DEF Ph!Times
<1>10. \A t : Ph!Ramp(ps, i, t) = <<a * (d * q + (t - T) * (p - q)), b * (d * q)>>
  BY <1>6, <1>7, <1>8 DEF Ph!Times
<1>11. Ph!Start(ps)[i + 1].time = T + d /\ Ph!Start(ps)[i + 1].mult = <<a * p, b * q>>
  BY <1>4, <1>9
<1>12. /\ d = ps[i].duration
       /\ Ph!Start(ps)[i].time = T /\ Ph!Start(ps)[i].mult = <<a, b>>
       /\ Ph!Chained(ps)[i - 1] = <<a, b>> /\ Ph!Chained(ps)[i] = <<a * p, b * q>>
  BY <1>5, <1>7, <1>9 DEF d, T, m
<1>13. Leads(ps, i, a, b, d, p, q, T)
  BY <1>10, <1>11, <1>12 DEF Leads
<1>. QED BY <1>2, <1>3, <1>13

\* In one unit of time a ramp rises by its steepness at most.
LEMMA RampStep ==
    ASSUME NEW ps, Loaded(ps), NEW i \in 1..Len(ps), ps[i].duration # 0, NEW t \in Nat
    PROVE  /\ Ph!Ramp(ps, i, t) \in Fraction
           /\ Slope(ps, i) \in Fraction /\ Slope(ps, i)[1] >= 0
           /\ Ph!AtMost(Ph!Size(Ph!Minus(Ph!Ramp(ps, i, t + 1), Ph!Ramp(ps, i, t))), Slope(ps, i))
<1>0. PICK a \in Int, b \in Pos, d \in Pos, p \in Int, q \in Pos, T \in Nat :
         Leads(ps, i, a, b, d, p, q, T)
  BY RampOf
<1>1. /\ d = ps[i].duration
      /\ Ph!Chained(ps)[i - 1] = <<a, b>> /\ Ph!Chained(ps)[i] = <<a * p, b * q>>
      /\ \A u \in Nat : Ph!Ramp(ps, i, u) = <<a * (d * q + (u - T) * (p - q)), b * (d * q)>>
  BY <1>0 DEF Leads
<1> DEFINE B == b * (d * q)
           E == a * (d * q + (t - T) * (p - q))
           F == a * (d * q + ((t - T) + 1) * (p - q))
           w == a * b * (p - q)
           D == b * q * b
<1>2. Ph!Ramp(ps, i, t) = <<E, B>> /\ Ph!Ramp(ps, i, t + 1) = <<F, B>>
  <2>1. t + 1 \in Nat /\ (t + 1) - T = (t - T) + 1
    OBVIOUS
  <2>. QED BY <1>1, <2>1
<1>3. Ph!Minus(Ph!Chained(ps)[i], Ph!Chained(ps)[i - 1]) = <<a * p * b - a * (b * q), D>>
  BY <1>1 DEF Ph!Minus
<1>4. /\ a * p * b - a * (b * q) = w
      /\ D \in Pos /\ D * d \in Pos /\ B \in Pos
      /\ (F * B - E * B) * (D * d) = w * (B * B)
  <2>1. t - T \in Int
    OBVIOUS
  <2>. QED BY <2>1, RampArithmetic
<1>5. E \in Int /\ F \in Int /\ w \in Int
  BY DEF Pos
<1> HIDE DEF B, E, F, w, D
<1>6. Ph!Ramp(ps, i, t) \in Fraction /\ Ph!Ramp(ps, i, t + 1) \in Fraction
  BY <1>2, <1>4, <1>5 DEF Fraction
<1> DEFINE v == IF w < 0 THEN -w ELSE w
<1>7. v \in Nat
  BY <1>5
<1>8. Slope(ps, i) = <<v, D * d>>
  <2>1. Ph!Size(<<w, D>>) = <<v, D>>
    BY <1>5 DEF Ph!Size
  <2>2. Slope(ps, i) = Ph!Times(<<v, D>>, <<1, d>>)
    BY <1>1, <1>3, <1>4, <2>1 DEF Slope
  <2> HIDE DEF v
  <2>. QED BY <1>7, <2>2 DEF Ph!Times
<1>9. Slope(ps, i) \in Fraction /\ Slope(ps, i)[1] >= 0
  <2> HIDE DEF v
  <2>. QED BY <1>4, <1>7, <1>8 DEF Fraction
<1>10. Ph!Minus(Ph!Ramp(ps, i, t + 1), Ph!Ramp(ps, i, t)) = <<F * B - E * B, B * B>>
  BY <1>2 DEF Ph!Minus
<1>11. w * (B * B) <= v * (B * B) /\ -(v * (B * B)) <= w * (B * B)
  <2>1. B * B \in Pos
    BY <1>4 DEF Pos
  <2>2. w <= v /\ -v <= w
    BY <1>5
  <2> HIDE DEF v
  <2> DEFINE b2 == B * B
  <2> HIDE DEF b2
  <2>3. b2 \in Pos
    BY <2>1 DEF b2
  <2>4. w * b2 <= v * b2 /\ -(v * b2) <= w * b2
    BY <1>5, <1>7, <2>2, <2>3 DEF Pos
  <2>. QED BY <2>4 DEF b2
<1>12. Ph!Minus(Ph!Ramp(ps, i, t + 1), Ph!Ramp(ps, i, t)) \in Fraction
  BY <1>6, FractionOps
<1> HIDE DEF v
<1>. QED BY <1>4, <1>6, <1>8, <1>9, <1>10, <1>11, <1>12, SizeAtMost

\* A ramp goes from the start of its phase to the start of the next one.
LEMMA RampEnds ==
    ASSUME NEW ps, Loaded(ps), NEW i \in 1..Len(ps), ps[i].duration # 0
    PROVE  /\ Ph!Equal(Ph!Ramp(ps, i, Ph!Start(ps)[i].time), Ph!Start(ps)[i].mult)
           /\ Ph!Equal(Ph!Ramp(ps, i, Ph!Start(ps)[i + 1].time), Ph!Start(ps)[i + 1].mult)
<1>0. PICK a \in Int, b \in Pos, d \in Pos, p \in Int, q \in Pos, T \in Nat :
         Leads(ps, i, a, b, d, p, q, T)
  BY RampOf
<1>1. /\ Ph!Start(ps)[i].time = T /\ Ph!Start(ps)[i].mult = <<a, b>>
      /\ Ph!Start(ps)[i + 1].time = T + d
      /\ Ph!Start(ps)[i + 1].mult = <<a * p, b * q>>
      /\ \A t \in Nat : Ph!Ramp(ps, i, t) = <<a * (d * q + (t - T) * (p - q)), b * (d * q)>>
  BY <1>0 DEF Leads
<1>2. Ph!Ramp(ps, i, T) = <<a * (d * q), b * (d * q)>>
  <2>1. d * q + (T - T) * (p - q) = d * q
    BY DEF Pos
  <2>. QED BY <1>1, <2>1
<1>3. Ph!Ramp(ps, i, T + d) = <<a * (d * p), b * (d * q)>>
  <2>1. T + d \in Nat /\ d * q + ((T + d) - T) * (p - q) = d * p
    BY DEF Pos
  <2>. QED BY <1>1, <2>1
<1>4. a * (d * q) * b = a * (b * (d * q)) /\ a * (d * p) * (b * q) = a * p * (b * (d * q))
  BY DEF Pos
<1>. QED BY <1>1, <1>2, <1>3, <1>4 DEF Ph!Equal

\* phase i is the one at t
Current(ps, t, i) == Open(ps, t, i) /\ \A j \in 1..(i - 1) : ~ Open(ps, t, j)

\* Every phase is over, or one of them is the current one.
LEMMA CurrentPhase ==
    ASSUME NEW ps, Loaded(ps), NEW t \in Nat
    PROVE  (\A i \in 1..Len(ps) : ~ Open(ps, t, i)) \/ \E i \in 1..Len(ps) : Current(ps, t, i)
<1> DEFINE T == {i \in 1..Len(ps) : Open(ps, t, i)}
<1>1. Len(ps) \in Nat
  BY LoadedPhases
<1>2. SUFFICES ASSUME T # {} PROVE \E i \in 1..Len(ps) : Current(ps, t, i)
  OBVIOUS
<1>3. PICK i \in T : \A j \in T : i <= j
  <2>1. T \in SUBSET Nat
    BY <1>1
  <2> HIDE DEF T
  <2>. QED BY <1>2, <2>1, LeastNat
<1>4. \A j \in 1..(i - 1) : j \in 1..Len(ps) /\ ~(i <= j)
  BY <1>1, <1>3
<1>. QED BY <1>3, <1>4 DEF Current

\* A phase is open until the next one starts, and never again.
LEMMA OpenUntil ==
    ASSUME NEW ps, Loaded(ps), NEW i \in 1..Len(ps), NEW t \in Nat
    PROVE  /\ Open(ps, t, i) <=> ps[i].duration = 0 \/ t < Ph!Start(ps)[i + 1].time
           /\ Open(ps, t + 1, i) => Open(ps, t, i)
<1> DEFINE at == Ph!Start(ps)
<1>1. Len(ps) \in Nat /\ ps[i].duration \in Nat
  BY LoadedPhases
<1>2. at[i + 1] = [time |-> at[i].time + ps[i].duration,
                   mult |-> Ph!Times(at[i].mult, ps[i].ratio)]
  BY <1>1, StartDef
<1>3. at[i].time \in Nat
  <2>1. i \in 1..(Len(ps) + 1)
    BY <1>1
  <2>. QED BY <2>1, StartType
<1>4. at[i + 1].time = at[i].time + ps[i].duration
  <2> HIDE DEF at
  <2>. QED BY <1>2
<1>. QED BY <1>1, <1>3, <1>4 DEF Open

\* The multiplier is a fraction at any time.
LEMMA MultiplierType ==
    ASSUME NEW ps, Loaded(ps), NEW t \in Nat PROVE Multiplier(ps, t) \in Fraction
<1>1. /\ Len(ps) \in Nat \ {0}
      /\ \A i \in 1..(Len(ps) + 1) : Ph!Start(ps)[i].mult \in Fraction
  BY LoadedPhases, StartType
<1>2. CASE \A i \in 1..Len(ps) : ~ Open(ps, t, i)
  <2>1. Len(ps) + 1 \in 1..(Len(ps) + 1)
    BY <1>1
  <2>. QED BY <1>1, <1>2, <2>1, AllOver
<1>3. ASSUME NEW i \in 1..Len(ps), Current(ps, t, i) PROVE Multiplier(ps, t) \in Fraction
  <2>1. i \in 1..(Len(ps) + 1)
    BY <1>1
  <2>2. ps[i].duration # 0 => Ph!Ramp(ps, i, t) \in Fraction
    BY RampStep
  <2>3. Multiplier(ps, t) = IF ps[i].duration = 0 THEN Ph!Start(ps)[i].mult
                            ELSE Ph!Ramp(ps, i, t)
    BY <1>3, FirstOpen DEF Current
  <2>. QED BY <1>1, <2>1, <2>2, <2>3
<1>. QED BY <1>2, <1>3, CurrentPhase

\* When the ramp of phase i ends, the multiplier is what it leads to.
LEMMA RampOver ==
    ASSUME NEW ps, Loaded(ps), NEW i \in 1..Len(ps), NEW t \in Nat, ps[i].duration # 0,
           t = Ph!Start(ps)[i + 1].time, \A j \in 1..i : ~ Open(ps, t, j)
    PROVE  Ph!Equal(Multiplier(ps, t), Ph!Start(ps)[i + 1].mult)
<1>1. /\ Len(ps) \in Nat \ {0}
      /\ \A j \in 1..Len(ps) : ps[j].duration \in Nat
      /\ \A j \in 1..(Len(ps) + 1) : Ph!Start(ps)[j].mult \in Fraction
  BY LoadedPhases, StartType
<1>2. i + 1 \in 1..(Len(ps) + 1) /\ Ph!Start(ps)[i + 1].mult \in Fraction
  BY <1>1
<1>3. CASE i = Len(ps)
  <2>1. Multiplier(ps, t) = Ph!Start(ps)[i + 1].mult
    BY <1>3, AllOver
  <2>. QED BY <1>2, <2>1, FractionOrder
<1>4. CASE i # Len(ps)
  <2>1. i + 1 \in 1..Len(ps) /\ (i + 1) - 1 = i
    BY <1>1, <1>4
  <2>2. Open(ps, t, i + 1)
    BY <1>1, <2>1 DEF Open
  <2>3. Multiplier(ps, t) = IF ps[i + 1].duration = 0 THEN Ph!Start(ps)[i + 1].mult
                            ELSE Ph!Ramp(ps, i + 1, t)
    BY <2>1, <2>2, FirstOpen
  <2>4. CASE ps[i + 1].duration = 0
    BY <1>2, <2>3, <2>4, FractionOrder
  <2>5. CASE ps[i + 1].duration # 0
    BY <2>1, <2>3, <2>5, RampEnds
  <2>. QED BY <2>4, <2>5
<1>. QED BY <1>3, <1>4

\* the steepness of every ramp is at most s
Steepest(ps, s) ==
    /\ s \in Fraction /\ s[1] >= 0
    /\ \A i \in 1..Len(ps) : ps[i].duration # 0 => Ph!AtMost(Slope(ps, i), s)

\* In one unit of time the multiplier changes by no more than the steepest ramp does.
LEMMA ClockStep ==
    ASSUME NEW ps, Loaded(ps), NEW s, Steepest(ps, s), NEW t \in Nat
    PROVE  Ph!AtMost(Ph!Size(Ph!Minus(Multiplier(ps, t + 1), Multiplier(ps, t))), s)
<1> DEFINE a == Multiplier(ps, t)
           c == Multiplier(ps, t + 1)
<1>1. t + 1 \in Nat /\ a \in Fraction /\ c \in Fraction /\ s \in Fraction /\ s[1] >= 0
  BY MultiplierType DEF Steepest
<1>2. a = c => Ph!AtMost(Ph!Size(Ph!Minus(c, a)), s)
  <2> HIDE DEF a, c
  <2>. QED BY <1>1, FractionOrder
<1>3. CASE \A i \in 1..Len(ps) : ~ Open(ps, t, i)
  <2>1. \A i \in 1..Len(ps) : ~ Open(ps, t + 1, i)
    BY <1>3, OpenUntil
  <2>2. a = c
    BY <1>1, <1>3, <2>1, AllOver
  <2>. QED BY <1>2, <2>2
<1>4. ASSUME NEW i \in 1..Len(ps), Current(ps, t, i)
      PROVE  Ph!AtMost(Ph!Size(Ph!Minus(c, a)), s)
  <2>1. Len(ps) \in Nat /\ \A j \in 1..(i - 1) : j \in 1..Len(ps)
    BY LoadedPhases
  <2>2. \A j \in 1..(i - 1) : ~ Open(ps, t + 1, j)
    BY <1>4, <2>1, OpenUntil DEF Current
  <2>3. a = IF ps[i].duration = 0 THEN Ph!Start(ps)[i].mult ELSE Ph!Ramp(ps, i, t)
    BY <1>4, FirstOpen DEF Current
  <2>4. CASE ps[i].duration = 0
    <3>1. Open(ps, t + 1, i)
      BY <2>4 DEF Open
    <3>2. c = Ph!Start(ps)[i].mult
      BY <1>1, <2>2, <2>4, <3>1, FirstOpen
    <3>. QED BY <1>2, <2>3, <2>4, <3>2
  <2>5. CASE ps[i].duration # 0
    <3> DEFINE r == Ph!Ramp(ps, i, t)
               q == Ph!Ramp(ps, i, t + 1)
               w == Slope(ps, i)
    <3>1. /\ r \in Fraction /\ q \in Fraction /\ w \in Fraction
          /\ Ph!AtMost(Ph!Size(Ph!Minus(q, r)), w) /\ Ph!AtMost(w, s) /\ a = r
      BY <1>1, <2>3, <2>5, RampStep DEF Steepest
    <3>2. Ph!Equal(q, c)
      <4>1. CASE Open(ps, t + 1, i)
        <5>1. c = q
          BY <1>1, <2>2, <2>5, <4>1, FirstOpen
        <5> HIDE DEF q, c
        <5>. QED BY <3>1, <5>1, FractionOrder
      <4>2. CASE ~ Open(ps, t + 1, i)
        <5>1. Ph!Start(ps)[i + 1].time \in Nat /\ Ph!Start(ps)[i + 1].mult \in Fraction
          <6>1. i + 1 \in 1..(Len(ps) + 1)
            BY <2>1
          <6>. QED BY <6>1, StartType
        <5>2. t + 1 = Ph!Start(ps)[i + 1].time
          <6>1. t < Ph!Start(ps)[i + 1].time /\ ~ (t + 1 < Ph!Start(ps)[i + 1].time)
            BY <1>1, <1>4, <2>5, <4>2, OpenUntil DEF Current
          <6>. QED BY <5>1, <6>1
        <5>3. \A j \in 1..i : ~ Open(ps, t + 1, j)
          <6>1. \A j \in 1..i : j = i \/ j \in 1..(i - 1)
            BY <2>1
          <6>. QED BY <2>2, <4>2, <6>1
        <5>4. Ph!Equal(c, Ph!Start(ps)[i + 1].mult)
          BY <1>1, <2>5, <5>2, <5>3, RampOver
        <5>5. Ph!Equal(q, Ph!Start(ps)[i + 1].mult)
          BY <2>5, <5>2, RampEnds
        <5> DEFINE e == Ph!Start(ps)[i + 1].mult
        <5> HIDE DEF c, q, e
        <5>. QED BY <1>1, <3>1, <5>1, <5>4, <5>5, FractionOrder, FractionTransitive DEF e
      <4>. QED BY <4>1, <4>2
    <3> HIDE DEF a, c, q, r, w
    <3>3. Ph!AtMost(Ph!Size(Ph!Minus(c, r)), w)
      BY <1>1, <3>1, <3>2, SameFraction
    <3>4. Ph!Size(Ph!Minus(c, r)) \in Fraction
      BY <1>1, <3>1, FractionOps
    <3>5. Ph!AtMost(Ph!Size(Ph!Minus(c, r)), s)
      BY <1>1, <3>1, <3>3, <3>4, FractionTransitive
    <3>. QED BY <3>1, <3>5
  <2>. QED BY <2>4, <2>5
<1>. QED BY <1>3, <1>4, CurrentPhase

\* In k units of time it changes by no more than k times as much.
LEMMA ClockSpan ==
    ASSUME NEW ps, Loaded(ps), NEW p \in Int, NEW q \in Pos, Steepest(ps, <<p, q>>),
           NEW t \in Nat, NEW k \in Nat
    PROVE  Ph!AtMost(Ph!Size(Ph!Minus(Multiplier(ps, t + k), Multiplier(ps, t))), <<k * p, q>>)
<1> DEFINE Near(l) ==
        Ph!AtMost(Ph!Size(Ph!Minus(Multiplier(ps, t + l), Multiplier(ps, t))), <<l * p, q>>)
           T == {l \in Nat : ~ Near(l)}
<1>1. Near(0)
  <2>1. t + 0 = t /\ 0 * p = 0
    OBVIOUS
  <2>2. <<0, q>> \in Fraction /\ <<0, q>>[1] >= 0
    BY DEF Fraction
  <2>3. Multiplier(ps, t) \in Fraction
    BY MultiplierType
  <2>. QED BY <2>1, <2>2, <2>3, FractionOrder
<1>2. ASSUME NEW l \in Nat, Near(l) PROVE Near(l + 1)
  <2>1. t + l \in Nat /\ t + (l + 1) = (t + l) + 1 /\ (t + l) + 1 \in Nat
    OBVIOUS
  <2> DEFINE a == Multiplier(ps, t)
             b == Multiplier(ps, t + l)
             c == Multiplier(ps, (t + l) + 1)
  <2>2. a \in Fraction /\ b \in Fraction /\ c \in Fraction
    BY <2>1, MultiplierType
  <2>3. Ph!AtMost(Ph!Size(Ph!Minus(c, b)), <<p, q>>)
    BY <2>1, ClockStep
  <2>4. Ph!AtMost(Ph!Size(Ph!Minus(b, a)), <<l * p, q>>)
    BY <1>2
  <2> HIDE DEF a, b, c
  <2>5. Ph!AtMost(Ph!Size(Ph!Minus(c, a)), <<(l + 1) * p, q>>)
    BY <2>2, <2>3, <2>4, Triangle
  <2>. QED BY <2>1, <2>5 DEF a, c
<1> HIDE DEF Near
<1>3. SUFFICES ASSUME T # {} PROVE FALSE
  BY DEF Near
<1>4. PICK l \in T : \A j \in T : l <= j
  BY <1>3, LeastNat
<1>5. l \in Nat \ {0} /\ ~ Near(l)
  BY <1>1, <1>4
<1>6. l - 1 \in Nat /\ l - 1 \notin T /\ (l - 1) + 1 = l
  BY <1>4, <1>5
<1>7. Near((l - 1) + 1)
  BY <1>2, <1>6
<1>. QED BY <1>5, <1>6, <1>7

\* What a phase adds in k units of time is k times its steepness.
LEMMA SteepestPhase ==
    ASSUME NEW ps, Loaded(ps), NEW m \in 1..Len(ps), ps[m].duration # 0, NEW k \in Nat
    PROVE  \E p \in Int, q \in Pos :
              /\ Slope(ps, m) = <<p, q>>
              /\ Ph!Times(Ph!Size(Ph!Minus(Ph!Chained(ps)[m], Ph!Chained(ps)[m - 1])),
                          <<k, ps[m].duration>>) = <<k * p, q>>
<1> DEFINE c == Ph!Chained(ps)
           d == ps[m].duration
           z == Ph!Size(Ph!Minus(c[m], c[m - 1]))
<1>1. d \in Pos
  BY LoadedPhases DEF Pos
<1>2. c[m] \in Fraction /\ c[m - 1] \in Fraction
  <2>1. PICK a \in Int, b \in Pos, e \in Pos, p \in Int, q \in Pos, T \in Nat :
           Leads(ps, m, a, b, e, p, q, T)
    BY RampOf
  <2>2. c[m - 1] = <<a, b>> /\ c[m] = <<a * p, b * q>>
    BY <2>1 DEF Leads
  <2> HIDE DEF c
  <2>3. a * p \in Int /\ b * q \in Pos
    BY DEF Pos
  <2>. QED BY <2>2, <2>3 DEF Fraction
<1>3. z \in Fraction
  <2> HIDE DEF c
  <2>. QED BY <1>2, FractionOps
<1>4. Slope(ps, m) = Ph!Times(z, <<1, d>>)
  BY DEF Slope
<1> HIDE DEF c, d, z
<1>5. PICK u \in Int, v \in Pos : z = <<u, v>>
  BY <1>3 DEF Fraction
<1>6. Ph!Times(z, <<1, d>>) = <<u, v * d>> /\ Ph!Times(z, <<k, d>>) = <<k * u, v * d>>
  BY <1>1, <1>5 DEF Ph!Times, Pos
<1>7. v * d \in Pos
  BY <1>1 DEF Pos
<1>8. u \in Int /\ v * d \in Pos /\ Slope(ps, m) = <<u, v * d>>
      /\ Ph!Times(Ph!Size(Ph!Minus(Ph!Chained(ps)[m], Ph!Chained(ps)[m - 1])),
                  <<k, ps[m].duration>>) = <<k * u, v * d>>
  BY <1>4, <1>6, <1>7 DEF z, c, d
<1>. QED BY <1>8

\* Some phase changes the multiplier as much in k units of time as the clock does, or more.
LEMMA Change ==
    ASSUME NEW ps, Loaded(ps), NEW t \in Nat, NEW k \in Nat
    PROVE  \E i \in DOMAIN ps :
              Ph!AtMost(Ph!Size(Ph!Minus(Multiplier(ps, t + k), Multiplier(ps, t))),
                        IF ps[i].duration = 0 THEN <<0, 1>>
                        ELSE Ph!Times(Ph!Size(Ph!Minus(Ph!Chained(ps)[i], Ph!Chained(ps)[i - 1])),
                                      <<k, ps[i].duration>>))
<1> DEFINE n == Len(ps)
           r == IF ps[n].duration = 0 THEN n - 1 ELSE n
<1>1. /\ n \in Nat \ {0} /\ DOMAIN ps = 1..n
      /\ \A i \in 1..n : ps[i].duration \in Nat /\ (i # n => ps[i].duration # 0)
  BY LoadedPhases
<1>2. r \in Nat /\ r <= n /\ \A i \in 1..n : (ps[i].duration # 0 <=> i \in 1..r)
  <2>1. CASE ps[n].duration = 0
    <3>1. r = n - 1
      BY <2>1
    <3> HIDE DEF r, n
    <3>2. ASSUME NEW i \in 1..n PROVE ps[i].duration # 0 <=> i \in 1..r
      <4>1. CASE i = n
        BY <1>1, <2>1, <3>1, <4>1
      <4>2. CASE i # n
        BY <1>1, <3>1, <4>2
      <4>. QED BY <4>1, <4>2
    <3>. QED BY <1>1, <3>1, <3>2
  <2>2. CASE ps[n].duration # 0
    <3>1. r = n
      BY <2>2
    <3> HIDE DEF r, n
    <3>2. ASSUME NEW i \in 1..n PROVE ps[i].duration # 0 /\ i \in 1..r
      BY <1>1, <2>2, <3>1
    <3>. QED BY <1>1, <3>1, <3>2
  <2>. QED BY <2>1, <2>2
<1> HIDE DEF r
<1>3. CASE r = 0
  <2>1. 1 \in DOMAIN ps /\ ps[1].duration = 0
    <3>1. 1 \in 1..n /\ 1 \notin 1..r
      <4> HIDE DEF n
      <4>. QED BY <1>1, <1>3
    <3>. QED BY <1>1, <1>2, <3>1
  <2>2. 0 \in Int /\ 1 \in Pos /\ Steepest(ps, <<0, 1>>)
    <3>1. <<0, 1>> \in Fraction /\ <<0, 1>>[1] >= 0
      BY DEF Fraction, Pos
    <3>2. \A i \in 1..Len(ps) : ~ (ps[i].duration # 0)
      BY <1>2, <1>3
    <3>. QED BY <3>1, <3>2 DEF Steepest, Pos
  <2>3. Ph!AtMost(Ph!Size(Ph!Minus(Multiplier(ps, t + k), Multiplier(ps, t))), <<k * 0, 1>>)
    BY <2>2, ClockSpan
  <2>4. k * 0 = 0
    OBVIOUS
  <2>. QED BY <2>1, <2>3, <2>4
<1>4. CASE r # 0
  <2> DEFINE c == [i \in 1..r |-> Slope(ps, i)]
  <2>1. \A i \in 1..r : i \in 1..n /\ ps[i].duration # 0
    <3>1. \A i \in 1..r : i \in 1..n
      <4> HIDE DEF n
      <4>. QED BY <1>1, <1>2
    <3>. QED BY <1>2, <3>1
  <2>2. \A i \in 1..r : c[i] \in Fraction /\ c[i][1] >= 0
    BY <2>1, RampStep
  <2>3. PICK m \in 1..r : \A i \in 1..r : Ph!AtMost(c[i], c[m])
    <3> HIDE DEF c
    <3>. QED BY <1>2, <1>4, <2>2, LargestFraction
  <2>4. m \in 1..n /\ ps[m].duration # 0
    BY <2>1
  <2>5. PICK p \in Int, q \in Pos :
           /\ Slope(ps, m) = <<p, q>>
           /\ Ph!Times(Ph!Size(Ph!Minus(Ph!Chained(ps)[m], Ph!Chained(ps)[m - 1])),
                       <<k, ps[m].duration>>) = <<k * p, q>>
    BY <2>4, SteepestPhase
  <2>6. Steepest(ps, <<p, q>>)
    <3>1. c[m] = <<p, q>>
      BY <2>5
    <3>2. \A i \in 1..n : ps[i].duration # 0 => Ph!AtMost(Slope(ps, i), <<p, q>>)
      <4>1. \A i \in 1..r : Ph!AtMost(Slope(ps, i), c[m])
        BY <2>3
      <4>. QED BY <1>2, <3>1, <4>1
    <3>3. <<p, q>> \in Fraction /\ <<p, q>>[1] >= 0
      BY <2>2, <3>1
    <3>. QED BY <3>2, <3>3 DEF Steepest
  <2>7. Ph!AtMost(Ph!Size(Ph!Minus(Multiplier(ps, t + k), Multiplier(ps, t))), <<k * p, q>>)
    BY <2>6, ClockSpan
  <2>. QED BY <1>1, <2>4, <2>5, <2>7
<1>. QED BY <1>3, <1>4

\* Once every phase is over the multiplier is the product of the ratios.
LEMMA ClockEnds ==
    ASSUME NEW ps, Loaded(ps), NEW t \in Nat, t >= Ph!Start(ps)[Len(ps) + 1].time
    PROVE  Ph!Equal(Multiplier(ps, t), Ph!Chained(ps)[Len(ps)])
<1> DEFINE n == Len(ps)
           c == Ph!Chained(ps)
           V == Multiplier(ps, t)
<1>1. /\ n \in Nat \ {0}
      /\ \A i \in 1..n : ps[i].duration \in Nat /\ (i # n => ps[i].duration # 0)
      /\ \A i \in 1..(n + 1) : Ph!Start(ps)[i].time \in Nat
  BY LoadedPhases, StartType
<1>2. ASSUME NEW i \in 1..n, ps[i].duration # 0 PROVE ~ Open(ps, t, i)
  <2>1. i + 1 \in 1..(n + 1) /\ n + 1 \in 1..(n + 1) /\ i + 1 <= n + 1
    BY <1>1
  <2>2. Ph!Start(ps)[i + 1].time <= Ph!Start(ps)[n + 1].time
    BY <2>1, StartsInOrder
  <2>3. ~ (t < Ph!Start(ps)[i + 1].time)
    BY <1>1, <2>1, <2>2
  <2>. QED BY <1>2, <2>3, OpenUntil
<1>3. V \in Fraction
  BY MultiplierType
<1>4. CASE ps[n].duration # 0
  <2>1. \A i \in 1..n : ps[i].duration # 0 /\ ~ Open(ps, t, i)
    BY <1>1, <1>2, <1>4
  <2>2. V = Ph!Start(ps)[n + 1].mult
    BY <2>1, AllOver
  <2>3. c[n] = Ph!Start(ps)[n + 1].mult
    BY <1>1, <2>1, ChainedIsStart
  <2> HIDE DEF V, c
  <2>. QED BY <1>3, <2>2, <2>3, FractionOrder DEF V, c
<1>5. CASE ps[n].duration = 0
  <2>1. n \in 1..n /\ n - 1 \in 0..n /\ (n - 1) + 1 = n
        /\ \A j \in 1..(n - 1) : j \in 1..n /\ ps[j].duration # 0 /\ ~ Open(ps, t, j)
    BY <1>1, <1>2
  <2>2. Open(ps, t, n)
    BY <1>5 DEF Open
  <2>3. V = Ph!Start(ps)[n].mult
    BY <1>5, <2>1, <2>2, FirstOpen
  <2>4. c[n - 1] = Ph!Start(ps)[n].mult
    BY <2>1, ChainedIsStart
  <2>5. c[n] = Ph!Times(c[n - 1], <<1, 1>>)
    BY <1>1, <1>5, <2>1, ChainedDef
  <2>6. c[n] = Ph!Times(V, <<1, 1>>)
    BY <2>3, <2>4, <2>5
  <2> HIDE DEF V, c
  <2>7. PICK a \in Int, b \in Pos : V = <<a, b>>
    BY <1>3 DEF Fraction
  <2>8. c[n] = <<a, b>>
    BY <2>6, <2>7 DEF Ph!Times, Pos
  <2>9. Ph!Equal(V, c[n])
    BY <2>7, <2>8 DEF Ph!Equal
  <2>. QED BY <2>9 DEF V, c
<1>. QED BY <1>4, <1>5

\* The emulator reads the clock.
ClockInv ==
    /\ Loaded(phases) /\ elapsed \in Nat /\ elapsed <= MaxElapsed
    /\ reading = Ph!GetMultiplier(phases, elapsed)

\* The clock starts in that state,
LEMMA ClockStart == Ph!Init => ClockInv
BY PhasesAssumption DEF Ph!Init, ClockInv, Loaded, Fraction, Pos

\* and a cycle keeps it there and never turns it back.
LEMMA ClockGoesOn ==
    ASSUME ClockInv, Ph!Next
    PROVE  /\ ClockInv'
           /\ phases' = phases /\ elapsed' - elapsed \in Nat
<1>1. PICK gap \in 1..MaxGap : Ph!Cycle(gap)
  BY DEF Ph!Next
<1>2. phases' = phases /\ reading' = Ph!GetMultiplier(phases, elapsed')
      /\ elapsed' = Ph!Min({elapsed + gap, MaxElapsed})
  BY <1>1 DEF Ph!Cycle
<1>3. gap \in Nat /\ elapsed \in Nat /\ MaxElapsed \in Nat /\ elapsed <= MaxElapsed
  BY PhasesAssumption DEF ClockInv
<1>4. elapsed' \in {elapsed + gap, MaxElapsed}
      /\ elapsed' <= elapsed + gap /\ elapsed' <= MaxElapsed
  <2> DEFINE S == {elapsed + gap, MaxElapsed}
  <2>1. \E x \in S : \A y \in S : x <= y
    BY <1>3
  <2> HIDE DEF S
  <2>2. Ph!Min(S) \in S /\ \A y \in S : Ph!Min(S) <= y
    BY <2>1 DEF Ph!Min
  <2>3. elapsed' \in S /\ \A y \in S : elapsed' <= y
    BY <1>2, <2>2 DEF S
  <2>. QED BY <2>3 DEF S
<1>5. elapsed' \in Nat /\ elapsed' - elapsed \in Nat
  <2>1. CASE elapsed' = elapsed + gap
    BY <1>3, <2>1
  <2>2. CASE elapsed' = MaxElapsed
    BY <1>3, <2>2
  <2>. QED BY <1>4, <2>1, <2>2
<1>6. Loaded(phases')
  BY <1>2 DEF ClockInv
<1>7. reading' = Ph!GetMultiplier(phases', elapsed')
  BY <1>2
<1>8. elapsed' <= MaxElapsed
  BY <1>4
<1>. QED BY <1>2, <1>5, <1>6, <1>7, <1>8 DEF ClockInv

\* A cycle of the emulator has no jump.
LEMMA ClockHasNoJump == ASSUME ClockInv, Ph!Next PROVE Ph!NoJump
<1> DEFINE k == elapsed' - elapsed
<1>1. /\ Loaded(phases) /\ elapsed \in Nat /\ elapsed' \in Nat /\ k \in Nat
      /\ elapsed + k = elapsed'
      /\ phases' = phases
      /\ reading.mult = Multiplier(phases, elapsed)
      /\ reading'.mult = Multiplier(phases, elapsed')
  <2>1. ClockInv' /\ phases' = phases /\ k \in Nat
    BY ClockGoesOn
  <2>2. elapsed' \in Nat /\ reading' = Ph!GetMultiplier(phases', elapsed')
    BY <2>1 DEF ClockInv
  <2>3. elapsed \in Nat /\ elapsed' \in Nat
    BY <2>2 DEF ClockInv
  <2>4. elapsed + k = elapsed'
    <3>1. \A x, y \in Nat : x + (y - x) = y
      OBVIOUS
    <3>2. elapsed + (elapsed' - elapsed) = elapsed'
      BY <2>3, <3>1
    <3>. QED BY <3>2
  <2>5. reading.mult = Multiplier(phases, elapsed) /\ reading'.mult = Multiplier(phases, elapsed')
    BY <2>1, <2>2 DEF ClockInv, Multiplier
  <2>. QED BY <2>1, <2>2, <2>3, <2>4, <2>5 DEF ClockInv
<1> HIDE DEF k
<1>2. \E i \in DOMAIN phases :
         Ph!AtMost(Ph!Size(Ph!Minus(reading'.mult, reading.mult)),
                   IF phases[i].duration = 0 THEN <<0, 1>>
                   ELSE Ph!Times(Ph!Size(Ph!Minus(Ph!Chained(phases)[i],
                                                  Ph!Chained(phases)[i - 1])),
                                 <<k, phases[i].duration>>))
  BY <1>1, Change
<1>3. elapsed' >= Ph!Start(phases)[Len(phases) + 1].time =>
          Ph!Equal(reading'.mult, Ph!Chained(phases)[Len(phases)])
  BY <1>1, ClockEnds
<1>. QED BY <1>2, <1>3 DEF Ph!NoJump, k

-----------------------------------------------------------------------------
(***************************************************************************)
(* The programs together.                                                  *)
(***************************************************************************)

Inv ==
    /\ program \in Programs
    /\ program = "incluster_sweep" => CurveInv
    /\ program = "sweep_curve" => DriverInv
    /\ program = "run12" => Run12Inv
    /\ program = "run15" => Run15Inv
    /\ program = "run17and18" => ArmsInv
    /\ program = "surge and run19" => OverlayInv
    /\ program = "phases" => ClockInv

LEMMA ProgramNames ==
    Programs = {"incluster_sweep", "sweep_curve", "run12", "run15", "run17and18",
                "surge and run19", "phases"}
BY DEF Programs, Sweeps, Reports

LEMMA InitInv == Init => Inv
<1>1. SUFFICES ASSUME Init PROVE Inv
  OBVIOUS
<1>2. program = "incluster_sweep" => CurveInv
  BY <1>1, CurveStart DEF Init
<1>3. program = "sweep_curve" => DriverInv
  BY <1>1, DriverStart DEF Init
<1>4. program = "run12" => Run12Inv
  BY <1>1, Run12Start DEF Init
<1>5. program = "run15" => Run15Inv
  BY <1>1, Run15Start DEF Init
<1>6. program = "run17and18" => ArmsInv
  BY <1>1, ArmsStart DEF Init
<1>7. program = "surge and run19" => OverlayInv
  BY <1>1, OverlayStart DEF Init
<1>8. program = "phases" => ClockInv
  BY <1>1, ClockStart DEF Init
<1>9. QED
  BY <1>1, <1>2, <1>3, <1>4, <1>5, <1>6, <1>7, <1>8 DEF Init, Inv

\* When nothing changes every part of the invariant remains.
LEMMA Stutter == ASSUME Inv, UNCHANGED vars PROVE Inv'
<1> USE DEF vars
<1>1. CurveInv => CurveInv'
  BY DEF CurveInv, CurveType, Counted, LateOnce
<1>2. DriverInv => DriverInv'
  BY DEF DriverInv, DriverType, Counted, Driver!NoDriverLeft
<1>3. Run12Inv => Run12Inv'
  BY DEF Run12Inv, Reading12, Drawing12, Whole12
<1>4. Run15Inv => Run15Inv'
  BY FigureOfInput DEF Run15Inv, Whole15
<1>5. ArmsInv => ArmsInv'
  <2>1. \A a \in Arms17!Names : (AcrossOf(a) => AcrossOf(a)') /\ (AloneOf(a) => AloneOf(a)')
    BY MoreArchives
  <2>2. QED
    BY <2>1 DEF ArmsInv
<1>6. OverlayInv => OverlayInv'
  BY DEF OverlayInv, Rows19, Repl19, Overlay!ArmsAligned
<1>7. ClockInv => ClockInv'
  BY DEF ClockInv
<1>8. QED
  BY <1>1, <1>2, <1>3, <1>4, <1>5, <1>6, <1>7 DEF Inv

LEMMA StepInv == ASSUME Inv, [Next]_vars PROVE Inv'
<1>1. CASE Next
  <2>1. program' = program
    BY <1>1 DEF Next
  <2>2. program = "incluster_sweep" => CurveInv'
    BY <1>1, CurveStep DEF Next, Inv
  <2>3. program = "sweep_curve" => DriverInv'
    BY <1>1, DriverStep DEF Next, Inv
  <2>4. program = "run12" => Run12Inv'
    BY <1>1, Reading12Step, Drawing12Step DEF Next, Inv, Run12Inv
  <2>5. program = "run15" => Run15Inv'
    BY <1>1, Run15Step DEF Next, Inv
  <2>6. program = "run17and18" => ArmsInv'
    BY <1>1, ArmsStep DEF Next, Inv
  <2>7. program = "surge and run19" => OverlayInv'
    BY <1>1, OverlayStep DEF Next, Inv
  <2>8. program = "phases" => ClockInv'
    BY <1>1, ClockGoesOn DEF Next, Inv
  <2>9. QED
    BY <2>1, <2>2, <2>3, <2>4, <2>5, <2>6, <2>7, <2>8 DEF Inv
<1>2. QED
  BY <1>1, Stutter

LEMMA Invariance == Spec => []Inv
<1>1. Init => Inv
  BY InitInv
<1>2. Inv /\ [Next]_vars => Inv'
  BY StepInv
<1>3. QED
  BY <1>1, <1>2, PTL DEF Spec

\* The load of a level ends with it: a worker of incluster_sweep.py that the stop event does not
\* meet in time sends one request more, and sweep_curve.py leaves no driver untold, however it
\* left the level.
THEOREM LoadEnds == Spec => []LoadEndsWithLevel
<1>1. CurveInv => Curve!OneLateRequest
  BY DEF CurveInv, CurveType, LateOnce, Curve!OneLateRequest
<1>2. Inv => LoadEndsWithLevel
  BY <1>1 DEF Inv, DriverInv, LoadEndsWithLevel
<1>3. QED
  BY <1>2, Invariance, PTL

\* A row of either sweep counts exactly the requests that were finished in its window, unless
\* the server restarted in it.
THEOREM RowsCount == Spec => RowCountsWindow
<1> DEFINE Counts == /\ program = "incluster_sweep" => Curve!RowCountsWindow
                     /\ program = "sweep_curve" => Driver!RowCountsWindow
<1>1. Inv /\ Next => Counts
  BY CurveRow, DriverRow DEF Inv, Next
<1>2. RowCountsWindow <=> [][Counts]_vars
  BY DEF RowCountsWindow
<1> HIDE DEF Counts
<1>3. Inv /\ [Next]_vars => [Counts]_vars
  BY <1>1
<1>4. QED
  BY <1>2, <1>3, Invariance, PTL DEF Spec

\* The multiplier of the Load Emulator's phase sequence has no jump: between two cycles it
\* changes by no more than the steepest ramp does in that time, and once every phase is over it
\* stays where the product of the ratios has led it.
THEOREM RateDoesNotJump == Spec => NoJump
<1> DEFINE Smooth == program = "phases" => Ph!NoJump
<1>1. Inv /\ Next => Smooth
  BY ClockHasNoJump DEF Inv, Next
<1>2. NoJump <=> [][Smooth]_vars
  BY DEF NoJump
<1> HIDE DEF Smooth
<1>3. Inv /\ [Next]_vars => [Smooth]_vars
  BY <1>1
<1>4. QED
  BY <1>2, <1>3, Invariance, PTL DEF Spec

\* A report script that draws has read the whole of its archives and its figures account for
\* every cycle of them, none beyond the axis; one that prints its last line has replaced every
\* figure.
THEOREM ReportsComplete == Spec => []ReportComplete
<1>1. Inv => ReportComplete
  BY Run12Complete, Run12Gaps, Run15Whole, Run15Clipping, OverlayOnAxis
     DEF Inv, ReportComplete
<1>2. QED
  BY <1>1, Invariance, PTL

\* Curves that are laid over one another share their origin and their cycles.
THEOREM CurvesAreAligned == Spec => []CurvesAligned
<1>1. Inv => CurvesAligned
  BY Run15Aligned DEF Inv, OverlayInv, CurvesAligned
<1>2. QED
  BY <1>1, Invariance, PTL

\* plot_run18.py leaves no figure of an earlier run when it ends well: every curve across the
\* arms, and every figure of an arm that had data all the while, is of an archive that was there
\* while the script ran, however often the arms are recorded again.
THEOREM FiguresAreOfThisRun == Spec => []FiguresOfThisRun
<1>1. Inv => FiguresOfThisRun
  BY ArmsOfThisRun DEF Inv, FiguresOfThisRun
<1>2. QED
  BY <1>1, Invariance, PTL
=============================================================================
