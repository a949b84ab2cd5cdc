----------------------------- MODULE Standalone -----------------------------
(***************************************************************************)
(* The programs that run by themselves: the two curve sweeps, the report   *)
(* scripts and the Load Emulator's phase sequence.  They interact with no  *)
(* other component, so one module holds them all: every behaviour runs the *)
(* one program chosen at the start and leaves the variables of the others  *)
(* alone.                                                                  *)
(***************************************************************************)
EXTENDS Integers, FiniteSets, Sequences

CONSTANTS
    Torn,            \* a line that is not a JSON document
    None,            \* no file, no value
    CurveLevels, CurveSuccess, CurveFaults,     \* CurveSweep: levels and bounds
    DriverLevels, DriverSuccess, DriverFaults,  \* DriverSweep: levels and bounds
    Archives12,      \* Run12Report: the archives
    phase_ts,        \* and when each load phase started
    Inputs15, CLIP,  \* Run15Report: the four files and the ceiling
    ArmOrder, Logs17,    \* ArmReports: the arms and what a run of one may leave
    Bands,           \* and the bands of load
    MaxRecordings,   \* and the bound on runs of arms
    Archives19,      \* OverlayReports: what an archive may be
    Files,           \* Phases: the phase files
    MaxGap, MaxElapsed

VARIABLES
    program,                                                     \* the one that runs
    pc, level, m0, rows, success, finished, restarted, faults,   \* both sweeps
    runs, stopped, worker, late,                                 \* CurveSweep
    driver,                                                      \* DriverSweep
    archive, next, figs,                                         \* reports
    pos, records,                                                \* Run12Report
    input, ARMS,                                                 \* Run15Report
    todo, figure18, perArm, figure17, table, recordings, during,  \* ArmReports
    surge, part,                                                 \* OverlayReports
    phases, elapsed, reading                                     \* Phases

vars == <<program, pc, level, m0, rows, success, finished, restarted, faults, runs, stopped,
          worker, late, driver, archive, next, figs, pos, records, input, ARMS, todo, figure18,
          perArm, figure17, table, recordings, during, surge, part, phases, elapsed, reading>>

-----------------------------------------------------------------------------
(***************************************************************************)
(* The instances, and what their data are.                                 *)
(***************************************************************************)

Curve == INSTANCE CurveSweep WITH
    Levels <- CurveLevels, MaxSuccess <- CurveSuccess, MaxFaults <- CurveFaults

Driver == INSTANCE DriverSweep WITH
    Levels <- DriverLevels, MaxSuccess <- DriverSuccess, MaxFaults <- DriverFaults

ASSUME SweepAssumption == CurveLevels \in Seq(Nat) /\ DriverLevels \in Seq(Nat)

Run12 == INSTANCE Run12Report WITH Archives <- Archives12

Record12 == [t : Nat, kind : {"absent", "served", "saturated", "silent", "untuned"}]

\* an archive is in the order of time
InTime(lines) == \A i, j \in DOMAIN lines :
    i < j /\ Torn \notin {lines[i], lines[j]} => lines[i].t < lines[j].t

\* and None is no figure of it
ASSUME Run12Assumption == \A lines \in Archives12 :
    /\ lines \in Seq({Torn} \cup Record12) /\ InTime(lines)
    /\ lines # <<>> /\ (\A i \in DOMAIN lines : lines[i] # Torn) =>
           \A f \in 1..8 : Run12!Figure(f, lines) # None

Run15 == INSTANCE Run15Report WITH Inputs <- Inputs15

Record15 == [cycle : Nat, srv : {None} \cup [ttft : Nat, replicas : Nat]]

ASSUME Run15Assumption ==
    /\ CLIP \in Nat
    /\ \A in \in Inputs15 : /\ in.cycles.A \in Seq({Torn} \cup Record15)
                            /\ in.cycles.B \in Seq({Torn} \cup Record15)

Arms17 == INSTANCE ArmReports WITH Arms <- ArmOrder, Logs <- Logs17

Record17 == [cycle : Nat, servers : Seq([rpm : Nat, repl : Nat])]

ASSUME Arms17Assumption ==
    /\ ArmOrder \in Seq(STRING)
    /\ \A log \in Logs17 : log \in Seq({Torn} \cup Record17)

Overlay == INSTANCE OverlayReports WITH Archives <- Archives19

\* the Controller counts its cycles from one
Record19 == [cycle : Nat \ {0}, srv : {None} \cup Nat]

ASSUME OverlayAssumption == \A log \in Archives19 : log \in {None} \cup Seq(Record19)

ASSUME NoneAssumption == None \notin Nat

Ph == INSTANCE Phases

\* the ratio of a phase is a fraction
ASSUME PhasesAssumption ==
    /\ MaxGap \in Nat /\ MaxElapsed \in Nat
    /\ Files \subseteq Seq([duration : Int, ratio : Int \X (Nat \ {0})])

-----------------------------------------------------------------------------
Sweeps == {"incluster_sweep", "sweep_curve"}
Reports == {"run12", "run15", "run17and18", "surge and run19"}
Programs == Sweeps \cup Reports \cup {"phases"}

\* A variable the chosen program does not have keeps the value None.
Init ==
    /\ program \in Programs
    /\ \/ program = "incluster_sweep" /\ Curve!Init
       \/ program = "sweep_curve" /\ Driver!Init
       \/ program = "run12" /\ Run12!Init
       \/ program = "run15" /\ Run15!Init
       \/ program = "run17and18" /\ Arms17!Init
       \/ program = "surge and run19" /\ Overlay!Init
       \/ program = "phases" /\ Ph!Init
    /\ program = "phases" => pc = None
    /\ program \notin Sweeps =>
          /\ level = None /\ m0 = None /\ rows = None /\ success = None
          /\ finished = None /\ restarted = None /\ faults = None
    /\ program # "incluster_sweep" =>
          runs = None /\ stopped = None /\ worker = None /\ late = None
    /\ program # "sweep_curve" => driver = None
    /\ program \notin {"run12", "run17and18", "surge and run19"} => archive = None
    /\ program \notin {"run12", "run15"} => next = None /\ figs = None
    /\ program # "run12" => pos = None /\ records = None
    /\ program # "run15" => input = None /\ ARMS = None
    /\ program # "run17and18" =>
          /\ todo = None /\ figure18 = None /\ perArm = None /\ figure17 = None
          /\ table = None /\ recordings = None /\ during = None
    /\ program # "surge and run19" => surge = None /\ part = None
    /\ program # "phases" => phases = None /\ elapsed = None /\ reading = None

Next ==
    /\ UNCHANGED program
    /\ \/ program = "incluster_sweep" /\ Curve!Next
       \/ program = "sweep_curve" /\ Driver!Next
       \/ program = "run12" /\ Run12!Next
       \/ program = "run15" /\ Run15!Next
       \/ program = "run17and18" /\ Arms17!Next
       \/ program = "surge and run19" /\ Overlay!Next
       \/ program = "phases" /\ Ph!Next
    /\ program = "phases" => UNCHANGED pc
    /\ program \notin Sweeps =>
          UNCHANGED <<level, m0, rows, success, finished, restarted, faults>>
    /\ program # "incluster_sweep" => UNCHANGED <<runs, stopped, worker, late>>
    /\ program # "sweep_curve" => UNCHANGED driver
    /\ program \notin {"run12", "run17and18", "surge and run19"} => UNCHANGED archive
    /\ program \notin {"run12", "run15"} => UNCHANGED <<next, figs>>
    /\ program # "run12" => UNCHANGED <<pos, records>>
    /\ program # "run15" => UNCHANGED <<input, ARMS>>
    /\ program # "run17and18" =>
          UNCHANGED <<todo, figure18, perArm, figure17, table, recordings, during>>
    /\ program # "surge and run19" => UNCHANGED <<surge, part>>
    /\ program # "phases" => UNCHANGED <<phases, elapsed, reading>>

Spec == Init /\ [][Next]_vars

-----------------------------------------------------------------------------
(***************************************************************************)
(* Properties.                                                             *)
(***************************************************************************)

\* A row of either sweep counts exactly the requests that were finished in its window, unless
\* the server restarted in it: whatever late workers and drivers of other levels do.
RowCountsWindow == [][
    /\ program = "incluster_sweep" => Curve!RowCountsWindow
    /\ program = "sweep_curve" => Driver!RowCountsWindow]_vars

\* The load of a level ends with it: a worker that the stop event does not meet in time sends
\* one request more, and no driver is left untold, however its level was left.
LoadEndsWithLevel ==
    /\ program = "incluster_sweep" => Curve!OneLateRequest
    /\ program = "sweep_curve" => Driver!NoDriverLeft

\* A report script that draws has read the whole of its archives and the figures account for
\* every cycle of them, none beyond the axis; one that prints its last line has replaced every
\* figure.
ReportComplete ==
    /\ program = "run12" => Run12!ReportComplete /\ Run12!GapsExplained
    /\ program = "run15" => Run15!WholeArms /\ Run15!ClippingLosesNothing
    /\ program = "surge and run19" => Overlay!CyclesOnAxis

\* Curves that are laid over one another share their origin and their cycles: the derived
\* concurrency of an arm with its replicas, the two arms of the surge with each other.
CurvesAligned ==
    /\ program = "run15" => Run15!ConcurrencyAligned
    /\ program = "surge and run19" => Overlay!ArmsAligned

\* plot_run18.py leaves no figure of an earlier run when it ends well, although the arms are
\* recorded again while it runs and before.
FiguresOfThisRun == program = "run17and18" => Arms17!FiguresOfThisRun

\* The multiplier of the phase sequence has no jump, and keeps its last value.
NoJump == [][program = "phases" => Ph!NoJump]_vars

=============================================================================
