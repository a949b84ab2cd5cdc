---------------------------- MODULE DriverSweep -----------------------------
(***************************************************************************)
(* experiments/run16/sweep_curve.py: the same curve with GuideLLM as the   *)
(* load driver.  For every level main starts a driver process, reads the   *)
(* server's counters at both ends of a window, and ends the driver in a    *)
(* finally clause; terminate() and pkill send a signal and do not wait.    *)
(*                                                                         *)
(* The driver is external: it completes requests while it runs, and ends   *)
(* some time after the signal, by its own --max-seconds, or by an error.   *)
(***************************************************************************)
EXTENDS Integers, Sequences

CONSTANTS Levels,      \* the concurrency levels, in order
          MaxSuccess,  \* bound on the server's request counter
          MaxFaults    \* bound on failures of the tunnel, the server and the driver

VARIABLES
    pc,         \* "next", "ramp", "window", "drain", "done", "crashed"
    level,
    driver,     \* of each level: "none", "running", "signalled", "gone"
    m0,         \* the counter at the start of the window
    rows,       \* the rows printed
    success,    \* vllm:request_success_total
    finished,   \* history: requests finished in the window
    restarted,  \* history: the server restarted in the window
    faults

vars == <<pc, level, driver, m0, rows, success, finished, restarted, faults>>

Init ==
    /\ pc = "next" /\ level = 0
    /\ driver = [l \in DOMAIN Levels |-> "none"]
    /\ m0 = 0 /\ rows = <<>> /\ success = 0
    /\ finished = 0 /\ restarted = FALSE /\ faults = 0

Fault == faults < MaxFaults /\ faults' = faults + 1

\* subprocess.Popen
StartLevel ==
    /\ pc = "next" /\ level < Len(Levels)
    /\ level' = level + 1 /\ pc' = "ramp"
    /\ driver' = [driver EXCEPT ![level + 1] = "running"]
    /\ UNCHANGED <<m0, rows, success, finished, restarted, faults>>

\* Mutant: the first reading is taken before the ramp.
OpenWindowEarly ==
    /\ pc = "ramp" /\ pc' = "window"
    /\ m0' \in 0..success
    /\ finished' = 0 /\ restarted' = FALSE
    /\ UNCHANGED <<level, driver, rows, success, faults>>

OpenWindow ==
    /\ pc = "ramp" /\ pc' = "window"
    /\ m0' = success
    /\ finished' = 0 /\ restarted' = FALSE
    /\ UNCHANGED <<level, driver, rows, success, faults>>

\* terminate() signals the driver of the level, pkill every driver there is
SignalDrivers == driver' = [l \in DOMAIN Levels |->
                               IF driver[l] = "running" THEN "signalled" ELSE driver[l]]

\* m1 = metrics(), the finally clause, and the row of the differences
CloseWindow ==
    /\ pc = "window" /\ pc' = "drain"
    /\ SignalDrivers
    /\ rows' = Append(rows, success - m0)
    /\ UNCHANGED <<level, m0, success, finished, restarted, faults>>

\* Mutant: there is no finally.
MetricsFailLeavesDriver ==
    /\ Fault /\ pc \in {"ramp", "window"} /\ pc' = "crashed"
    /\ UNCHANGED <<level, driver, m0, rows, success, finished, restarted>>

\* metrics() raises (a lost port-forward): the finally clause runs, then main ends
MetricsFail ==
    /\ Fault /\ pc \in {"ramp", "window"} /\ pc' = "crashed"
    /\ SignalDrivers
    /\ UNCHANGED <<level, m0, rows, success, finished, restarted>>

\* time.sleep(DRAIN_S)
Drained ==
    /\ pc = "drain" /\ pc' = "next"
    /\ UNCHANGED <<level, driver, m0, rows, success, finished, restarted, faults>>

SweepDone ==
    /\ pc = "next" /\ level = Len(Levels) /\ pc' = "done"
    /\ UNCHANGED <<level, driver, m0, rows, success, finished, restarted, faults>>

Main == StartLevel \/ OpenWindow \/ CloseWindow \/ Drained \/ SweepDone

-----------------------------------------------------------------------------
\* a driver's request is answered; a signalled driver may still have some
Answered ==
    /\ \E l \in DOMAIN Levels : driver[l] \in {"running", "signalled"}
    /\ success < MaxSuccess /\ success' = success + 1
    /\ finished' = IF pc = "window" THEN finished + 1 ELSE finished
    /\ UNCHANGED <<pc, level, driver, m0, rows, restarted, faults>>

DriverEnds(l) ==
    /\ driver[l] = "signalled" /\ driver' = [driver EXCEPT ![l] = "gone"]
    /\ UNCHANGED <<pc, level, m0, rows, success, finished, restarted, faults>>

DriverFails(l) ==
    /\ Fault /\ driver[l] = "running" /\ driver' = [driver EXCEPT ![l] = "gone"]
    /\ UNCHANGED <<pc, level, m0, rows, success, finished, restarted>>

ServerRestart ==
    /\ Fault
    /\ success' = 0 /\ restarted' = TRUE
    /\ UNCHANGED <<pc, level, driver, m0, rows, finished>>

Next ==
    \/ Main \/ MetricsFail
    \/ Answered
    \/ \E l \in DOMAIN Levels : DriverEnds(l) \/ DriverFails(l)
    \/ ServerRestart

Spec == Init /\ [][Next]_vars

-----------------------------------------------------------------------------
\* Outside the try block no driver runs that was not told to end, however the block was
\* left (the finally clause): the load of a level never outlives a crash of the sweep.
NoDriverLeft == pc \notin {"ramp", "window"} =>
    \A l \in DOMAIN Levels : driver[l] # "running"

\* Without a restart of the server in its window, a row counts exactly the requests that
\* were finished in the window.
RowCountsWindow == pc = "window" /\ pc' = "drain" /\ ~restarted =>
    rows'[Len(rows')] = finished

=============================================================================
