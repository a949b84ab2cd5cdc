----------------------------- MODULE CurveSweep -----------------------------
(***************************************************************************)
(* experiments/run16/incluster_sweep.py: the curve of one vLLM pod.  For   *)
(* every level the main thread starts that many worker threads, lets them  *)
(* ramp up, reads the server's counters at both ends of a window and       *)
(* prints one row from the difference.                                     *)
(*                                                                         *)
(* The workers of a level are told to stop but not joined.  Levels is the  *)
(* sequence of levels of all shapes; time passes without a measure, so a   *)
(* request may outlast any sleep.  The server is modelled by its request   *)
(* counter and the requests it runs; a restart sets the counter to zero.   *)
(***************************************************************************)
EXTENDS Integers, FiniteSets, Sequences

CONSTANTS Levels,      \* the concurrency of each level of each shape, a sequence
          MaxSuccess,  \* bound on the server's request counter
          MaxFaults    \* bound on server restarts and failed reads of the metrics

\* the i-th worker of level l is <<l, i>>
Workers == {w \in (DOMAIN Levels) \X UNION {1..Levels[l] : l \in DOMAIN Levels} :
                w[2] <= Levels[w[1]]}

VARIABLES
    \* the main thread
    pc,         \* "next", "ramp", "window", "drain", "done", "crashed"
    level,      \* the level of the loop
    m0,         \* the counter at the start of the window
    runs,       \* the largest number of running requests sampled in the window
    rows,       \* the rows printed
    \* the workers
    stopped,    \* the levels whose stop event is set
    worker,     \* "none", "test", "send", "wait", "pause", "gone"
    \* the server
    success,    \* vllm:request_success_total
    \* history
    late,       \* requests each worker sent after its level was over
    finished,   \* requests finished in the window
    restarted,  \* the server restarted in the window
    faults

mainVars == <<pc, level, m0, runs, rows, stopped>>
vars == <<mainVars, worker, success, late, finished, restarted, faults>>

Init ==
    /\ pc = "next" /\ level = 0 /\ m0 = 0 /\ runs = 0 /\ rows = <<>>
    /\ stopped = {} /\ worker = [w \in Workers |-> "none"]
    /\ success = 0
    /\ late = [w \in Workers |-> 0] /\ finished = 0 /\ restarted = FALSE /\ faults = 0

Running == {w \in Workers : worker[w] = "wait"}

-----------------------------------------------------------------------------
(***************************************************************************)
(* The worker threads.                                                     *)
(***************************************************************************)

Step(w, from, to) == worker[w] = from /\ worker' = [worker EXCEPT ![w] = to]

\* while not stop.is_set()
Test(w) ==
    /\ Step(w, "test", IF w[1] \in stopped THEN "gone" ELSE "send")
    /\ UNCHANGED <<mainVars, success, late, finished, restarted, faults>>

Send(w) ==
    /\ Step(w, "send", "wait")
    /\ late' = IF w[1] \in stopped THEN [late EXCEPT ![w] = @ + 1] ELSE late
    /\ UNCHANGED <<mainVars, success, finished, restarted, faults>>

\* the completion is answered
Answered(w) ==
    /\ success < MaxSuccess
    /\ Step(w, "wait", "test")
    /\ success' = success + 1
    /\ finished' = IF pc = "window" THEN finished + 1 ELSE finished
    /\ UNCHANGED <<mainVars, late, restarted, faults>>

\* an HTTP error, a lost connection or the 600 s timeout: half a second's sleep
Failed(w) ==
    /\ Step(w, "wait", "pause")
    /\ UNCHANGED <<mainVars, success, late, finished, restarted, faults>>

Resume(w) ==
    /\ Step(w, "pause", "test")
    /\ UNCHANGED <<mainVars, success, late, finished, restarted, faults>>

Work(w) == Test(w) \/ Send(w) \/ Answered(w) \/ Failed(w) \/ Resume(w)

-----------------------------------------------------------------------------
(***************************************************************************)
(* The main thread.                                                        *)
(***************************************************************************)

StartLevel ==
    /\ pc = "next" /\ level < Len(Levels)
    /\ level' = level + 1 /\ pc' = "ramp"
    /\ worker' = [w \in Workers |-> IF w[1] = level + 1 THEN "test" ELSE worker[w]]
    /\ UNCHANGED <<m0, runs, rows, stopped, success, late, finished, restarted, faults>>

\* Mutant: the first reading is kept from the level before.
StaleFirstReading ==
    /\ pc = "ramp" /\ pc' = "window"
    /\ m0' = IF level = 1 THEN success ELSE m0
    /\ runs' = 0
    /\ finished' = 0 /\ restarted' = FALSE
    /\ UNCHANGED <<level, rows, stopped, worker, success, late, faults>>

\* m0 = metrics() after the ramp
OpenWindow ==
    /\ pc = "ramp" /\ pc' = "window"
    /\ m0' = success
    /\ runs' = 0
    /\ finished' = 0 /\ restarted' = FALSE
    /\ UNCHANGED <<level, rows, stopped, worker, success, late, faults>>

Sample ==
    /\ pc = "window"
    /\ runs' = IF Cardinality(Running) > runs THEN Cardinality(Running) ELSE runs
    /\ UNCHANGED <<pc, level, m0, rows, stopped, worker, success, late, finished, restarted,
                   faults>>

Row == [level |-> level, succ |-> success - m0, run |-> runs]

\* m1 = metrics(), stop.set(), and the row of the differences
CloseWindow ==
    /\ pc = "window" /\ pc' = "drain"
    /\ rows' = Append(rows, Row)
    /\ stopped' = stopped \cup {level}
    /\ UNCHANGED <<level, m0, runs, worker, success, late, finished, restarted, faults>>

\* time.sleep(6)
Drained ==
    /\ pc = "drain" /\ pc' = "next"
    /\ UNCHANGED <<level, m0, runs, rows, stopped, worker, success, late, finished, restarted,
                   faults>>

\* the process ends and its daemon threads with it
Exit(end) ==
    /\ pc' = end
    /\ worker' = [w \in Workers |-> "gone"]
    /\ UNCHANGED <<level, m0, runs, rows, stopped, success, late, finished, restarted>>

SweepDone == pc = "next" /\ level = Len(Levels) /\ Exit("done") /\ UNCHANGED faults

\* metrics() raises: nothing catches it
MetricsFail ==
    /\ faults < MaxFaults /\ faults' = faults + 1
    /\ pc \in {"ramp", "window"} /\ Exit("crashed")

Main == StartLevel \/ OpenWindow \/ CloseWindow \/ Drained \/ SweepDone

\* the pod restarts: the counter is zero again and the connections are lost
ServerRestart ==
    /\ faults < MaxFaults /\ faults' = faults + 1
    /\ success' = 0 /\ restarted' = TRUE
    /\ worker' = [w \in Workers |-> IF worker[w] = "wait" THEN "pause" ELSE worker[w]]
    /\ UNCHANGED <<mainVars, late, finished>>

Next ==
    \/ Main \/ Sample \/ MetricsFail
    \/ \E w \in Workers : Work(w)
    \/ ServerRestart

Spec == Init /\ [][Next]_vars

-----------------------------------------------------------------------------
(***************************************************************************)
(* Properties.                                                             *)
(***************************************************************************)

\* A worker sends at most one request once its level is over: the one that stop.set() met
\* between the test of the event and the call.
OneLateRequest == \A w \in Workers : late[w] <= 1

\* Without a restart of the server in its window, a row counts exactly the requests that
\* were finished in the window, whatever level they belong to.
RowCountsWindow == pc = "window" /\ pc' = "drain" /\ ~restarted =>
    rows'[Len(rows')].succ = finished

=============================================================================
