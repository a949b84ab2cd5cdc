----------------------------- MODULE Dashboard ------------------------------
(***************************************************************************)
(* The dashboard (dashboard/dashboard.py) beside the Controller that       *)
(* writes the cycle log: the thread that copies the log out of the pod,    *)
(* the refresh that reads the local file line by line, and the six panels  *)
(* it draws.                                                               *)
(*                                                                         *)
(* Without pod sync the dashboard reads the very file the Controller       *)
(* appends to.  A panel is the set of its points: the trace, the x value   *)
(* and the record the y values are taken from; the order of the points and *)
(* the looks of a figure are left out.                                     *)
(***************************************************************************)
EXTENDS CycleLog, Functions

CONSTANT PerfPairs  \* the accelerators the model data has an entry for

\* INFERNO_POD_SYNC is set when the Controller runs in a pod
PodSync == hosting = "pod"

VARIABLES
    syncPc,    \* the sync thread: "exec", "write", "sleep" (and "dead", in a mutant)
    fetched,   \* stdout of kubectl exec
    copy,      \* the file at LOG_PATH when pod sync is on
    view,      \* the refresh in progress
    panels,    \* the figures the page shows
    shown,     \* history: the records behind them
    legible    \* history: the whole lines of the file when the refresh opened it

syncVars == <<syncPc, fetched, copy>>
viewVars == <<view, panels, shown, legible>>
vars == <<logVars, syncVars, viewVars>>

NoView == [pc |-> "idle", opened |-> <<>>, pos |-> 0, records |-> <<>>]
NoPanels == [workload |-> {}, performance |-> {}, replicas |-> {}, cost |-> {},
             occupancy |-> {}, capacity |-> {}, internals |-> {}]

TypeOK ==
    /\ LogTypeOK
    /\ syncPc \in {"exec", "write", "sleep"}
    /\ {fetched, copy, view.opened} \subseteq Seq(Records \cup {Torn})
    /\ view.pc \in {"idle", "reading"} /\ view.pos \in Nat
    /\ view.records \in Seq(Records)
    /\ DOMAIN panels = DOMAIN NoPanels
    /\ shown \subseteq Records /\ legible \subseteq Records

Init ==
    /\ LogInit
    /\ syncPc = "exec" /\ fetched = <<>> /\ copy = <<>>
    /\ view = NoView /\ panels = NoPanels
    /\ shown = {} /\ legible = {}

-----------------------------------------------------------------------------
(***************************************************************************)
(* _sync_pod_log.                                                          *)
(***************************************************************************)

\* Mutant: an empty answer replaces the copy.
SyncExecTakesEmpty ==
    /\ syncPc = "exec"
    /\ fetched' = log /\ syncPc' = "write"
    /\ UNCHANGED <<copy, logVars, viewVars>>

\* kubectl exec cat answers with the file as it is, or with nothing
SyncExec ==
    /\ syncPc = "exec"
    /\ IF log = <<>> THEN syncPc' = "sleep" /\ UNCHANGED fetched
       ELSE syncPc' = "write" /\ fetched' = log
    /\ UNCHANGED <<copy, logVars, viewVars>>

\* Mutant: the exception ends the thread.
SyncFailDies ==
    /\ faults < MaxFaults /\ faults' = faults + 1
    /\ syncPc \in {"exec", "write"}
    /\ syncPc' = "dead" /\ fetched' = <<>>
    /\ UNCHANGED <<copy, inc, cycleNum, file, encoder, disk, skipped, cycles, hosting, viewVars>>

\* a non-zero exit, the 30 s timeout or an exception of the temporary file or of replace
SyncFail ==
    /\ faults < MaxFaults /\ faults' = faults + 1
    /\ syncPc \in {"exec", "write"}
    /\ syncPc' = "sleep" /\ fetched' = <<>>
    /\ UNCHANGED <<copy, inc, cycleNum, file, encoder, disk, skipped, cycles, hosting, viewVars>>

\* the temporary file is complete before os.replace puts it in place
SyncWrite ==
    /\ syncPc = "write"
    /\ copy' = fetched /\ fetched' = <<>>
    /\ syncPc' = "sleep"
    /\ UNCHANGED <<logVars, viewVars>>

SyncWake ==
    /\ syncPc = "sleep" /\ syncPc' = "exec"
    /\ UNCHANGED <<fetched, copy, logVars, viewVars>>

Sync == PodSync /\ (SyncExec \/ SyncWrite \/ SyncWake)

-----------------------------------------------------------------------------
(***************************************************************************)
(* The panels, of the records of one reading.                              *)
(***************************************************************************)

Point(trace, rec) == [trace |-> trace, x |-> rec.cycle, from |-> rec]

\* one point per row of servers_df
ServerPoints(recs) == UNION {{Point(s, rec) : s \in DOMAIN rec.plan} : rec \in Range(recs)}

fig_workload(recs) == ServerPoints(recs)
fig_performance(recs) == ServerPoints(recs)
fig_occupancy(recs) == ServerPoints(recs)
fig_replicas(recs) == ServerPoints(recs)

\* Mutant: duplicates are dropped by the cost.
FigCostByValue(recs) == {Point("cost", recs[i]) : i \in {j \in DOMAIN recs :
    \A k \in 1..(j - 1) : TotalCost(recs[k]) # TotalCost(recs[j])}}

\* drop_duplicates("cycle") keeps the first record of a cycle number
fig_cost(recs) == {Point("cost", recs[i]) : i \in {j \in DOMAIN recs :
    \A k \in 1..(j - 1) : recs[k].cycle # recs[j].cycle}}

fig_capacity(recs) == UNION {{Point(a, rec) : a \in Allocated(rec)} : rec \in Range(recs)}

\* the accelerators any row of servers_df is on
ActivePairs(recs) == UNION {{rec.plan[s].acc : s \in DOMAIN rec.plan} : rec \in Range(recs)}

fig_internals(recs) == {Point(a, rec) : a \in PerfPairs \cap ActivePairs(recs), rec \in Range(recs)}

Figures(recs) ==
    IF recs = <<>> THEN NoPanels
    ELSE [workload |-> fig_workload(recs), performance |-> fig_performance(recs),
          replicas |-> fig_replicas(recs), cost |-> fig_cost(recs),
          occupancy |-> fig_occupancy(recs), capacity |-> fig_capacity(recs),
          internals |-> fig_internals(recs)]

-----------------------------------------------------------------------------
(***************************************************************************)
(* update: load_data, then the panels.                                     *)
(***************************************************************************)

\* The file being read: an open file keeps its contents when os.replace puts another in
\* its place, and grows when the Controller appends to it.
FileRead == IF PodSync THEN view.opened ELSE log

Open ==
    /\ view.pc = "idle"
    /\ view' = [NoView EXCEPT !.pc = "reading", !.opened = IF PodSync THEN copy ELSE <<>>]
    /\ legible' = Whole(IF PodSync THEN copy ELSE log)
    /\ UNCHANGED <<panels, shown, logVars, syncVars>>

\* Mutant: the reading stops at the first line that does not parse.
ReadLineStrict ==
    LET line == FileRead[view.pos + 1] IN
    /\ view.pc = "reading" /\ view.pos < Len(FileRead)
    /\ view' = IF line = Torn THEN [view EXCEPT !.pos = Len(FileRead)]
               ELSE [view EXCEPT !.pos = @ + 1, !.records = Append(@, line)]
    /\ UNCHANGED <<panels, shown, legible, logVars, syncVars>>

\* a line that does not parse is passed over; it is not read again when it is completed
ReadLine ==
    LET line == FileRead[view.pos + 1] IN
    /\ view.pc = "reading" /\ view.pos < Len(FileRead)
    /\ view' = [view EXCEPT !.pos = @ + 1,
                            !.records = IF line = Torn THEN @ ELSE Append(@, line)]
    /\ UNCHANGED <<panels, shown, legible, logVars, syncVars>>

\* end of file: the six figures are built from the records read
Draw ==
    /\ view.pc = "reading" /\ view.pos >= Len(FileRead)
    /\ panels' = Figures(view.records)
    /\ shown' = Range(view.records)
    /\ view' = NoView
    /\ UNCHANGED <<legible, logVars, syncVars>>

Refresh == Open \/ ReadLine \/ Draw

-----------------------------------------------------------------------------
Controller == LogNext /\ UNCHANGED <<syncVars, viewVars>>

Next ==
    \/ Controller
    \/ Sync
    \/ PodSync /\ SyncFail
    \/ Refresh

Spec == Init /\ [][Next]_vars

\* the sync thread and the page's interval timer run on; the disk is freed and a line
\* that was begun is finished
FairSpec ==
    /\ Spec
    /\ WF_vars(Sync) /\ WF_vars(Refresh)
    /\ WF_vars(DiskFreed /\ UNCHANGED <<hosting, syncVars, viewVars>>)
    /\ WF_vars((FinishLine \/ CutLine) /\ UNCHANGED <<hosting, syncVars, viewVars>>)

-----------------------------------------------------------------------------
(***************************************************************************)
(* Properties.                                                             *)
(***************************************************************************)

\* A refresh shows every record that was legible when it opened the file, whatever torn
\* lines lie before it and whatever is appended or replaced meanwhile, unless a later
\* record was joined to it (load_data's try around every line).
RefreshComplete == [][view.pc = "reading" /\ view'.pc = "idle" =>
    \A rec \in legible : rec \in shown' \/ (~PodSync /\ rec \notin Whole(log))]_vars

\* The page does not go blank when the Controller comes back with an empty log: only a file that
\* has lines blanks it, and in a pod only one that had none that parses when it was opened (the
\* test of result.stdout).  A local log may lose its records to joined lines while it is read,
\* which RefreshComplete is about: for it the property only says that the file has lines.
NeverBlank == [][shown # {} /\ shown' = {} => FileRead # <<>> /\ Whole(view.opened) = {}]_vars

\* Where the log does not outlive the Controller, the cost at a cycle is the cost of the
\* replicas shown at that cycle (drop_duplicates("cycle") keeps the first).
CostMatchesReplicas ==
    hosting = "pod" =>
    {<<pt.x, pt.from>> : pt \in panels.cost} = {<<pt.x, pt.from>> : pt \in panels.replicas}

\* When the Controller writes no more, the page comes to show every legible record.
EventuallyShown == <>[](log # <<>> => shown = Whole(log))

=============================================================================
