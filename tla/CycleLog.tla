------------------------------ MODULE CycleLog ------------------------------
(***************************************************************************)
(* The cycle log (pkg/monitor): a Controller appends one JSON line per     *)
(* completed control cycle to a file.                                      *)
(*                                                                         *)
(* A line is a record or Torn, a line that does not parse.  The bytes of a *)
(* record arrive over time; a write may be cut by a full disk or by a      *)
(* restart, and what is appended to an unterminated line is lost with it.  *)
(* The json.Encoder keeps its first write error and refuses every later    *)
(* record (Go's standard library).                                         *)
(***************************************************************************)
EXTENDS Naturals, FiniteSets, Sequences

CONSTANTS Plans,        \* the optimizer's solutions: server -> [acc, n]
          NoAcc,        \* the empty accelerator name
          Torn,         \* a line that is not a JSON document
          NoRecord,     \* no record is being written
          LogEnv,       \* INFERNO_CYCLE_LOG: "unset", "empty", "-" or "path"
          Hostings,     \* where the Controller may run: on this machine, or in a pod
          MaxCycles,    \* bound on control cycles
          MaxFaults     \* bound on restarts and disk outages

Allocation == [acc : UNION {{p[s].acc : s \in DOMAIN p} : p \in Plans}, n : Nat]

ASSUME CycleLogAssumption ==
    /\ \A p \in Plans : DOMAIN p # {} /\ \A s \in DOMAIN p : p[s] \in Allocation
    /\ LogEnv \in {"unset", "empty", "-", "path"}
    /\ Hostings \subseteq {"local", "pod"}
    /\ MaxCycles \in Nat /\ MaxFaults \in Nat

Records == [inc : 0..MaxFaults, cycle : 1..MaxCycles, plan : Plans]

ASSUME TornAssumption == Torn \notin Records /\ NoRecord \notin Records

VARIABLES
    inc,       \* restarts of the Controller so far
    cycleNum,  \* Controller.cycleNum
    log,       \* the lines of the file
    tail,      \* how the last line ends: "ended", "half", "noNewline"
    writing,   \* the record whose bytes are being written
    joined,    \* it continues an unterminated line
    encoder,   \* "ok" or "failed": the error json.Encoder keeps
    disk,      \* "ok" or "full"
    skipped,   \* history: a cycle ended with the disk fine and was not recorded
    cycles,    \* control cycles so far
    faults,    \* restarts and outages so far
    hosting    \* one of Hostings, the same for the whole run

file == <<log, tail, writing, joined>>
logVars == <<inc, cycleNum, file, encoder, disk, skipped, cycles, faults,
             hosting>>

LogTypeOK ==
    /\ inc \in 0..MaxFaults /\ faults \in 0..MaxFaults
    /\ cycleNum \in 0..MaxCycles /\ cycles \in 0..MaxCycles
    /\ log \in Seq(Records \cup {Torn})
    /\ tail \in {"ended", "half", "noNewline"}
    /\ writing \in Records \cup {NoRecord}
    /\ joined \in BOOLEAN /\ skipped \in BOOLEAN
    /\ encoder \in {"ok", "failed"} /\ disk \in {"ok", "full"}
    /\ hosting \in Hostings

LogInit ==
    /\ inc = 0 /\ cycleNum = 0 /\ cycles = 0 /\ faults = 0
    /\ log = <<>> /\ tail = "ended"
    /\ writing = NoRecord /\ joined = FALSE
    /\ encoder = "ok" /\ disk = "ok"
    /\ skipped = FALSE
    /\ hosting \in Hostings

-----------------------------------------------------------------------------
\* NewCycleRecorder: the empty value is the default path, only "-" disables
Enabled == LogEnv # "-"

\* BuildRecord: the solution of the cycle, one row per server
BuildRecord(plan) == [inc |-> inc, cycle |-> cycleNum + 1, plan |-> plan]

\* the accelerator types a record counts capacity for
Allocated(rec) == {rec.plan[s].acc : s \in {t \in DOMAIN rec.plan :
                        rec.plan[t].acc # NoAcc /\ rec.plan[t].n > 0}}

\* the cost of a record, every accelerator costing one unit
TotalCost(rec) == Cardinality({s \in DOMAIN rec.plan : rec.plan[s].n > 0})

\* O_APPEND: the first bytes of rec go behind whatever the file ends with
StartLine(rec) ==
    /\ writing' = rec
    /\ joined' = (tail # "ended")
    /\ log' = IF tail = "ended" THEN Append(log, Torn) ELSE [log EXCEPT ![Len(log)] = Torn]
    /\ tail' = "half"

\* The end of a control cycle: Record encodes and starts to write.  A record with a NaN
\* cannot be encoded and is dropped; the Controller ignores the error of Record.
EndCycle(plan) ==
    /\ cycles < MaxCycles /\ writing = NoRecord
    /\ cycles' = cycles + 1 /\ cycleNum' = cycleNum + 1
    /\ IF Enabled /\ encoder = "ok" /\ disk = "ok"
       THEN StartLine(BuildRecord(plan)) /\ UNCHANGED <<encoder, skipped>>
       ELSE /\ encoder' = IF Enabled /\ disk = "full" THEN "failed" ELSE encoder
            /\ skipped' = (skipped \/ (Enabled /\ disk = "ok"))
            /\ UNCHANGED <<file>>
    /\ UNCHANGED <<inc, disk, faults>>

EndCycleUnencodable ==
    /\ cycles < MaxCycles /\ writing = NoRecord
    /\ cycles' = cycles + 1 /\ cycleNum' = cycleNum + 1
    /\ UNCHANGED <<inc, file, encoder, disk, skipped, faults>>

LastLine(line) == [log EXCEPT ![Len(log)] = IF joined THEN Torn ELSE line]

\* the last byte, the newline, is written
FinishLine ==
    /\ writing # NoRecord /\ disk = "ok"
    /\ log' = LastLine(writing)
    /\ tail' = "ended" /\ writing' = NoRecord /\ joined' = FALSE
    /\ UNCHANGED <<inc, cycleNum, encoder, disk, skipped, cycles, faults>>

\* the disk is full before the end of the line, perhaps before the newline only
CutLine ==
    /\ writing # NoRecord /\ disk = "full"
    /\ \/ tail' = "half" /\ UNCHANGED log
       \/ tail' = "noNewline" /\ log' = LastLine(writing)
    /\ writing' = NoRecord /\ joined' = FALSE
    /\ encoder' = "failed"
    /\ UNCHANGED <<inc, cycleNum, disk, skipped, cycles, faults>>

\* a new Controller counts from zero and appends to what file there is; a container starts
\* without one
Restart ==
    /\ faults < MaxFaults /\ faults' = faults + 1
    /\ inc' = inc + 1 /\ cycleNum' = 0 /\ encoder' = "ok"
    /\ writing' = NoRecord /\ joined' = FALSE
    /\ IF hosting = "local" THEN UNCHANGED <<log, tail>>
       ELSE log' = <<>> /\ tail' = "ended"
    /\ UNCHANGED <<disk, skipped, cycles>>

DiskFills ==
    /\ faults < MaxFaults /\ faults' = faults + 1
    /\ disk = "ok" /\ disk' = "full"
    /\ UNCHANGED <<inc, cycleNum, file, encoder, skipped, cycles>>

DiskFreed ==
    /\ disk = "full" /\ disk' = "ok"
    /\ UNCHANGED <<inc, cycleNum, file, encoder, skipped, cycles, faults>>

LogNext ==
    /\ \/ \E plan \in Plans : EndCycle(plan)
       \/ EndCycleUnencodable
       \/ FinishLine \/ CutLine \/ Restart \/ DiskFills \/ DiskFreed
    /\ UNCHANGED hosting

LogSpec == LogInit /\ [][LogNext]_logVars

-----------------------------------------------------------------------------
Whole(lines) == {lines[i] : i \in DOMAIN lines} \ {Torn}

\* monitor.go:15: "appends one JSON line per control cycle to a file"; here only of the
\* cycles that end while the disk is fine and that can be encoded.
OneLinePerCycle == ~skipped

=============================================================================
