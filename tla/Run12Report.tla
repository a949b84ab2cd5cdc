---------------------------- MODULE Run12Report -----------------------------
(***************************************************************************)
(* experiments/run12/gen_report_figs_run12.py: the report of a run from    *)
(* its archived cycle log.  The script parses every line, then builds and  *)
(* saves eight figures in turn over whatever an earlier run of the script  *)
(* left; anything it does not expect ends it there.                        *)
(*                                                                         *)
(* An archive is a sequence of lines: a record, or Torn, a line that does  *)
(* not parse.  Of a record the model keeps its time, in minutes, and what  *)
(* became of the server in that cycle: "absent", or "served" with measured *)
(* latencies, "saturated" or "silent" with zeros because every pod was     *)
(* saturated or none answered, "untuned" without model parameters.  A      *)
(* series has a value or None per record.  Colours, labels and reference   *)
(* lines are left out.                                                     *)
(***************************************************************************)
EXTENDS Integers, Sequences, FiniteSets

CONSTANTS Archives,     \* the archives: sequences of lines, in the order of time
          Torn,         \* a line that is not a JSON document
          None,         \* no value: a gap in a curve
          phase_ts      \* when each load phase started, a non-empty sequence

VARIABLES
    archive,  \* the file inferno-cycles.jsonl
    pc,       \* "load", "plot", "done", "crashed"
    pos,      \* lines read
    records,  \* what they parsed to
    next,     \* the figure to be drawn next
    figs      \* the files in figs/: a figure, or None for what was there before

vars == <<archive, pc, pos, records, next, figs>>

FigureNames == <<"load_replicas", "latency", "tokens", "swe_alpha", "swe_beta", "swe_gamma",
                 "timing", "cost">>

Init ==
    /\ archive \in Archives
    /\ pc = "load" /\ pos = 0 /\ records = <<>>
    /\ next = 1 /\ figs = [f \in 1..Len(FigureNames) |-> None]

-----------------------------------------------------------------------------
(***************************************************************************)
(* Series and shading.                                                     *)
(***************************************************************************)

times(recs) == [i \in DOMAIN recs |-> recs[i].t]

\* a field of the server's row; the latencies are zero when no pod was averaged
Field(rec, field) ==
    IF field \in {"itl", "ttft"} /\ rec.kind \in {"saturated", "silent"} THEN 0 ELSE 1

server_series(recs, field) ==
    [i \in DOMAIN recs |-> IF recs[i].kind = "absent" THEN None ELSE Field(recs[i], field)]

internal_series(recs) ==
    [i \in DOMAIN recs |-> IF recs[i].kind \in {"absent", "untuned"} THEN None ELSE 1]

\* v if v and v > 0 else None
positive(series) == [i \in DOMAIN series |-> IF series[i] = 0 THEN None ELSE series[i]]

\* what matplotlib draws of a series: the values that are there
Plot(recs, series) ==
    {[t |-> times(recs)[i], v |-> series[i]] : i \in {j \in DOMAIN recs : series[j] # None}}

xlim_end(recs) == recs[Len(recs)].t + 1

\* the minutes axvspan shades of each phase; the span of a phase that starts after the end
\* of the axis runs backwards and lies outside of it
add_phase_shading(recs) ==
    LET boundaries == Append(phase_ts, xlim_end(recs))
    IN [i \in DOMAIN phase_ts |->
          IF boundaries[i] <= boundaries[i + 1] THEN boundaries[i]..(boundaries[i + 1] - 1)
          ELSE boundaries[i + 1]..(boundaries[i] - 1)]

Axis(recs, curves) == [curves |-> curves, marks |-> {}, shading |-> add_phase_shading(recs)]

-----------------------------------------------------------------------------
(***************************************************************************)
(* The eight figures, each a sequence of axes.                             *)
(***************************************************************************)

FigLoadReplicas(recs) ==
    <<Axis(recs, {Plot(recs, server_series(recs, "rpm")),
                  Plot(recs, server_series(recs, "throughput"))}),
      Axis(recs, {Plot(recs, server_series(recs, "replicas"))})>>

\* sat_times: v == 0, which None is not
sat_times(recs) == {times(recs)[i] : i \in
    {j \in DOMAIN recs : server_series(recs, "ttft")[j] = 0}}

\* zero latencies are gaps; on the TTFT axis they are marked
FigLatency(recs) ==
    <<Axis(recs, {Plot(recs, positive(server_series(recs, "itl")))}),
      [Axis(recs, {Plot(recs, positive(server_series(recs, "ttft")))}) EXCEPT
          !.marks = sat_times(recs)]>>

FigTokens(recs) ==
    <<Axis(recs, {Plot(recs, server_series(recs, "avgInTok"))}),
      Axis(recs, {Plot(recs, server_series(recs, "avgOutTok"))})>>

FigAlpha(recs) == <<Axis(recs, {Plot(recs, internal_series(recs))})>>
FigBeta(recs) == <<Axis(recs, {Plot(recs, internal_series(recs))})>>
FigGamma(recs) == <<Axis(recs, {Plot(recs, internal_series(recs))})>>

\* timing and cost are of the cycle, not of the server
OfCycle(recs) == [i \in DOMAIN recs |-> 1]

FigTiming(recs) == <<Axis(recs, {Plot(recs, OfCycle(recs))})>>
FigCost(recs) == <<Axis(recs, {Plot(recs, OfCycle(recs))})>>

Figure(f, recs) ==
    CASE FigureNames[f] = "load_replicas" -> FigLoadReplicas(recs)
      [] FigureNames[f] = "latency" -> FigLatency(recs)
      [] FigureNames[f] = "tokens" -> FigTokens(recs)
      [] FigureNames[f] = "swe_alpha" -> FigAlpha(recs)
      [] FigureNames[f] = "swe_beta" -> FigBeta(recs)
      [] FigureNames[f] = "swe_gamma" -> FigGamma(recs)
      [] FigureNames[f] = "timing" -> FigTiming(recs)
      [] FigureNames[f] = "cost" -> FigCost(recs)

-----------------------------------------------------------------------------
(***************************************************************************)
(* The script.                                                             *)
(***************************************************************************)

\* Mutant: a line that does not parse is passed over.
LoadLineLenient ==
    /\ pc = "load" /\ pos < Len(archive)
    /\ pos' = pos + 1
    /\ records' = IF archive[pos + 1] = Torn THEN records ELSE Append(records, archive[pos + 1])
    /\ UNCHANGED <<archive, pc, next, figs>>

\* json.loads raises on a line that does not parse, and nothing catches it
LoadLine ==
    /\ pc = "load" /\ pos < Len(archive)
    /\ pos' = pos + 1
    /\ IF archive[pos + 1] = Torn THEN pc' = "crashed" /\ UNCHANGED records
       ELSE records' = Append(records, archive[pos + 1]) /\ UNCHANGED pc
    /\ UNCHANGED <<archive, next, figs>>

Loaded ==
    /\ pc = "load" /\ pos = Len(archive)
    /\ pc' = "plot"
    /\ UNCHANGED <<archive, pos, records, next, figs>>

\* a figure is drawn and replaces the file; without a record times[-1] raises
DrawFigure ==
    /\ pc = "plot" /\ next <= Len(FigureNames)
    /\ IF records = <<>>
       THEN pc' = "crashed" /\ UNCHANGED <<next, figs>>
       ELSE /\ figs' = [figs EXCEPT ![next] = Figure(next, records)]
            /\ next' = next + 1 /\ UNCHANGED pc
    /\ UNCHANGED <<archive, pos, records>>

\* a file cannot be written, or the script is interrupted
Interrupted ==
    /\ pc = "plot" /\ pc' = "crashed"
    /\ UNCHANGED <<archive, pos, records, next, figs>>

\* "All Run 12 figures generated."
AllGenerated ==
    /\ pc = "plot" /\ next > Len(FigureNames)
    /\ pc' = "done"
    /\ UNCHANGED <<archive, pos, records, next, figs>>

Next == LoadLine \/ Loaded \/ DrawFigure \/ Interrupted \/ AllGenerated

Spec == Init /\ [][Next]_vars

-----------------------------------------------------------------------------
(***************************************************************************)
(* Properties.                                                             *)
(***************************************************************************)

\* Every figure drawn is of the whole archive, not of an earlier one or of a part of this one,
\* and a script that prints its last line has drawn all of them.
ReportComplete ==
    /\ \A f \in DOMAIN figs : figs[f] # None =>
          /\ Torn \notin {archive[i] : i \in DOMAIN archive}
          /\ figs[f] = Figure(f, archive)
    /\ pc = "done" => \A f \in DOMAIN figs : figs[f] # None

Drawn(axis) == UNION {{pt.t : pt \in curve} : curve \in axis.curves}

\* On the TTFT axis a cycle is a point, a mark or, when the log does not have the server, a
\* gap without a mark, and only one of these.
GapsExplained == figs[2] # None =>
    LET axis == figs[2][2]
        missing == {archive[i].t : i \in {j \in DOMAIN archive : archive[j].kind = "absent"}}
    IN /\ Drawn(axis) \cup axis.marks \cup missing = {archive[i].t : i \in DOMAIN archive}
       /\ Drawn(axis) \cap axis.marks = {}
       /\ (Drawn(axis) \cup axis.marks) \cap missing = {}

=============================================================================
