--------------------------- MODULE OverlayReports ---------------------------
(***************************************************************************)
(* Two scripts that lay runs over one another: run16/plot_surge.py, which  *)
(* aligns two arms at their first cycle, and run19's                       *)
(* gen_report_figs_run19.py, which draws run19 by itself, over run18 and,  *)
(* when there is one, over the archive from before a fix.                  *)
(*                                                                         *)
(* An archive is None, a missing file, or a sequence of records; of a      *)
(* record the model keeps the cycle and the row of the one server, None if *)
(* the record does not have it.  Of a row it keeps TTFT.  The looks of a   *)
(* figure are left out, but for the logarithmic axis that cannot show a    *)
(* zero.                                                                   *)
(***************************************************************************)
EXTENDS Integers, FiniteSets, Sequences

CONSTANTS Archives,  \* what an archive may be, None included
          None       \* no file, no row, no figure of today

Sources == {"surgeA", "surgeB", "run19", "run18", "before"}

VARIABLES
    archive,  \* the archives
    surge,    \* run16-surge-ab.png
    pc,       \* gen_report_figs_run19.py: "partA", "partB", "bonus", "done", "crashed"
    part      \* run19-autoscaling.png, run19-vs-run18.png, run19-arrival-fix.png

vars == <<archive, surge, pc, part>>

Parts == {"partA", "partB", "bonus"}

\* the archives are there before the scripts run; the fields not needed are not told apart
Init ==
    /\ archive \in [Sources -> Archives]
    /\ surge = None
    /\ pc = "partA" /\ part = [p \in Parts |-> None]

-----------------------------------------------------------------------------
(***************************************************************************)
(* plot_surge.py.                                                          *)
(***************************************************************************)

\* the records that have the model, each at its place in the file
load(log) == [i \in {j \in DOMAIN log : log[j].srv # None} |-> log[i]]

first(rows) == rows[CHOOSE i \in DOMAIN rows : \A j \in DOMAIN rows : i <= j]

col(rows) == [i \in DOMAIN rows |-> rows[i].srv]

\* Mutant: both arms count from the first cycle of arm A.
RelToA(rows) == [i \in DOMAIN rows |-> rows[i].cycle - first(load(archive["surgeA"])).cycle]

rel(rows) == [i \in DOMAIN rows |-> rows[i].cycle - first(rows).cycle]

Curve(xs, ys) == {[x |-> xs[i], y |-> ys[i]] : i \in DOMAIN xs}

\* a missing file raises, and so does an arm without a row: then nothing is saved
PlotSurge ==
    /\ surge = None
    /\ \A a \in {"surgeA", "surgeB"} : archive[a] # None
    /\ LET rows == [a \in {"surgeA", "surgeB"} |-> load(archive[a])]
           overTime == [a \in {"surgeA", "surgeB"} |-> Curve(rel(rows[a]), col(rows[a]))]
       IN /\ \A a \in {"surgeA", "surgeB"} : DOMAIN rows[a] # {}
          /\ surge' = [rpm |-> overTime, itl |-> overTime, control |-> overTime,
                       scatter |-> [a \in {"surgeA", "surgeB"} |->
                                      Curve(col(rows[a]), col(rows[a]))]]
    /\ UNCHANGED <<archive, pc, part>>

-----------------------------------------------------------------------------
(***************************************************************************)
(* gen_report_figs_run19.py.                                               *)
(***************************************************************************)

\* a row per record, zeros for a record without the server; no rows for a missing file
load_rows(log) ==
    IF log = None THEN <<>>
    ELSE [i \in DOMAIN log |-> [cycle |-> log[i].cycle,
                                ttft |-> IF log[i].srv = None THEN 0 ELSE log[i].srv]]

cycles(rows) == [i \in DOMAIN rows |-> rows[i].cycle]
ttft(rows) == [i \in DOMAIN rows |-> rows[i].ttft]

maxcyc(rows) == CHOOSE m \in {rows[i].cycle : i \in DOMAIN rows} :
    \A i \in DOMAIN rows : rows[i].cycle <= m

\* set_xlim: the limits the phases are shaded in
shade(rows) == 1..(maxcyc(rows) + 1)

\* set_yscale("log"): a zero is not drawn
LogCurve(rows) == {pt \in Curve(cycles(rows), ttft(rows)) : pt.y > 0}

\* run19 by itself; max(c) raises when there is no row, before anything is saved
PartA ==
    /\ pc = "partA"
    /\ LET rows == load_rows(archive["run19"]) IN
       IF rows = <<>> THEN pc' = "crashed" /\ UNCHANGED part
       ELSE /\ pc' = "partB"
            /\ part' = [part EXCEPT !["partA"] =
                  [ttft |-> LogCurve(rows), repl |-> Curve(cycles(rows), ttft(rows)),
                   xlim |-> shade(rows)]]
    /\ UNCHANGED <<archive, surge>>

\* run19 over run18, whose archive may be missing
PartB ==
    /\ pc = "partB" /\ pc' = "bonus"
    /\ LET rows == [a \in {"run19", "run18"} |-> load_rows(archive[a])] IN
       part' = [part EXCEPT !["partB"] =
          [ttft |-> [a \in DOMAIN rows |-> LogCurve(rows[a])],
           repl |-> [a \in DOMAIN rows |-> Curve(cycles(rows[a]), ttft(rows[a]))]]]
    /\ UNCHANGED <<archive, surge>>

\* before and after the fix; skipped without the archive from before
Bonus ==
    /\ pc = "bonus" /\ pc' = "done"
    /\ part' = IF load_rows(archive["before"]) = <<>> THEN part
               ELSE [part EXCEPT !["bonus"] =
                  [repl |-> [a \in {"before", "run19"} |->
                      Curve(cycles(load_rows(archive[a])), ttft(load_rows(archive[a])))]]]
    /\ UNCHANGED <<archive, surge>>

Next == PlotSurge \/ PartA \/ PartB \/ Bonus

Spec == Init /\ [][Next]_vars

-----------------------------------------------------------------------------
(***************************************************************************)
(* Properties.                                                             *)
(***************************************************************************)

\* Both arms of the surge start at x = 0 on every panel over time, whatever the cycle counter
\* of each Controller was and however many records lack the model (plot_surge.py's rel).
ArmsAligned == surge # None => \A panel \in {"rpm", "itl", "control"} :
    \A a \in DOMAIN surge[panel] : \E pt \in surge[panel][a] : pt.x = 0

\* No cycle of run19 is cut off by the axis of part A, although the cycle counter need not
\* begin at one and the log may lack cycles.
CyclesOnAxis == part["partA"] # None =>
    \A pt \in part["partA"].repl : pt.x \in part["partA"].xlim

=============================================================================
