---------------------------- MODULE Run15Report -----------------------------
(***************************************************************************)
(* experiments/run15/gen_report_figs_run15.py: two arms of an A/B          *)
(* experiment on a shared axis of cycle numbers, with latencies clipped    *)
(* and annotated, a concurrency derived from the log, and M* scraped into  *)
(* a file of its own.                                                      *)
(*                                                                         *)
(* The model keeps one server and, of its row, TTFT and replicas; the      *)
(* other server and the other columns are drawn by the same functions.     *)
(* The rate is one and the residence time is TTFT.                         *)
(***************************************************************************)
EXTENDS Integers, Sequences, FiniteSets

CONSTANTS Inputs,  \* what the four files may hold: [cycles |-> [arm |-> lines], mstar |-> ...]
          Torn,    \* a line that is not a JSON document
          None,    \* no value
          CLIP     \* the ceiling of the TTFT axis, positive

Arms == {"A", "B"}

VARIABLES
    input,    \* the archived files
    pc,       \* "load", "plot", "done", "crashed"
    ARMS,     \* the records of each arm
    next,     \* the figure to be drawn next
    figs      \* the files in figs/

vars == <<input, pc, ARMS, next, figs>>

FigureNames == <<"load_replicas", "latency", "concurrency", "cost", "ekf", "timing",
                 "concurrency_actual">>

Init ==
    /\ input \in Inputs
    /\ pc = "load" /\ ARMS = [a \in Arms |-> <<>>]
    /\ next = 1 /\ figs = [f \in 1..Len(FigureNames) |-> None]

-----------------------------------------------------------------------------
(***************************************************************************)
(* Series, of one arm, and the shared axis.                                *)
(***************************************************************************)

cyc(recs) == [i \in DOMAIN recs |-> recs[i].cycle]

srv(recs, field) ==
    [i \in DOMAIN recs |-> IF recs[i].srv = None THEN None ELSE recs[i].srv[field]]

\* the largest cycle number of both arms
MAXCYC(arms) == CHOOSE m \in UNION {{arms[a][i].cycle : i \in DOMAIN arms[a]} : a \in Arms} :
    \A a \in Arms : \A i \in DOMAIN arms[a] : arms[a][i].cycle <= m

\* ax.plot: the values that are there
Plot(xs, ys) == {[x |-> xs[i], y |-> ys[i]] : i \in {j \in DOMAIN xs \cap DOMAIN ys : ys[j] # None}}

\* the limits of the x axis
add_phase_shading(arms) == 1..(MAXCYC(arms) + 1)

min(v, w) == IF v < w THEN v ELSE w

clipped(ys) == [i \in DOMAIN ys |-> IF ys[i] = None THEN None ELSE min(ys[i], CLIP)]

Axis(arms, curves) == [curves |-> curves, notes |-> {}, xlim |-> add_phase_shading(arms)]

plot_both(arms, field) == Axis(arms, [a \in Arms |-> Plot(cyc(arms[a]), srv(arms[a], field))])

plot_both_clipped(arms, field) ==
    Axis(arms, [a \in Arms |-> Plot(cyc(arms[a]), clipped(srv(arms[a], field)))])

-----------------------------------------------------------------------------
(***************************************************************************)
(* The seven figures, each a sequence of axes.                             *)
(***************************************************************************)

FigLoadReplicas(arms) == <<plot_both(arms, "replicas")>>

\* the value of what lies above the ceiling, at the ceiling
annotate(arms) == {pt \in UNION {Plot(cyc(arms[a]), srv(arms[a], "ttft")) : a \in Arms} :
                      pt.y > CLIP}

FigLatency(arms) == <<[plot_both_clipped(arms, "ttft") EXCEPT !.notes = annotate(arms)]>>

\* rows without the label are left out; minutes since the first row that has it
load_mstar(csv) ==
    LET pts == SelectSeq(csv, LAMBDA row : row.m # None)
    IN {[x |-> pts[i].t - pts[1].t, y |-> pts[i].m] : i \in DOMAIN pts}

FigConcurrency == <<[curves |-> [a \in Arms |-> load_mstar(input.mstar[a])], notes |-> {}]>>

OfCycle(arms) == Axis(arms, [a \in Arms |-> {[x |-> c, y |-> 1] : c \in
    {cyc(arms[a])[i] : i \in DOMAIN arms[a]}}])

FigCost(arms) == <<OfCycle(arms)>>
FigEkf(arms) == <<OfCycle(arms), OfCycle(arms), OfCycle(arms)>>
FigTiming(arms) == <<OfCycle(arms)>>

\* Mutant: a cycle without replicas is passed over.
AvgConcurrencySkips(recs) ==
    LET some == SelectSeq(recs, LAMBDA r : r.srv # None /\ r.srv.replicas # 0)
    IN [i \in DOMAIN some |-> some[i].srv.ttft \div some[i].srv.replicas]

\* Little's law, per replica; None without a server or without replicas
avg_concurrency(recs) == [i \in DOMAIN recs |->
    IF recs[i].srv = None \/ recs[i].srv.replicas = 0 THEN None
    ELSE recs[i].srv.ttft \div recs[i].srv.replicas]

FigConcurrencyActual(arms) ==
    <<Axis(arms, [a \in Arms |-> Plot(cyc(arms[a]), avg_concurrency(arms[a]))])>>

Figure(f, arms) ==
    CASE FigureNames[f] = "load_replicas" -> FigLoadReplicas(arms)
      [] FigureNames[f] = "latency" -> FigLatency(arms)
      [] FigureNames[f] = "concurrency" -> FigConcurrency
      [] FigureNames[f] = "cost" -> FigCost(arms)
      [] FigureNames[f] = "ekf" -> FigEkf(arms)
      [] FigureNames[f] = "timing" -> FigTiming(arms)
      [] FigureNames[f] = "concurrency_actual" -> FigConcurrencyActual(arms)

-----------------------------------------------------------------------------
(***************************************************************************)
(* The script.                                                             *)
(***************************************************************************)

\* both arms are read before anything is drawn; a line that does not parse and two empty
\* files (the max of MAXCYC) raise
Load ==
    LET lines == input.cycles IN
    /\ pc = "load"
    /\ IF \/ \E a \in Arms : \E i \in DOMAIN lines[a] : lines[a][i] = Torn
          \/ \A a \in Arms : lines[a] = <<>>
       THEN pc' = "crashed" /\ UNCHANGED ARMS
       ELSE pc' = "plot" /\ ARMS' = lines
    /\ UNCHANGED <<input, next, figs>>

DrawFigure ==
    /\ pc = "plot" /\ next <= Len(FigureNames)
    /\ figs' = [figs EXCEPT ![next] = Figure(next, ARMS)]
    /\ next' = next + 1
    /\ UNCHANGED <<input, pc, ARMS>>

Interrupted ==
    /\ pc = "plot" /\ pc' = "crashed"
    /\ UNCHANGED <<input, ARMS, next, figs>>

\* "All Run 15 figures generated."
AllGenerated ==
    /\ pc = "plot" /\ next > Len(FigureNames)
    /\ pc' = "done"
    /\ UNCHANGED <<input, ARMS, next, figs>>

Next == Load \/ DrawFigure \/ Interrupted \/ AllGenerated

Spec == Init /\ [][Next]_vars

-----------------------------------------------------------------------------
(***************************************************************************)
(* Properties.                                                             *)
(***************************************************************************)

\* The records of an archive; every line of it is one when the script draws at all.
Row(a, i) == input.cycles[a][i]
CyclesOf(a) == DOMAIN input.cycles[a]

\* A script that draws has every line of both arms: nobody compares a part of an arm.
WholeArms == pc \in {"plot", "done"} => \A a \in Arms :
    /\ Len(ARMS[a]) = Len(input.cycles[a])
    /\ \A i \in CyclesOf(a) : Row(a, i) # Torn

\* Clipping loses nothing: every TTFT of either arm is on the figure, as a point below the
\* ceiling or as a note above it, and every note is one.
ClippingLosesNothing == figs[2] # None =>
    LET axis == figs[2][1]
        logged(a) == {[x |-> Row(a, i).cycle, y |-> Row(a, i).srv.ttft] :
                        i \in {j \in CyclesOf(a) : Row(a, j).srv # None}}
    IN /\ \A a \in Arms : \A pt \in logged(a) :
             pt \in axis.curves[a] \/ (pt \in axis.notes /\ pt.y > CLIP)
       /\ axis.notes \subseteq UNION {logged(a) : a \in Arms}

\* The derived concurrency has a point exactly where the replicas figure has a positive one:
\* the two can be read side by side, cycle by cycle.
ConcurrencyAligned == figs[7] # None => \A a \in Arms :
    {pt.x : pt \in figs[7][1].curves[a]} =
    {pt.x : pt \in {p \in figs[1][1].curves[a] : p.y > 0}}

=============================================================================
