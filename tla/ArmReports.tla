----------------------------- MODULE ArmReports -----------------------------
(***************************************************************************)
(* The scripts of the three-arm experiments run17 and run18:               *)
(* plot_run18.py draws one figure across the arms and one per arm,         *)
(* plot_run17.py one across the arms, and analyze.py prints averages per   *)
(* band of offered load.                                                   *)
(*                                                                         *)
(* The arms are recorded one after another, and may be recorded again; the *)
(* scripts run whenever somebody runs them, over what there is, and what   *)
(* there is may change while they run: plot_run18.py reads every archive   *)
(* twice.  An archive is None, a missing file, or a sequence of lines; of  *)
(* a server's row the model keeps the offered rate and the replicas.       *)
(***************************************************************************)
EXTENDS Integers, FiniteSets, SequencesExt

CONSTANTS Arms,         \* the arms, a sequence in the order of ARMS
          Logs,         \* what a run of an arm may leave: sequences of lines
          Torn,         \* a line that is not a JSON document
          None,         \* no file, no value
          Bands,        \* the bands of analyze.py: [name |-> [lo, hi]]
          MaxRecordings \* bound on runs of the experiment

Names == Range(Arms)

VARIABLES
    archive,    \* the cycle log of each arm
    pc,         \* plot_run18.py: "idle", "across", "arms", "done"
    todo,       \* the arms per_arm is still called for
    figure18,   \* run18-three-arm.png: the curve of each arm drawn
    perArm,     \* run18-arm*.png
    figure17,   \* run17-three-arm.png
    table,      \* what analyze.py printed last
    recordings, \* runs of arms so far
    during      \* history: of each arm, the archives there were while plot_run18.py ran

vars == <<archive, pc, todo, figure18, perArm, figure17, table, recordings, during>>

Init ==
    /\ archive = [a \in Names |-> None]
    /\ pc = "idle" /\ todo = <<>>
    /\ figure18 = <<>> /\ figure17 = <<>> /\ table = <<>>
    /\ perArm = [a \in Names |-> None]
    /\ recordings = 0 /\ during = [a \in Names |-> {}]

IsTorn(log) == log # None /\ \E i \in DOMAIN log : log[i] = Torn

-----------------------------------------------------------------------------
(***************************************************************************)
(* Reading an archive that parses.                                         *)
(***************************************************************************)

\* run18: the first server of every record, zeros for a record without one
load_rows(log) == [i \in DOMAIN log |->
    IF log[i].servers = <<>> THEN [cycle |-> log[i].cycle, rpm |-> 0, repl |-> 0]
    ELSE [cycle |-> log[i].cycle, rpm |-> log[i].servers[1].rpm, repl |-> log[i].servers[1].repl]]

\* run17: every server of every record
load(log) == FlattenSeq([i \in DOMAIN log |-> log[i].servers])

ByRpm(r, q) == r.rpm < q.rpm \/ (r.rpm = q.rpm /\ r.repl < q.repl)

\* a curve over the offered load
curve(rows) ==
    LET pts == SortSeq(rows, ByRpm) IN [i \in DOMAIN pts |-> [x |-> pts[i].rpm, y |-> pts[i].repl]]

\* the arms with a non-empty archive, in a figure across the arms
Drawn(read(_)) == {a \in Names : archive[a] # None /\ read(archive[a]) # <<>>}

\* the average of a column; the average of integers is kept as a pair
avg(rows, col(_)) == [sum |-> FoldLeft(LAMBDA s, r : s + col(r), 0, rows), n |-> Len(rows)]

\* the averages of the rows in a band, both ends included; None without any
summarize(rows, lo, hi) ==
    LET g == SelectSeq(rows, LAMBDA r : lo <= r.rpm /\ r.rpm <= hi)
    IN IF g = <<>> THEN None
       ELSE [offered |-> avg(g, LAMBDA r : r.rpm), repl |-> avg(g, LAMBDA r : r.repl),
             members |-> Range(g)]

-----------------------------------------------------------------------------
(***************************************************************************)
(* Recording, and the scripts.                                             *)
(***************************************************************************)

\* An arm is run, for the first time or again, and save-cycle-log.sh archives its log over
\* the one there was: the file is empty at first, and stays so when oc fails.
RecordArm(a) ==
    /\ recordings < MaxRecordings /\ recordings' = recordings + 1
    /\ \E log \in Logs : archive' = [archive EXCEPT ![a] = log]
    /\ during' = IF pc \in {"across", "arms"} THEN [during EXCEPT ![a] = @ \cup {archive'[a]}]
                                             ELSE during
    /\ UNCHANGED <<pc, todo, figure18, perArm, figure17, table>>

Start18 ==
    /\ pc \in {"idle", "done"} /\ pc' = "across"
    /\ todo' = Arms /\ during' = [a \in Names |-> {archive[a]}]
    /\ UNCHANGED <<archive, figure18, perArm, figure17, table, recordings>>

\* json.loads raises: what was saved before stays, what was not is of an earlier time
Crash18 == pc' = "idle" /\ todo' = <<>> /\ during' = [a \in Names |-> {}]

\* figure 1, saved when every arm has been read; arms without data are left out
ThreeArm18 ==
    /\ pc = "across"
    /\ IF \E a \in Names : IsTorn(archive[a])
       THEN Crash18 /\ UNCHANGED figure18
       ELSE /\ figure18' = [a \in Drawn(load_rows) |-> curve(load_rows(archive[a]))]
            /\ pc' = "arms" /\ UNCHANGED <<todo, during>>
    /\ UNCHANGED <<archive, perArm, figure17, table, recordings>>

\* Mutant: a figure that is there is not drawn again.
PerArm18IfMissing ==
    /\ pc = "arms" /\ todo # <<>>
    /\ LET a == todo[1] IN
       IF IsTorn(archive[a]) THEN Crash18 /\ UNCHANGED perArm
       ELSE /\ todo' = Tail(todo) /\ UNCHANGED <<pc, during>>
            /\ perArm' = IF archive[a] \in {None, <<>>} \/ perArm[a] # None THEN perArm
                         ELSE [perArm EXCEPT ![a] = load_rows(archive[a])]
    /\ UNCHANGED <<archive, figure18, figure17, table, recordings>>

\* per_arm reads the archive again; without data the file of an earlier time stays
PerArm18 ==
    /\ pc = "arms" /\ todo # <<>>
    /\ LET a == todo[1] IN
       IF IsTorn(archive[a]) THEN Crash18 /\ UNCHANGED perArm
       ELSE /\ todo' = Tail(todo) /\ UNCHANGED <<pc, during>>
            /\ perArm' = IF archive[a] \in {None, <<>>} THEN perArm
                         ELSE [perArm EXCEPT ![a] = load_rows(archive[a])]
    /\ UNCHANGED <<archive, figure18, figure17, table, recordings>>

Done18 ==
    /\ pc = "arms" /\ todo = <<>> /\ pc' = "done"
    /\ UNCHANGED <<archive, todo, figure18, perArm, figure17, table, recordings, during>>

\* plot_run17.py, which raises before it saves when an archive does not parse
Plot17 ==
    /\ ~\E a \in Names : IsTorn(archive[a])
    /\ figure17' = [a \in Drawn(load) |-> curve(load(archive[a]))]
    /\ UNCHANGED <<archive, pc, todo, figure18, perArm, table, recordings, during>>

\* analyze.py
Analyze ==
    /\ ~\E a \in Names : IsTorn(archive[a])
    /\ table' = [p \in (DOMAIN Bands) \X {a \in Names : archive[a] # None} |->
                   summarize(load(archive[p[2]]), Bands[p[1]].lo, Bands[p[1]].hi)]
    /\ UNCHANGED <<archive, pc, todo, figure18, perArm, figure17, recordings, during>>

Next ==
    \/ \E a \in Names : RecordArm(a)
    \/ Start18 \/ ThreeArm18 \/ PerArm18 \/ Done18
    \/ Plot17 \/ Analyze

Spec == Init /\ [][Next]_vars

-----------------------------------------------------------------------------
(***************************************************************************)
(* Properties.                                                             *)
(***************************************************************************)

\* the archives of an arm that could be read while plot_run18.py ran
Legible(a) == {log \in during[a] : log # None /\ ~IsTorn(log)}

\* When plot_run18.py has printed "done", every curve across the arms and every figure of an
\* arm that had data all the while is of an archive that was there while the script ran: no
\* figure of an earlier run is left, whatever was recorded between the two readings and
\* wherever earlier runs crashed.
FiguresOfThisRun == pc = "done" => \A a \in Names :
    /\ a \in DOMAIN figure18 => \E log \in Legible(a) : figure18[a] = curve(load_rows(log))
    /\ during[a] \cap {None, <<>>} = {} =>
          /\ a \in DOMAIN figure18
          /\ \E log \in Legible(a) : perArm[a] = load_rows(log)

=============================================================================
