---------------------------- MODULE MCStandalone ----------------------------
(***************************************************************************)
(* Values for Standalone.                                                  *)
(***************************************************************************)
EXTENDS Standalone

\* levels of one and of two workers; three levels of a driver
MCCurveLevels == <<1, 2>>
MCDriverLevels == <<4, 8, 16>>

\* archives of at most three lines within four minutes; the last phase may start after them
Line12 == [t : 1..4, kind : {"absent", "served", "saturated", "silent", "untuned"}] \cup {Torn}
MCArchives12 == {<<>>} \cup {lines \in UNION {[1..n -> Line12] : n \in 1..3} : InTime(lines)}
MCphase_ts == <<2, 3, 5>>

\* arms of at most two lines, with a restart of the Controller or without; TTFT below, at and
\* above the ceiling; scrapes of M* with and without the label
Rows15 == {[ttft |-> 1, replicas |-> 1], [ttft |-> 3, replicas |-> 1],
           [ttft |-> 2, replicas |-> 2], [ttft |-> 0, replicas |-> 0]}
Line15 == [cycle : {1, 3}, srv : Rows15 \cup {None}] \cup {Torn}
ArmA == UNION {[1..n -> Line15] : n \in 0..2}
ArmB == {<<>>,
         <<[cycle |-> 1, srv |-> None], [cycle |-> 2, srv |-> [ttft |-> 4, replicas |-> 1]]>>,
         <<[cycle |-> 1, srv |-> [ttft |-> 2, replicas |-> 1]], Torn>>}
Scrape == {<<>>, <<[t |-> 1, m |-> None], [t |-> 2, m |-> 8], [t |-> 4, m |-> 16]>>}
MCInputs15 == [cycles : {[A |-> a, B |-> b] : a \in ArmA, b \in ArmB},
               mstar : {[A |-> a, B |-> b] : a \in Scrape, b \in Scrape}]

\* logs that are empty, torn, of one and of two servers; rates in hundreds, at and next to the
\* ends of the bands
Server(rpm, repl) == [rpm |-> rpm, repl |-> repl]
Cycle(c, servers) == [cycle |-> c, servers |-> servers]
MCLogs17 == {
    <<>>,
    <<Cycle(1, <<Server(3, 1)>>), Torn>>,
    <<Cycle(1, <<Server(12, 5)>>), Cycle(2, <<Server(2, 6)>>)>>,
    <<Cycle(1, <<Server(10, 4), Server(11, 2)>>)>>,
    <<Cycle(1, <<>>), Cycle(2, <<Server(3, 2), Server(10, 3)>>)>>}
MCArms == <<"A", "Blow">>
MCBands == [BASELINE |-> [lo |-> 2, hi |-> 3], PEAK |-> [lo |-> 10, hi |-> 999]]

\* missing and empty archives, records without the server, runs of different lengths
MCArchives19 == {None, <<>>, <<[cycle |-> 3, srv |-> None]>>,
                 <<[cycle |-> 1, srv |-> 5], [cycle |-> 2, srv |-> 0]>>,
                 <<[cycle |-> 4, srv |-> None], [cycle |-> 5, srv |-> 7],
                   [cycle |-> 7, srv |-> 5]>>}

\* every sequence of up to three of some phases, the ones the emulator rejects among them, and
\* the sequence of manifests/blis/configmap-load-phases.yaml in minutes
P(d, n, k) == [duration |-> d, ratio |-> <<n, k>>]
Blis == <<P(6, 1, 1), P(5, 10, 1), P(5, 1, 1), P(5, 1, 10), P(0, 0, 1)>>
SomePhases == {P(1, 2, 1), P(2, 1, 1), P(3, 3, 1), P(2, 1, 3), P(0, 2, 1), P(2, 0, 1), P(-1, 1, 1)}
MCFiles == {Blis} \cup UNION {[1..n -> SomePhases] : n \in 0..3}

=============================================================================
