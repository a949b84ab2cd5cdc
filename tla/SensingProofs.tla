--------------------------- MODULE SensingProofs ---------------------------
(***************************************************************************)
(* Type correctness of the Collector's loop and its two safety properties, *)
(* for any Deployments, pods, allocations, requests and backends.          *)
(*                                                                         *)
(* As many windows are accepted as replicas were asked for only if every   *)
(* pod that was alive is one of them, by counting; a server-sim Deployment *)
(* that was gone through is in the answer, whatever failed, and an /update *)
(* carries the answer it was made from for as long as it works.            *)
(***************************************************************************)
EXTENDS Sensing, FiniteSetTheorems, TLAPS

\* the servers gone through
Covered ==
    /\ stage = "read" => current \notin todo
    /\ stage # "read" => DOMAIN reporting = {}
    /\ ~ LLMD /\ stage = "sense" => Servers \ todo \subseteq DOMAIN answer
    /\ ~ LLMD /\ stage = "read" => Servers \ (todo \cup {current}) \subseteq DOMAIN answer

\* what an update at work was made from
Made(o) == o.left # {} => o.sensed # {} /\ (~ LLMD => o.sensed = Servers)

MadeFromAnswers == \A r \in Requests : Made(order[r])

IInv == TypeOK /\ Covered /\ MadeFromAnswers /\ RateNotPartial

\* One more server in the answer.
LEMMA AnsweredAll ==
    ASSUME NEW s, NEW n, NEW source, Answered(s, n, source)
    PROVE  /\ DOMAIN answer' = DOMAIN answer \cup {s}
           /\ answer'[s] = [n |-> n, alive |-> alive, ending |-> listed \ alive,
                            pods |-> reporting, rate |-> source]
           /\ \A x \in DOMAIN answer \ {s} : answer'[x] = answer[x]
           /\ listed' = {} /\ alive' = {} /\ toRead' = {} /\ DOMAIN reporting' = {}
BY DEF Answered, Forget, Empty

\* A new record of the answer keeps the property of it.
LEMMA AnswerKept ==
    ASSUME RateNotPartial, UNCHANGED deps,
           NEW s, NEW n, NEW source, Answered(s, n, source),
           s \in Setpoints /\ source = "measured" =>
               /\ Cardinality(DOMAIN reporting) = deps[s].n
               /\ Cardinality(alive) <= deps[s].n /\ listed \ alive = {} =>
                      DOMAIN reporting = alive
    PROVE  RateNotPartial'
<1>1. /\ DOMAIN answer' = DOMAIN answer \cup {s}
      /\ answer'[s] = [n |-> n, alive |-> alive, ending |-> listed \ alive,
                       pods |-> reporting, rate |-> source]
      /\ \A x \in DOMAIN answer \ {s} : answer'[x] = answer[x]
    BY DEF Answered
<1>2. ASSUME NEW x \in DOMAIN answer' \cap Setpoints, answer'[x].rate = "measured"
      PROVE  /\ Cardinality(DOMAIN answer'[x].pods) = deps[x].n
             /\ Cardinality(answer'[x].alive) <= deps[x].n /\ answer'[x].ending = {} =>
                    DOMAIN answer'[x].pods = answer'[x].alive
    <2>1. CASE x = s
        BY <1>1, <1>2, <2>1
    <2>2. CASE x # s
        BY <1>1, <1>2, <2>2 DEF RateNotPartial, Reported
    <2>3. QED
        BY <2>1, <2>2
<1>3. QED
    BY <1>2 DEF RateNotPartial, Reported

\* Of two sets of pods one of which holds the other, equally many are the same.
LEMMA AsManyPods ==
    ASSUME NEW A \in SUBSET Pods, NEW B \in SUBSET A, NEW n \in Nat,
           Cardinality(B) = n, Cardinality(A) <= n
    PROVE  A = B
<1>1. IsFiniteSet(A)
    BY FS_Subset, SensingAssumption
<1>2. /\ Cardinality(B) <= Cardinality(A) /\ IsFiniteSet(B)
      /\ Cardinality(B) = Cardinality(A) => A = B
    BY <1>1, FS_Subset
<1>3. Cardinality(A) \in Nat
    BY <1>1, FS_CardinalityType
<1>4. QED
    BY <1>2, <1>3

\* Every step keeps the invariant.
LEMMA Inductive == IInv /\ [Next]_vars => IInv'
<1> SUFFICES ASSUME IInv, [Next]_vars PROVE IInv'
    OBVIOUS
<1> USE SensingAssumption
<1>y. TypeOK /\ Covered /\ MadeFromAnswers /\ RateNotPartial
    BY DEF IInv
<1>b. backend' = backend
    BY DEF Next, Calm, Disturb, vars, bounds
<1>c. Calm \/ Disturb => churn' \in 0..MaxChurn[backend]
    BY <1>y DEF Calm, Disturb, TypeOK, bounds
<1>s. Zero.n = 0 /\ Zero.setting \in AllSettings
    <2>1. PICK s \in Servers : TRUE
        OBVIOUS
    <2>2. Zero \in AllDecisions
        BY <2>1 DEF Decisions, AllDecisions
    <2>3. Zero.setting \in AllSettings
        BY <2>2 DEF AllSettings
    <2>4. QED
        BY <2>3 DEF Zero
<1>d. \A s \in Servers : \A a \in Decisions(s) : a \in AllDecisions
    BY DEF AllDecisions
<1>e. \A a \in AllDecisions : a.n \in Nat /\ a.setting \in AllSettings
    BY <1>s DEF AllSettings, AllDecisions, Decisions
<1>m. ASSUME UNCHANGED order PROVE MadeFromAnswers'
    BY <1>b, <1>m, <1>y DEF MadeFromAnswers, Made, LLMD
<1>k. ASSUME UNCHANGED <<deps, answer>> PROVE RateNotPartial'
    BY <1>k, <1>y DEF RateNotPartial, Reported
\* an order that is over
<1>o. NoOrder \in [target : [Servers -> AllDecisions], sensed : SUBSET Servers, left : SUBSET Servers]
      /\ NoOrder.left = {}
    BY DEF NoOrder
\* the collection is given up or handed on
<1>g. ASSUME Discard
      PROVE  /\ deps' \in [Servers -> [n : Nat, setting : AllSettings]]
             /\ todo' = {} /\ current' \in Servers /\ DOMAIN answer' = {}
             /\ listed' = {} /\ alive' = {} /\ toRead' = {} /\ DOMAIN reporting' = {}
             /\ RateNotPartial'
    <2>1. deps' \in [Servers -> [n : Nat, setting : AllSettings]] /\ current' \in Servers
        BY <1>g, <1>s DEF Discard, Unread, Someone
    <2>2. DOMAIN Empty = {}
        BY DEF Empty
    <2>3. QED
        BY <1>g, <2>1, <2>2 DEF Discard, Forget, RateNotPartial
\* steps that leave the Collector alone
<1>u. ASSUME UNCHANGED sensing, TypeOK', MadeFromAnswers',
             stage' = stage \/ (stage = "actuate" /\ stage' = "collect")
      PROVE  IInv'
    <2>1. UNCHANGED <<deps, todo, current, listed, alive, toRead, reporting, answer>>
        BY <1>u DEF sensing, locals
    <2>2. Covered'
        BY <1>b, <1>u, <1>y, <2>1 DEF Covered, LLMD
    <2>3. QED
        BY <1>k, <1>u, <2>1, <2>2 DEF IInv
<1>1. ASSUME Collect, Calm PROVE IInv'
    <2>1. /\ deps' = [s \in Servers |-> [n |-> replicas[s], setting |-> setting[s]]]
          /\ todo' = Servers /\ DOMAIN answer' = {} /\ stage' = "sense" /\ stage = "collect"
          /\ UNCHANGED <<cluster, target, waiting, order, current, listed, alive, toRead, reporting>>
        BY <1>1 DEF Collect, Empty, locals
    <2>2. deps' \in [Servers -> [n : Nat, setting : AllSettings]]
        BY <1>y, <2>1 DEF TypeOK
    <2>3. TypeOK'
        BY <1>y, <1>b, <1>c, <1>1, <2>1, <2>2 DEF TypeOK, cluster, PodsOf
    <2>4. Covered'
        BY <1>y, <2>1 DEF Covered
    <2>5. RateNotPartial'
        BY <2>1 DEF RateNotPartial
    <2>6. QED
        BY <1>m, <2>1, <2>3, <2>4, <2>5 DEF IInv
<1>2. ASSUME NEW s \in Servers, ListPods(s), Calm PROVE IInv'
    <2>1. /\ stage = "sense" /\ s \in todo /\ current' = s /\ todo' = todo \ {s}
          /\ UNCHANGED <<cluster, target, waiting, order, deps>>
        BY <1>2 DEF ListPods
    <2>2. CASE LLMD /\ Answered(s, deps[s].n, "completed") /\ UNCHANGED stage
        <3>1. /\ DOMAIN answer' = DOMAIN answer \cup {s} /\ DOMAIN reporting' = {}
              /\ listed' = {} /\ alive' = {} /\ toRead' = {}
            BY <2>2, AnsweredAll
        <3>2. TypeOK'
            BY <1>y, <1>b, <1>c, <1>2, <2>1, <2>2, <3>1 DEF TypeOK, cluster
        <3>3. RateNotPartial'
            BY <1>y, <2>1, <2>2, AnswerKept
        <3>4. QED
            BY <1>b, <1>m, <2>1, <2>2, <3>1, <3>2, <3>3 DEF IInv, Covered, LLMD
    <2>3. CASE /\ listed' = {p \in Present(s) : LLMD \/ phase[p] # "starting"}
               /\ toRead' = listed' /\ alive' = Alive(s)
               /\ stage' = "read" /\ UNCHANGED <<reporting, answer>>
        <3>1. listed' \cup alive' \subseteq PodsOf(s)
            BY <2>3 DEF Present, Alive
        <3>2. DOMAIN reporting = {}
            BY <1>y, <2>1 DEF Covered
        <3>3. TypeOK'
            BY <1>y, <1>b, <1>c, <1>2, <2>1, <2>3, <3>1, <3>2 DEF TypeOK, cluster, PodsOf
        <3>4. Covered'
            BY <1>y, <1>b, <2>1, <2>3 DEF Covered, LLMD
        <3>5. QED
            BY <1>k, <1>m, <2>1, <2>3, <3>3, <3>4 DEF IInv
    <2>4. QED
        BY <1>2, <2>2, <2>3 DEF ListPods
<1>3. ASSUME NEW s \in Servers, ListPodsFails(s), Disturb PROVE IInv'
    <2>1. /\ stage = "sense" /\ s \in todo /\ current' = s /\ todo' = todo \ {s}
          /\ UNCHANGED <<cluster, stage, target, waiting, order, deps>>
        BY <1>3 DEF ListPodsFails, loop
    <2>2. CASE LLMD /\ Forget /\ UNCHANGED answer
        <3>1. listed' = {} /\ alive' = {} /\ toRead' = {} /\ DOMAIN reporting' = {}
            BY <2>2 DEF Forget, Empty
        <3>2. TypeOK'
            BY <1>y, <1>b, <1>c, <1>3, <2>1, <2>2, <3>1 DEF TypeOK, cluster
        <3>3. Covered'
            BY <1>b, <2>1, <2>2, <3>1 DEF Covered, LLMD
        <3>4. QED
            BY <1>k, <1>m, <2>1, <2>2, <3>2, <3>3 DEF IInv
    <2>3. CASE ~ LLMD /\ Answered(s, 0, selectArrivalRate(s, 0, 0))
        <3>1. /\ DOMAIN answer' = DOMAIN answer \cup {s} /\ DOMAIN reporting' = {}
              /\ listed' = {} /\ alive' = {} /\ toRead' = {}
            BY <2>3, AnsweredAll
        <3>2. TypeOK'
            BY <1>y, <1>b, <1>c, <1>3, <2>1, <3>1 DEF TypeOK, cluster
        <3>3. s \in Setpoints => selectArrivalRate(s, 0, 0) # "measured"
            BY DEF selectArrivalRate
        <3>4. RateNotPartial'
            BY <1>y, <2>1, <2>3, <3>3, AnswerKept
        <3>5. Covered'
            BY <1>y, <1>b, <2>1, <3>1 DEF Covered, LLMD
        <3>6. QED
            BY <1>m, <2>1, <3>2, <3>4, <3>5 DEF IInv
    <2>4. QED
        BY <1>3, <2>2, <2>3 DEF ListPodsFails
<1>4. ASSUME NEW p \in Pods, ReadLatest(p) \/ ReadLatestFails(p), churn' \in 0..MaxChurn[backend]
      PROVE  IInv'
    <2>1. /\ stage = "read" /\ p \in toRead /\ toRead' = toRead \ {p}
          /\ UNCHANGED <<cluster, stage, target, waiting, order, deps, todo, current, listed, alive, answer>>
        BY <1>4 DEF ReadLatest, ReadLatestFails, loop
    <2>2. DOMAIN reporting' \subseteq DOMAIN reporting \cup {p}
        BY <1>4 DEF ReadLatest, ReadLatestFails
    <2>3. TypeOK'
        BY <1>y, <1>b, <1>4, <2>1, <2>2 DEF TypeOK, cluster, PodsOf
    <2>4. Covered'
        BY <1>y, <1>b, <2>1 DEF Covered, LLMD
    <2>5. QED
        BY <1>k, <1>m, <2>1, <2>3, <2>4 DEF IInv
<1>5. ASSUME Sensed, Calm PROVE IInv'
    <2> DEFINE n == deps[current].n
               k == Cardinality(DOMAIN reporting)
               source == selectArrivalRate(current, k, n)
    <2>1. /\ stage = "read" /\ ~ LLMD /\ stage' = "sense" /\ Answered(current, n, source)
          /\ UNCHANGED <<cluster, target, waiting, order, deps, todo, current>>
        BY <1>5 DEF Sensed
    <2>2. /\ DOMAIN answer' = DOMAIN answer \cup {current} /\ DOMAIN reporting' = {}
          /\ listed' = {} /\ alive' = {} /\ toRead' = {}
        BY <2>1, AnsweredAll
    <2>3. TypeOK'
        BY <1>y, <1>b, <1>c, <1>5, <2>1, <2>2 DEF TypeOK, cluster, Covered
    <2>4. Covered'
        BY <1>y, <1>b, <2>1, <2>2 DEF Covered, LLMD
    <2>5. ASSUME current \in Setpoints, source = "measured"
          PROVE  /\ k = n
                 /\ Cardinality(alive) <= n /\ listed \ alive = {} => DOMAIN reporting = alive
        <3>1. k = n
            BY <2>5 DEF selectArrivalRate
        <3>2. DOMAIN reporting \subseteq listed /\ alive \subseteq Pods /\ n \in Nat
            BY <1>y DEF TypeOK, PodsOf
        <3>3. ASSUME Cardinality(alive) <= n, listed \ alive = {} PROVE DOMAIN reporting = alive
            <4>1. DOMAIN reporting \subseteq alive
                BY <3>2, <3>3
            <4>2. QED
                BY <3>1, <3>2, <3>3, <4>1, AsManyPods
        <3>4. QED
            BY <3>1, <3>3
    <2>6. RateNotPartial'
        <3> HIDE DEF source
        <3>1. QED
            BY <1>y, <2>1, <2>5, AnswerKept
    <2>7. QED
        BY <1>m, <2>1, <2>3, <2>4, <2>6 DEF IInv
<1>6. ASSUME FetchMetrics, Calm PROVE IInv'
    <2>1. /\ stage = "read" /\ LLMD /\ stage' = "sense"
          /\ Answered(current, deps[current].n, "completed")
          /\ UNCHANGED <<cluster, target, waiting, order, deps, todo, current>>
        BY <1>6 DEF FetchMetrics
    <2>2. /\ DOMAIN answer' = DOMAIN answer \cup {current} /\ DOMAIN reporting' = {}
          /\ listed' = {} /\ alive' = {} /\ toRead' = {}
        BY <2>1, AnsweredAll
    <2>3. TypeOK'
        BY <1>y, <1>b, <1>c, <1>6, <2>1, <2>2 DEF TypeOK, cluster, Covered
    <2>4. RateNotPartial'
        BY <1>y, <2>1, AnswerKept
    <2>5. QED
        BY <1>b, <1>m, <2>1, <2>2, <2>3, <2>4 DEF IInv, Covered, LLMD
<1>7. ASSUME FetchMetricsFails, Disturb PROVE IInv'
    <2>1. /\ stage = "read" /\ LLMD /\ stage' = "sense" /\ Forget
          /\ UNCHANGED <<cluster, target, waiting, order, deps, todo, current, answer>>
        BY <1>7 DEF FetchMetricsFails
    <2>2. listed' = {} /\ alive' = {} /\ toRead' = {} /\ DOMAIN reporting' = {}
        BY <2>1 DEF Forget, Empty
    <2>3. TypeOK'
        BY <1>y, <1>b, <1>c, <1>7, <2>1, <2>2 DEF TypeOK, cluster
    <2>4. Covered'
        BY <1>b, <2>1, <2>2 DEF Covered, LLMD
    <2>5. QED
        BY <1>k, <1>m, <2>1, <2>3, <2>4 DEF IInv
<1>8. ASSUME Optimize, Calm PROVE IInv'
    <2>1. stage = "sense" /\ todo = {} /\ Discard /\ UNCHANGED <<cluster, target>>
        BY <1>8 DEF Optimize
    <2>2. CASE DOMAIN answer = {} /\ stage' = "collect" /\ UNCHANGED <<waiting, order>>
        <3>1. TypeOK'
            BY <1>y, <1>b, <1>c, <1>g, <1>8, <2>1, <2>2 DEF TypeOK, cluster
        <3>2. QED
            BY <1>g, <1>m, <2>1, <2>2, <3>1 DEF IInv, Covered
    <2>3. CASE /\ DOMAIN answer # {} /\ \E r \in Requests : order[r].left = {}
               /\ stage' = "actuate" /\ waiting' = CHOOSE r \in Requests : order[r].left = {}
               /\ order' = [order EXCEPT ![waiting'] =
                      [target |-> target, sensed |-> DOMAIN answer, left |-> Servers]]
        <3> DEFINE o == [target |-> target, sensed |-> DOMAIN answer, left |-> Servers]
        <3>1. o \in [target : [Servers -> AllDecisions], sensed : SUBSET Servers, left : SUBSET Servers]
            BY <1>y DEF TypeOK
        <3>2. Made(o)
            BY <1>y, <2>1, <2>3 DEF Made, Covered, TypeOK
        <3> HIDE DEF o
        <3>3. waiting' \in Requests /\ waiting' # NoRequest /\ order' = [order EXCEPT ![waiting'] = o]
            BY <2>3 DEF o
        <3>4. order' \in [Requests -> [target : [Servers -> AllDecisions],
                                       sensed : SUBSET Servers, left : SUBSET Servers]]
            BY <1>y, <3>1, <3>3 DEF TypeOK
        <3>5. \A r \in Requests : order'[r] = o \/ order'[r] = order[r]
            BY <1>y, <3>3 DEF TypeOK
        <3>6. TypeOK'
            BY <1>y, <1>b, <1>c, <1>g, <1>8, <2>1, <2>3, <3>3, <3>4 DEF TypeOK, cluster
        <3>7. MadeFromAnswers'
            BY <1>y, <1>b, <3>2, <3>5 DEF MadeFromAnswers, Made, LLMD
        <3>8. QED
            BY <1>g, <2>1, <2>3, <3>6, <3>7 DEF IInv, Covered
    <2>4. QED
        BY <1>8, <2>2, <2>3 DEF Optimize
<1>9. ASSUME NEW r \in Requests, NEW s \in Servers, Actuate(r, s), Calm PROVE IInv'
    <2>1. /\ replicas' = [replicas EXCEPT ![s] = Decision(r, s).n] /\ s \in order[r].left
          /\ order' = [order EXCEPT ![r] = Patched(r, s)]
          /\ UNCHANGED <<phase, window, latest, stage, target, waiting, sensing>>
        BY <1>9 DEF Actuate
    <2>2. Decision(r, s).n \in Nat /\ Decision(r, s).setting \in AllSettings
        BY <1>y, <1>e, <1>s DEF Decision, TypeOK
    <2>3. setting' \in [Servers -> AllSettings] /\ podSetting' \in [Pods -> AllSettings]
        <3>1. setting \in [Servers -> AllSettings] /\ podSetting \in [Pods -> AllSettings]
            BY <1>y DEF TypeOK
        <3>2. CASE LLMD
            BY <1>9, <3>1, <3>2 DEF Actuate
        <3>3. CASE ~ LLMD
            <4> DEFINE new == Decision(r, s).setting
            <4>1. setting' = [setting EXCEPT ![s] = new] /\ new \in AllSettings
                  /\ podSetting' = [p \in Pods |-> IF p \in Present(s) /\ Decision(r, s).n > 0
                                                   THEN new ELSE podSetting[p]]
                BY <1>9, <2>2, <3>3 DEF Actuate
            <4> HIDE DEF new
            <4>2. QED
                BY <3>1, <4>1
        <3>4. QED
            BY <3>2, <3>3
    <2>4. /\ Patched(r, s) \in [target : [Servers -> AllDecisions], sensed : SUBSET Servers,
                                left : SUBSET Servers]
          /\ Made(Patched(r, s))
        <3>1. order[r] \in [target : [Servers -> AllDecisions], sensed : SUBSET Servers,
                            left : SUBSET Servers] /\ Made(order[r])
            BY <1>y DEF TypeOK, MadeFromAnswers
        <3>2. QED
            BY <1>o, <2>1, <3>1 DEF Patched, Made
    <2>5. order' \in [Requests -> [target : [Servers -> AllDecisions], sensed : SUBSET Servers,
                                   left : SUBSET Servers]]
        BY <1>y, <2>1, <2>4 DEF TypeOK
    <2>6. MadeFromAnswers'
        <3>1. \A q \in Requests : Made(order'[q])
            BY <1>y, <2>1, <2>4 DEF MadeFromAnswers, TypeOK
        <3>2. QED
            BY <1>b, <3>1 DEF MadeFromAnswers, Made, LLMD
    <2>7. TypeOK'
        <3>1. replicas' \in [Servers -> Nat]
            BY <1>y, <2>1, <2>2 DEF TypeOK
        <3>2. QED
            BY <1>y, <1>b, <1>c, <1>9, <2>1, <2>3, <2>5, <3>1 DEF TypeOK, sensing, locals, PodsOf
    <2>8. QED
        BY <1>u, <2>1, <2>6, <2>7
<1>10. ASSUME CycleEnds, Calm PROVE IInv'
    <2>1. /\ stage = "actuate" /\ stage' = "collect" /\ waiting' = NoRequest
          /\ UNCHANGED <<cluster, target, order, sensing>>
        BY <1>10 DEF CycleEnds
    <2>2. TypeOK'
        BY <1>y, <1>b, <1>c, <1>10, <2>1 DEF TypeOK, cluster, sensing, locals, PodsOf
    <2>3. QED
        BY <1>m, <1>u, <2>1, <2>2
<1>11. ASSUME CycleFails, Disturb PROVE IInv'
    <2>1. /\ stage' = "collect" /\ waiting' = NoRequest /\ Discard
          /\ UNCHANGED <<cluster, target, order>>
        BY <1>11 DEF CycleFails
    <2>2. TypeOK'
        BY <1>y, <1>b, <1>c, <1>g, <1>11, <2>1 DEF TypeOK, cluster
    <2>3. QED
        BY <1>g, <1>m, <2>1, <2>2 DEF IInv, Covered
<1>12. ASSUME NEW ended \in SUBSET Requests, UpdateFails(ended), Disturb PROVE IInv'
    <2>1. /\ order' = [r \in Requests |-> IF r \in ended THEN NoOrder ELSE order[r]]
          /\ UNCHANGED <<cluster, target, sensing>>
          /\ \/ stage = "actuate" /\ stage' = "collect" /\ waiting' = NoRequest
             \/ UNCHANGED <<stage, waiting>>
        BY <1>12, <1>y DEF UpdateFails, TypeOK
    <2>2. order' \in [Requests -> [target : [Servers -> AllDecisions], sensed : SUBSET Servers,
                                   left : SUBSET Servers]]
        BY <1>y, <1>o, <2>1 DEF TypeOK
    <2>3. MadeFromAnswers'
        BY <1>y, <1>o, <1>b, <2>1 DEF MadeFromAnswers, Made, LLMD
    <2>4. TypeOK'
        BY <1>y, <1>b, <1>c, <1>12, <2>1, <2>2 DEF TypeOK, cluster, sensing, locals, PodsOf
    <2>5. QED
        BY <1>u, <2>1, <2>3, <2>4
<1>13. ASSUME NEW s \in Servers, NEW a \in Decisions(s), Decide(s, a), Disturb PROVE IInv'
    <2>1. /\ target' = [target EXCEPT ![s] = a] /\ a \in AllDecisions
          /\ UNCHANGED <<cluster, stage, waiting, order, sensing>>
        BY <1>13, <1>d DEF Decide
    <2>2. TypeOK'
        BY <1>y, <1>b, <1>c, <1>13, <2>1 DEF TypeOK, cluster, sensing, locals, PodsOf
    <2>3. QED
        BY <1>m, <1>u, <2>1, <2>2
<1>14. ASSUME Cluster, Calm PROVE IInv'
    <2>1. PICK p \in Pods : \/ StartPod(p) \/ PodReady(p) \/ EndPod(p) \/ PodGone(p)
                            \/ CompleteWindow(p)
        BY <1>14 DEF Cluster
    <2>2. Template[Owner[p]] \in AllSettings
        OBVIOUS
    <2>3. /\ phase' \in [Pods -> {"none", "starting", "ready", "ending"}]
          /\ podSetting' \in [Pods -> AllSettings] /\ window' \in [Pods -> AllSettings]
          /\ latest' \in [Pods -> AllSettings \cup {None}] /\ UNCHANGED <<replicas, setting>>
        BY <1>y, <2>1, <2>2 DEF StartPod, PodReady, EndPod, PodGone, CompleteWindow, TypeOK
    <2>4. UNCHANGED <<stage, target, waiting, order, sensing>>
        BY <1>14 DEF Cluster, loop
    <2>5. TypeOK'
        BY <1>y, <1>b, <1>c, <1>14, <2>3, <2>4 DEF TypeOK, sensing, locals, PodsOf
    <2>6. QED
        BY <1>m, <1>u, <2>4, <2>5
<1>15. ASSUME UNCHANGED vars PROVE IInv'
    <2>1. UNCHANGED <<stage, order, sensing>>
        BY <1>15 DEF vars, loop
    <2>2. TypeOK'
        BY <1>y, <1>15 DEF vars, cluster, loop, sensing, locals, bounds, TypeOK, PodsOf
    <2>3. QED
        BY <1>m, <1>u, <2>1, <2>2
<1>16. QED
    BY <1>c, <1>1, <1>2, <1>3, <1>4, <1>5, <1>6, <1>7, <1>8, <1>9, <1>10, <1>11, <1>12, <1>13, <1>14,
       <1>15 DEF Next, Step, Fault

\* The invariant holds at the start.
LEMMA Start == Init => IInv
<1> SUFFICES ASSUME Init PROVE IInv
    OBVIOUS
<1> USE SensingAssumption
<1>1. DOMAIN Empty = {} /\ Someone \in Servers
    BY DEF Empty, Someone
<1>2. /\ replicas \in [Servers -> Nat] /\ setting \in [Servers -> AllSettings]
      /\ phase \in [Pods -> {"none", "starting", "ready", "ending"}]
      /\ podSetting \in [Pods -> AllSettings] /\ window \in [Pods -> AllSettings]
      /\ latest \in [Pods -> AllSettings \cup {None}]
    BY DEF Init
<1>3. Zero.setting \in AllSettings
    <2>1. PICK s \in Servers : TRUE
        OBVIOUS
    <2>2. Zero \in Decisions(s)
        BY DEF Decisions
    <2>3. QED
        BY <2>1, <2>2 DEF AllSettings, AllDecisions
<1>4. deps \in [Servers -> [n : Nat, setting : AllSettings]]
    BY <1>3 DEF Init, Unread
<1>5. order \in [Requests -> [target : [Servers -> AllDecisions], sensed : SUBSET Servers,
                              left : SUBSET Servers]]
      /\ \A r \in Requests : order[r].left = {}
    BY DEF Init, NoOrder
<1>6. TypeOK
    BY <1>1, <1>2, <1>4, <1>5 DEF Init, TypeOK
<1>7. QED
    BY <1>1, <1>5, <1>6 DEF Init, IInv, Covered, MadeFromAnswers, Made, RateNotPartial

\* The cluster, the loop and the collection stay well typed.
THEOREM TypeCorrect == Spec => []TypeOK
<1>1. IInv => TypeOK
    BY DEF IInv
<1>2. QED
    BY <1>1, Start, Inductive, PTL DEF Spec

\* A rate that is measured although a setpoint is known is the sum over as many pods as were
\* asked for, and over all that are alive when no pod that is shutting down was listed.
THEOREM RatesAreWhole == Spec => []RateNotPartial
<1>1. IInv => RateNotPartial
    BY DEF IInv
<1>2. QED
    BY <1>1, Start, Inductive, PTL DEF Spec

-----------------------------------------------------------------------------

DecidedZero(s) ==
    \E r \in Requests :
        /\ s \in order[r].left \ order'[r].left
        /\ order[r].target[s] = Zero \/ (LLMD /\ order[r].sensed # {})

BlindStep == \A s \in Servers : replicas[s] > 0 /\ replicas'[s] = 0 => DecidedZero(s)

\* Only the optimizer's decision, or an llm-d Deployment left out of an answer that has
\* others, scales a Deployment to zero, whichever update does it.
THEOREM ZeroIsDecided == Spec => NeverScaledBlind
<1>1. IInv /\ [Next]_vars => [BlindStep]_vars
    <2> SUFFICES ASSUME IInv, [Next]_vars, NEW s \in Servers, replicas[s] > 0, replicas'[s] = 0
                 PROVE  DecidedZero(s)
        BY DEF BlindStep
    <2> USE DEF IInv
    <2> USE SensingAssumption
    <2>1. replicas' # replicas
        OBVIOUS
    <2>2. PICK r \in Requests, t \in Servers : Actuate(r, t)
        BY <2>1 DEF Next, Step, Fault, Cluster, vars, cluster, loop, Collect, ListPods, ListPodsFails,
                    ReadLatest, ReadLatestFails, Sensed, FetchMetrics, FetchMetricsFails, Optimize,
                    CycleEnds, CycleFails, UpdateFails, Decide, StartPod, PodReady, EndPod, PodGone,
                    CompleteWindow
    <2>3. /\ replicas' = [replicas EXCEPT ![t] = Decision(r, t).n] /\ t \in order[r].left
          /\ order' = [order EXCEPT ![r] = Patched(r, t)]
        BY <2>2 DEF Actuate
    <2>4. s = t /\ Decision(r, s).n = 0
        BY <2>1, <2>3 DEF TypeOK
    <2>5. s \notin order'[r].left
        <3>1. order'[r] = Patched(r, s)
            BY <2>3, <2>4 DEF TypeOK
        <3>2. s \notin Patched(r, s).left
            BY DEF Patched, NoOrder, TypeOK
        <3>3. QED
            BY <3>1, <3>2
    <2>6. CASE s \in order[r].sensed
        <3>1. order[r].target[s] \in AllDecisions /\ order[r].target[s].n = 0
            BY <2>4, <2>6 DEF Decision, TypeOK
        <3>2. PICK x \in Servers : order[r].target[s] \in Decisions(x)
            BY <3>1 DEF AllDecisions
        <3>3. order[r].target[s] = Zero
            BY <3>1, <3>2 DEF Decisions
        <3>4. QED
            BY <2>3, <2>4, <2>5, <3>3 DEF DecidedZero
    <2>7. CASE s \notin order[r].sensed
        <3>1. Made(order[r]) /\ order[r].left # {}
            BY <2>3 DEF MadeFromAnswers
        <3>2. QED
            BY <2>3, <2>4, <2>5, <2>7, <3>1 DEF Made, DecidedZero
    <2>8. QED
        BY <2>6, <2>7
<1>2. NeverScaledBlind <=> [][BlindStep]_vars
    <2>1. BlindStep <=>
              \A s \in Servers :
                  replicas[s] > 0 /\ replicas'[s] = 0 =>
                      \E r \in Requests :
                          /\ s \in order[r].left \ order'[r].left
                          /\ \/ order[r].target[s] = Zero
                             \/ LLMD /\ order[r].sensed # {}
        BY DEF BlindStep, DecidedZero
    <2>2. QED
        BY <2>1, PTL DEF NeverScaledBlind
<1>3. QED
    BY <1>1, <1>2, Start, Inductive, PTL DEF Spec
=============================================================================
