------------------------------ MODULE Sensing ------------------------------
(***************************************************************************)
(* The Collector's /collect handler (pkg/collector/handlers.go) with both  *)
(* sensors (sensor_serversim.go, sensor_llmd.go), replicaspec.go and       *)
(* serversim.go's getLatest, inside the loop it serves: the Controller     *)
(* hands the answer to the optimizer, the Actuator applies the decisions   *)
(* to every Deployment the Collector named, Kubernetes starts and ends     *)
(* pods, and each pod's server-sim publishes one window after the other.   *)
(*                                                                         *)
(* The Deployments are read once per collection, the pods of a Deployment  *)
(* later, their windows later still.  Actuation models the update handler  *)
(* call by call; here it is one step per Deployment.                       *)
(***************************************************************************)
EXTENDS Naturals, FiniteSets

CONSTANTS Servers,   \* the managed Deployments, one per server
          Pods,
          Owner,     \* the Deployment of each pod
          Choices,   \* the allocations the optimizer may choose for each: replicas, and
                     \* accelerator and M*
          Template,  \* the setting of a new pod of each; M* = 0 stands for no label
          Requests,  \* /update requests the Actuator may be working on at the same time
          NoRequest,
          Setpoints, \* Deployments whose inferno.server.load.rpm label is above zero
          Backends,  \* what INFERNO_BACKEND may say
          First,     \* the optimizer's first decisions
          None,      \* no window yet: GET /latest answers 404
          MaxChurn   \* bound on new decisions, failures and restarts, per backend

Zero == [n |-> 0, setting |-> <<"", 0>>]
Decisions(s) == Choices[s] \cup {Zero}
AllDecisions == UNION {Decisions(s) : s \in Servers}
AllSettings == {d.setting : d \in AllDecisions} \cup {Template[s] : s \in Servers}

ASSUME SensingAssumption ==
    /\ Owner \in [Pods -> Servers] /\ Setpoints \subseteq Servers
    /\ DOMAIN Choices = Servers
    /\ \A s \in Servers : \A d \in Choices[s] :
           DOMAIN d = {"n", "setting"} /\ d.n \in Nat \ {0} /\ d.setting[2] \in Nat \ {0}
    /\ Servers # {} /\ IsFiniteSet(Pods)
    /\ Template \in [Servers -> AllSettings] /\ \A s \in Servers : Template[s][2] \in Nat
    /\ None \notin AllSettings
    /\ First \in [Servers -> AllDecisions] /\ \A s \in Servers : First[s] \in Decisions(s)
    /\ MaxChurn \in [Backends -> Nat]
    /\ Backends \subseteq {"server-sim", "llmd"}
    /\ NoRequest \notin Requests

VARIABLES
    \* the cluster
    replicas,    \* spec.replicas of each Deployment
    setting,     \* its accelerator and maxbatchsize labels
    phase,       \* of each pod: none, starting, ready or ending (still Running, still answering)
    podSetting,  \* the labels of each pod
    window,      \* the setting the pod's evaluation window in progress runs under
    latest,      \* the setting its last completed window ran under
    \* the Controller and the optimizer
    stage,       \* collect, sense, read or actuate
    target,      \* the optimizer's decision for each server it is asked about
    waiting,     \* the request POSTActuator waits for
    \* the Actuator
    order,       \* of each request: what it was posted with, the Deployments left to patch
    \* the Collector
    deps,        \* the Deployments as listed: replicas and setting
    todo,        \* Deployments not sensed yet
    current,     \* the Deployment being sensed
    listed,      \* its running, owned and ready pods
    alive,       \* history: its pods that were up or starting when they were listed
    toRead,      \* those whose window has not been read yet
    reporting,   \* the pods whose window was accepted, with the setting it ran under
    answer,      \* per server of Spec: replicas, pods that reported, source of the rate
    churn,
    backend      \* INFERNO_BACKEND, the same for the whole run

cluster == <<replicas, setting, phase, podSetting, window, latest>>
loop == <<stage, target, waiting, order>>
locals == <<listed, alive, toRead, reporting>>
sensing == <<deps, todo, current, locals, answer>>
bounds == <<churn, backend>>
vars == <<cluster, loop, sensing, bounds>>

LLMD == backend = "llmd"

PodsOf(s) == {p \in Pods : Owner[p] = s}
Present(s) == {p \in PodsOf(s) : phase[p] # "none"}
Alive(s) == {p \in PodsOf(s) : phase[p] \in {"starting", "ready"}}

Empty == [s \in {} |-> 0]

\* before a collection
Unread == [s \in Servers |-> [n |-> 0, setting |-> Zero.setting]]
Someone == CHOOSE s \in Servers : TRUE

\* a request that has been answered, or was never made
NoOrder == [target |-> First, sensed |-> {}, left |-> {}]

TypeOK ==
    /\ replicas \in [Servers -> Nat] /\ setting \in [Servers -> AllSettings]
    /\ phase \in [Pods -> {"none", "starting", "ready", "ending"}]
    /\ podSetting \in [Pods -> AllSettings] /\ window \in [Pods -> AllSettings]
    /\ latest \in [Pods -> AllSettings \cup {None}]
    /\ stage \in {"collect", "sense", "read", "actuate"}
    /\ target \in [Servers -> AllDecisions] /\ \A s \in Servers : target[s] \in Decisions(s)
    /\ waiting \in Requests \cup {NoRequest} /\ (waiting # NoRequest <=> stage = "actuate")
    /\ order \in [Requests -> [target : [Servers -> AllDecisions], sensed : SUBSET Servers,
                               left : SUBSET Servers]]
    /\ deps \in [Servers -> [n : Nat, setting : AllSettings]]
    /\ todo \subseteq Servers /\ current \in Servers
    /\ toRead \subseteq listed /\ listed \cup alive \subseteq PodsOf(current)
    /\ DOMAIN reporting \subseteq listed \ toRead
    /\ DOMAIN answer \subseteq Servers \ todo
    /\ churn \in 0..MaxChurn[backend] /\ backend \in Backends

Init ==
    /\ replicas = [s \in Servers |-> 1] /\ setting = Template
    /\ phase = [p \in Pods |-> IF p = CHOOSE q \in PodsOf(Owner[p]) : TRUE
                                THEN "ready" ELSE "none"]
    /\ podSetting = [p \in Pods |-> Template[Owner[p]]] /\ window = podSetting
    /\ latest = [p \in Pods |-> None]
    /\ stage = "collect" /\ target = First
    /\ waiting = NoRequest /\ order = [r \in Requests |-> NoOrder]
    /\ deps = Unread /\ todo = {} /\ current = Someone
    /\ listed = {} /\ alive = {} /\ toRead = {} /\ reporting = Empty
    /\ answer = Empty /\ churn = 0 /\ backend \in Backends

Disturb == churn < MaxChurn[backend] /\ churn' = churn + 1 /\ UNCHANGED backend
Calm == UNCHANGED bounds

-----------------------------------------------------------------------------
(***************************************************************************)
(* The Collector.                                                          *)
(***************************************************************************)

\* collect lists the Deployments; all of them end up in KubeResource
Collect ==
    /\ stage = "collect"
    /\ deps' = [s \in Servers |-> [n |-> replicas[s], setting |-> setting[s]]]
    /\ todo' = Servers /\ answer' = Empty /\ stage' = "sense"
    /\ UNCHANGED <<cluster, target, waiting, order, current, locals>>

\* the arrival rate when k of n replicas report; "measured" is the sum over the k
selectArrivalRate(s, k, n) ==
    IF k > 0 /\ k = n THEN "measured"
    ELSE IF s \in Setpoints THEN "setpoint"
    ELSE IF k > 0 THEN "measured" ELSE "backup"

\* the sensor is done with a Deployment
Forget == listed' = {} /\ alive' = {} /\ toRead' = {} /\ reporting' = Empty

Answered(s, n, source) ==
    /\ answer' = [x \in DOMAIN answer \cup {s} |->
                     IF x = s THEN [n |-> n, alive |-> alive, ending |-> listed \ alive,
                                    pods |-> reporting, rate |-> source]
                     ELSE answer[x]]
    /\ Forget

\* Sense lists the Deployment's pods: Running and past the startup delay, a pod that is
\* shutting down among them; llmd has no startup delay.
ListPods(s) ==
    /\ stage = "sense" /\ s \in todo
    /\ current' = s /\ todo' = todo \ {s}
    /\ LET ps == {p \in Present(s) : LLMD \/ phase[p] # "starting"} IN
       IF LLMD /\ ps = {}
       THEN Answered(s, deps[s].n, "completed") /\ UNCHANGED stage
       ELSE /\ listed' = ps /\ toRead' = ps /\ alive' = Alive(s)
            /\ stage' = "read" /\ UNCHANGED <<reporting, answer>>
    /\ UNCHANGED <<cluster, target, waiting, order, deps>>

\* Mutant: every sensor gives up when the pods cannot be listed.
ListPodsDrops(s) ==
    /\ stage = "sense" /\ s \in todo
    /\ current' = s /\ todo' = todo \ {s} /\ Forget
    /\ UNCHANGED <<cluster, loop, deps, answer>>

\* A list call fails: serversim goes on with no replicas, llmd leaves the server out.
ListPodsFails(s) ==
    /\ stage = "sense" /\ s \in todo
    /\ current' = s /\ todo' = todo \ {s}
    /\ IF LLMD THEN Forget /\ UNCHANGED answer
               ELSE Answered(s, 0, selectArrivalRate(s, 0, 0))
    /\ UNCHANGED <<cluster, loop, deps>>

\* buildReplicaSpec's coherence gate: only M* is compared
Coherent(s, w) == w # None /\ deps[s].setting[2] > 0 /\ w[2] = deps[s].setting[2]

\* Mutant: the pods are counted as read when their goroutine starts.
ReadLatestOfAll(p) ==
    /\ stage = "read" /\ ~ LLMD /\ p \in toRead
    /\ reporting' = IF phase[p] # "none" /\ Coherent(current, latest[p])
                    THEN [q \in DOMAIN reporting \cup {p} |->
                             IF q = p THEN latest[p] ELSE reporting[q]]
                    ELSE reporting
    /\ UNCHANGED <<cluster, loop, deps, todo, current, listed, alive, toRead, answer>>

\* getLatest of one of the pods, each in a goroutine of its own, or its failure
ReadLatest(p) ==
    /\ stage = "read" /\ ~ LLMD /\ p \in toRead
    /\ toRead' = toRead \ {p}
    /\ reporting' = IF phase[p] # "none" /\ Coherent(current, latest[p])
                    THEN [q \in DOMAIN reporting \cup {p} |->
                             IF q = p THEN latest[p] ELSE reporting[q]]
                    ELSE reporting
    /\ UNCHANGED <<cluster, loop, deps, todo, current, listed, alive, answer>>

ReadLatestFails(p) ==
    /\ stage = "read" /\ ~ LLMD /\ p \in toRead
    /\ toRead' = toRead \ {p}
    /\ UNCHANGED <<cluster, loop, deps, todo, current, listed, alive, reporting, answer>>

\* Mutant: the replicas are the pods that were listed.
SensedAsListed ==
    /\ stage = "read" /\ ~ LLMD /\ toRead = {}
    /\ LET n == Cardinality(listed) IN
       Answered(current, n, selectArrivalRate(current, Cardinality(DOMAIN reporting), n))
    /\ stage' = "sense"
    /\ UNCHANGED <<cluster, target, waiting, order, deps, todo, current>>

\* every window was read
Sensed ==
    /\ stage = "read" /\ ~ LLMD /\ toRead = {}
    /\ LET n == deps[current].n IN
       Answered(current, n, selectArrivalRate(current, Cardinality(DOMAIN reporting), n))
    /\ stage' = "sense"
    /\ UNCHANGED <<cluster, target, waiting, order, deps, todo, current>>

\* fetchMetrics: the queries of all the pods together; one that fails fails the server.
\* Who has throughput is of no consequence here.
FetchMetrics ==
    /\ stage = "read" /\ LLMD
    /\ Answered(current, deps[current].n, "completed")
    /\ stage' = "sense"
    /\ UNCHANGED <<cluster, target, waiting, order, deps, todo, current>>

FetchMetricsFails ==
    /\ stage = "read" /\ LLMD
    /\ Forget /\ stage' = "sense"
    /\ UNCHANGED <<cluster, target, waiting, order, deps, todo, current, answer>>

-----------------------------------------------------------------------------
(***************************************************************************)
(* The Controller and the Actuator.                                        *)
(***************************************************************************)

\* the answer is used or lost, and the locals of /collect with it
Discard ==
    /\ deps' = Unread /\ todo' = {} /\ current' = Someone /\ answer' = Empty
    /\ Forget

\* An answer without a server ends the cycle; otherwise the Actuator is given the
\* optimizer's solution for the servers of Spec and the Deployments of KubeResource.
Optimize ==
    /\ stage = "sense" /\ todo = {}
    /\ IF DOMAIN answer = {} THEN stage' = "collect" /\ UNCHANGED <<waiting, order>>
       ELSE /\ \E r \in Requests : order[r].left = {}
            /\ stage' = "actuate" /\ waiting' = CHOOSE r \in Requests : order[r].left = {}
            /\ order' = [order EXCEPT ![waiting'] =
                   [target |-> target, sensed |-> DOMAIN answer, left |-> Servers]]
    /\ Discard
    /\ UNCHANGED <<cluster, target>>

\* ComputeUpdates: a Deployment without a solution is scaled to zero
Decision(r, s) == IF s \in order[r].sensed THEN order[r].target[s] ELSE Zero

Patched(r, s) ==
    IF order[r].left = {s} THEN NoOrder ELSE [order[r] EXCEPT !.left = @ \ {s}]

\* Mutant: the pods are labelled only when the Deployment's labels change.
ActuateChanges(r, s) ==
    /\ s \in order[r].left
    /\ order' = [order EXCEPT ![r] = Patched(r, s)]
    /\ replicas' = [replicas EXCEPT ![s] = Decision(r, s).n]
    /\ setting' = [setting EXCEPT ![s] = Decision(r, s).setting]
    /\ podSetting' = [p \in Pods |->
                         IF p \in Present(s) /\ setting[s] # Decision(r, s).setting
                         THEN Decision(r, s).setting ELSE podSetting[p]]
    /\ UNCHANGED <<phase, window, latest, stage, target, waiting, sensing>>

\* Actuate of one Deployment: its patch, then its running pods' labels.  The handler goes
\* on when the Controller no longer waits for it.
Actuate(r, s) ==
    /\ s \in order[r].left
    /\ order' = [order EXCEPT ![r] = Patched(r, s)]
    /\ replicas' = [replicas EXCEPT ![s] = Decision(r, s).n]
    /\ IF LLMD THEN UNCHANGED <<setting, podSetting>>
       ELSE /\ setting' = [setting EXCEPT ![s] = Decision(r, s).setting]
            /\ podSetting' = [p \in Pods |->
                                 IF p \in Present(s) /\ Decision(r, s).n > 0
                                 THEN Decision(r, s).setting ELSE podSetting[p]]
    /\ UNCHANGED <<phase, window, latest, stage, target, waiting, sensing>>

CycleEnds ==
    /\ stage = "actuate" /\ order[waiting].left = {}
    /\ stage' = "collect" /\ waiting' = NoRequest
    /\ UNCHANGED <<cluster, target, order, sensing>>

\* A call of the cycle fails, or the Controller or the Collector restarts: the cycle is
\* given up.  A request the Actuator was given is not.
CycleFails ==
    /\ stage # "collect"
    /\ stage' = "collect" /\ waiting' = NoRequest /\ Discard
    /\ UNCHANGED <<cluster, target, order>>

\* A patch fails, which ends its request, or the Actuator restarts, which ends all.
UpdateFails(ended) ==
    /\ \E r \in ended : order[r].left # {}
    /\ order' = [r \in Requests |-> IF r \in ended THEN NoOrder ELSE order[r]]
    /\ IF waiting \in ended THEN stage' = "collect" /\ waiting' = NoRequest
                              ELSE UNCHANGED <<stage, waiting>>
    /\ UNCHANGED <<cluster, target, sensing>>

\* Between two cycles the load, and so the optimizer's decision, changes.
Decide(s, a) ==
    /\ stage = "collect" /\ target[s] # a
    /\ target' = [target EXCEPT ![s] = a]
    /\ UNCHANGED <<cluster, stage, waiting, order, sensing>>

-----------------------------------------------------------------------------
(***************************************************************************)
(* Kubernetes and the pods' server-sims.                                   *)
(***************************************************************************)

StartPod(p) ==
    /\ phase[p] = "none" /\ Cardinality(Alive(Owner[p])) < replicas[Owner[p]]
    /\ phase' = [phase EXCEPT ![p] = "starting"]
    /\ UNCHANGED <<replicas, setting, podSetting, window, latest>>

PodReady(p) ==
    /\ phase[p] = "starting"
    /\ phase' = [phase EXCEPT ![p] = "ready"]
    /\ UNCHANGED <<replicas, setting, podSetting, window, latest>>

\* scaled down: the pod stays Running until its containers have stopped
EndPod(p) ==
    /\ phase[p] \in {"starting", "ready"}
    /\ Cardinality(Alive(Owner[p])) > replicas[Owner[p]]
    /\ phase' = [phase EXCEPT ![p] = "ending"]
    /\ UNCHANGED <<replicas, setting, podSetting, window, latest>>

PodGone(p) ==
    /\ phase[p] = "ending"
    /\ phase' = [phase EXCEPT ![p] = "none"]
    /\ podSetting' = [podSetting EXCEPT ![p] = Template[Owner[p]]]
    /\ window' = [window EXCEPT ![p] = Template[Owner[p]]]
    /\ latest' = [latest EXCEPT ![p] = None]
    /\ UNCHANGED <<replicas, setting>>

\* a window of the server-sim is complete; the next one runs under the labels of now
CompleteWindow(p) ==
    /\ ~ LLMD /\ phase[p] # "none"
    /\ latest' = [latest EXCEPT ![p] = window[p]]
    /\ window' = [window EXCEPT ![p] = podSetting[p]]
    /\ UNCHANGED <<replicas, setting, phase, podSetting>>

Cluster ==
    /\ \E p \in Pods : \/ StartPod(p) \/ PodReady(p) \/ EndPod(p) \/ PodGone(p)
                       \/ CompleteWindow(p)
    /\ UNCHANGED <<loop, sensing>>

\* what a cycle does when nothing fails
Step ==
    \/ Collect \/ Sensed \/ FetchMetrics \/ CycleEnds
    \/ \E s \in Servers : ListPods(s)
    \/ \E p \in Pods : ReadLatest(p)
    \/ Optimize \/ \E r \in Requests, s \in Servers : Actuate(r, s)

Fault ==
    \/ FetchMetricsFails \/ CycleFails
    \/ \E s \in Servers : ListPodsFails(s) \/ \E a \in Decisions(s) : Decide(s, a)
    \/ \E p \in Pods : ReadLatestFails(p)
    \/ \E r \in Requests : UpdateFails({r})
    \/ UpdateFails(Requests)

Next ==
    \/ (Step \/ Cluster) /\ Calm
    \/ Fault /\ Disturb

\* The loop runs at its period, Kubernetes reconciles and every server-sim goes on.
Fairness ==
    /\ WF_vars(Step /\ Calm)
    /\ \A p \in Pods :
           /\ WF_vars((StartPod(p) \/ PodReady(p) \/ EndPod(p) \/ PodGone(p))
                      /\ UNCHANGED <<loop, sensing, bounds>>)
           /\ WF_vars(CompleteWindow(p) /\ UNCHANGED <<loop, sensing, bounds>>)

Spec == Init /\ [][Next]_vars
FairSpec == Spec /\ Fairness

-----------------------------------------------------------------------------
(***************************************************************************)
(* Properties                                                              *)
(***************************************************************************)

Reported(s) == DOMAIN answer[s].pods

\* A rate that is measured although a setpoint is known is the sum over as many pods as the
\* Deployment asked for when it was listed.  It is the sum over all the pods that are up or
\* starting, unless there are more of them than it asked for or a pod that was shutting down
\* was listed too: no replica that starts, is silent or runs under an old M* makes the
\* optimizer see less load than is offered.
RateNotPartial ==
    \A s \in DOMAIN answer \cap Setpoints :
        answer[s].rate = "measured" =>
            /\ Cardinality(Reported(s)) = deps[s].n
            /\ Cardinality(answer[s].alive) <= deps[s].n /\ answer[s].ending = {} =>
                   Reported(s) = answer[s].alive

\* A Deployment is scaled to zero because the optimizer decided so when the request was
\* made, and not because it could not be sensed: with server-sim pods no failure does that,
\* with llm-d pods none does while nothing at all was sensed, which covers the single
\* variant of handlers.go.
NeverScaledBlind ==
    [][\A s \in Servers :
           replicas[s] > 0 /\ replicas'[s] = 0 =>
               \E r \in Requests :
                   /\ s \in order[r].left \ order'[r].left
                   /\ \/ order[r].target[s] = Zero
                      \/ LLMD /\ order[r].sensed # {}]_vars

\* Once the decisions are stable and nothing fails, every replica's window is accepted in
\* every answer, the rate is measured, and the windows ran under all of the allocation: no
\* pod stays behind at an old M*, and none is read at an old accelerator for good, although
\* the coherence gate does not compare it.
EveryReplicaReports ==
    ~ LLMD => <>[](\A s \in DOMAIN answer : target[s].n > 0 =>
                       /\ answer[s].rate = "measured"
                       /\ Cardinality(Reported(s)) = target[s].n
                       /\ \A p \in Reported(s) : answer[s].pods[p] = target[s].setting)
=============================================================================
