----------------------------- MODULE Actuation -----------------------------
(***************************************************************************)
(* The Actuator's /update handler (pkg/actuator/handlers.go,               *)
(* update_logic.go, actuator_serversim.go, actuator_llmd.go, pod_alloc.go) *)
(* as the Controller drives it, cycle after cycle.                         *)
(*                                                                         *)
(* A request brings every collected Deployment to the optimizer's          *)
(* allocation, one Deployment after the other, and copies the allocation   *)
(* onto its running pods.  The handler is not cancelled with the           *)
(* connection, so a request the Controller gave up on goes on beside the   *)
(* next one.  Patches may fail, with or without having been applied.       *)
(***************************************************************************)
EXTENDS Naturals, FiniteSets

CONSTANTS Servers,     \* the managed Deployments, as numbers in the order of their names
          Requests,    \* requests the Actuator may be working on at the same time
          NoRequest,
          ReplicaSets, \* ReplicaSets of the namespace
          RSOwner,     \* the Deployment that owns each of them, old revisions included
          Selected,    \* the ReplicaSets whose pods match each Deployment's selector
          Pods,
          Owner,       \* the ReplicaSet of each pod
          Draining,    \* running pods of an old revision
          Decisions,   \* the allocations the optimizer may choose for each Deployment
          First,       \* its first solution
          Unlabelled,  \* a Deployment or pod without its maxbatchsize label
          Bare,        \* the Deployments created without that label
          Backends,    \* what INFERNO_BACKEND may say
          MaxChurn     \* bound on new decisions, faults and restarts

\* config.AllocationData{}; a setting is an accelerator and a max batch size
Zero == [setting |-> <<"", 0>>, n |-> 0]

Choices(s) == Decisions[s] \cup {Zero}
Settings == {a.setting : a \in UNION {Choices(s) : s \in Servers}}

ASSUME ActuationAssumption ==
    /\ Servers \subseteq Nat /\ IsFiniteSet(Servers)
    /\ NoRequest \notin Requests
    /\ RSOwner \in [ReplicaSets -> Servers]
    /\ Selected \in [Servers -> SUBSET ReplicaSets]
    /\ Owner \in [Pods -> ReplicaSets]
    /\ Draining \subseteq Pods /\ Bare \subseteq Servers
    /\ \A s \in Servers : \A a \in Decisions[s] : a.n \in Nat \ {0}
    /\ DOMAIN First = Servers /\ \A s \in Servers : First[s] \in Choices(s)
    /\ Unlabelled \notin Settings
    /\ Backends \subseteq {"server-sim", "llmd"} /\ MaxChurn \in Nat

VARIABLES
    \* the cluster
    exists,     \* Deployments not deleted
    setting,    \* accelerator and maxbatchsize labels of each Deployment
    replicas,   \* its spec.replicas
    phase,      \* of each pod
    podSetting, \* its accelerator and maxbatchsize labels
    \* the Controller
    target,     \* the optimizer's last solution, Zero where it has none
    waiting,    \* the request POSTActuator waits for
    result,     \* what the last POSTActuator returned
    \* the Actuator
    pc,         \* the next call of each request
    updates,    \* its DeploymentUpdates not done yet
    toPatch,    \* the pods of the first of them not patched yet
    \* history
    alone,      \* no other request was in progress when the last one began
    churn,
    backend     \* INFERNO_BACKEND, the same for the whole run

cluster == <<exists, setting, replicas, phase, podSetting>>
handler == <<pc, updates, toPatch>>
vars == <<cluster, target, waiting, result, handler, alone, churn, backend>>

LLMD == backend = "llmd"

TypeOK ==
    /\ exists \subseteq Servers
    /\ setting \in [Servers -> Settings \cup {Unlabelled}]
    /\ replicas \in [Servers -> Nat]
    /\ phase \in [Pods -> {"new", "pending", "running", "gone"}]
    /\ podSetting \in [Pods -> Settings \cup {Unlabelled}]
    /\ DOMAIN target = Servers /\ \A s \in Servers : target[s] \in Choices(s)
    /\ waiting \in Requests \cup {NoRequest}
    /\ result \in {"ok", "error"}
    /\ pc \in [Requests -> {"free", "deployment", "list", "pods"}]
    /\ DOMAIN updates = Requests
    /\ \A r \in Requests : /\ DOMAIN updates[r] \subseteq Servers
                           /\ \A s \in DOMAIN updates[r] : updates[r][s] \in Choices(s)
                           /\ pc[r] = "free" <=> DOMAIN updates[r] = {}
    /\ toPatch \in [Requests -> SUBSET Pods]
    /\ alone \in BOOLEAN
    /\ churn \in 0..MaxChurn /\ backend \in Backends

Init ==
    /\ exists = Servers
    /\ setting = [s \in Servers |-> IF s \in Bare THEN Unlabelled ELSE Zero.setting]
    /\ replicas = [s \in Servers |-> 1]
    /\ phase = [p \in Pods |-> IF p \in Draining THEN "running" ELSE "new"]
    /\ podSetting = [p \in Pods |-> Unlabelled]
    /\ target = First
    /\ waiting = NoRequest /\ result = "ok"
    /\ pc = [r \in Requests |-> "free"]
    /\ updates = [r \in Requests |-> <<>>]
    /\ toPatch = [r \in Requests |-> {}]
    /\ alone = TRUE /\ churn = 0 /\ backend \in Backends

Disturb == churn < MaxChurn /\ churn' = churn + 1 /\ UNCHANGED backend

-----------------------------------------------------------------------------
(***************************************************************************)
(* The handler.                                                            *)
(***************************************************************************)

\* one update per collected Deployment; without an allocation it gets the zero one
ComputeUpdates(allocMap, serverMap) ==
    [s \in serverMap |-> IF s \in DOMAIN allocMap THEN allocMap[s] ELSE Zero]

\* The Controller posts the allocations it has and the Deployments it collected, some of
\* which may be gone by now.
Update(r) ==
    /\ waiting = NoRequest /\ pc[r] = "free"
    /\ \E serverMap \in SUBSET Servers :
          /\ exists \subseteq serverMap /\ serverMap # {}
          /\ updates' = [updates EXCEPT ![r] = ComputeUpdates(
                 [s \in {t \in Servers : target[t] # Zero} |-> target[s]], serverMap)]
    /\ pc' = [pc EXCEPT ![r] = "deployment"]
    /\ waiting' = r
    /\ alone' = \A k \in Requests : pc[k] = "free"
    /\ UNCHANGED <<cluster, target, result, toPatch>>

\* the update in work: they are sorted by server name
Current(r, s) == s \in DOMAIN updates[r] /\ \A t \in DOMAIN updates[r] : s <= t

\* Mutant: the request ends with updates left.
ReplyLeaving(r, answer) ==
    /\ pc' = [pc EXCEPT ![r] = "free"]
    /\ UNCHANGED <<updates, toPatch>>
    /\ IF waiting = r THEN waiting' = NoRequest /\ result' = answer
       ELSE UNCHANGED <<waiting, result>>

\* the request ends; its answer reaches the Controller if that still waits
Reply(r, answer) ==
    /\ pc' = [pc EXCEPT ![r] = "free"]
    /\ updates' = [updates EXCEPT ![r] = <<>>]
    /\ toPatch' = [toPatch EXCEPT ![r] = {}]
    /\ IF waiting = r THEN waiting' = NoRequest /\ result' = answer
       ELSE UNCHANGED <<waiting, result>>

\* Actuate of s returned nil
NextUpdate(r, s) ==
    IF DOMAIN updates[r] = {s} THEN Reply(r, "ok")
    ELSE /\ pc' = [pc EXCEPT ![r] = "deployment"]
         /\ updates' = [updates EXCEPT ![r] = [t \in DOMAIN updates[r] \ {s} |-> updates[r][t]]]
         /\ toPatch' = [toPatch EXCEPT ![r] = {}]
         /\ UNCHANGED <<waiting, result>>

Rejected(s) == ~ LLMD /\ setting[s] = Unlabelled

Applied(r, s) ==
    /\ setting' = IF LLMD THEN setting ELSE [setting EXCEPT ![s] = updates[r][s].setting]
    /\ replicas' = [replicas EXCEPT ![s] = updates[r][s].n]

\* One JSON patch replaces the two labels and the replicas; the API server rejects it when
\* a label is not there, and an error ends the request.  A deleted Deployment is skipped.
\* The pods come next, unless it is scaled to zero.
PatchDeployment(r, s) ==
    /\ pc[r] = "deployment" /\ Current(r, s)
    /\ \/ /\ s \notin exists
          /\ NextUpdate(r, s)
          /\ UNCHANGED <<setting, replicas>>
       \/ /\ s \in exists /\ Rejected(s)
          /\ Reply(r, "error")
          /\ UNCHANGED <<setting, replicas>>
       \/ /\ s \in exists /\ ~ Rejected(s)
          /\ Applied(r, s)
          /\ IF LLMD \/ updates[r][s].n = 0 THEN NextUpdate(r, s)
             ELSE /\ pc' = [pc EXCEPT ![r] = "list"]
                  /\ UNCHANGED <<updates, toPatch, waiting, result>>
    /\ UNCHANGED <<exists, phase, podSetting, target, alone>>

\* Mutant: pods of any ReplicaSet the selector matches.
ToPatchSelected(s, value) ==
    {p \in Pods : /\ phase[p] = "running" /\ Owner[p] \in Selected[s]
                  /\ podSetting[p] # value}

\* Mutant: a pod on the right accelerator is skipped.
ToPatchAccelerator(s, value) ==
    {p \in Pods : /\ phase[p] = "running" /\ Owner[p] \in Selected[s]
                  /\ RSOwner[Owner[p]] = s
                  /\ podSetting[p] = Unlabelled \/ podSetting[p][1] # value[1]}

\* running, owned through a ReplicaSet of the Deployment, another allocation in force
ToPatch(s, value) ==
    {p \in Pods : /\ phase[p] = "running" /\ Owner[p] \in Selected[s]
                  /\ RSOwner[Owner[p]] = s
                  /\ podSetting[p] # value}

\* reads the Deployment, its ReplicaSets and the pods; a Deployment gone by now is an
\* error that is only logged
ListPods(r, s) ==
    /\ pc[r] = "list" /\ Current(r, s)
    /\ LET ps == ToPatch(s, updates[r][s].setting)
       IN IF s \notin exists \/ ps = {} THEN NextUpdate(r, s)
          ELSE /\ pc' = [pc EXCEPT ![r] = "pods"]
               /\ toPatch' = [toPatch EXCEPT ![r] = ps]
               /\ UNCHANGED <<updates, waiting, result>>
    /\ UNCHANGED <<cluster, target, alone>>

\* the last of the concurrent patches to return ends the update
PodDone(r, s, p) ==
    IF toPatch[r] = {p} THEN NextUpdate(r, s)
    ELSE /\ toPatch' = [toPatch EXCEPT ![r] = @ \ {p}]
         /\ UNCHANGED <<pc, updates, waiting, result>>

\* the patches are issued together and arrive in any order; a deleted pod is logged
PatchPod(r, s, p) ==
    /\ pc[r] = "pods" /\ Current(r, s) /\ p \in toPatch[r]
    /\ podSetting' = IF phase[p] = "running"
                     THEN [podSetting EXCEPT ![p] = updates[r][s].setting] ELSE podSetting
    /\ PodDone(r, s, p)
    /\ UNCHANGED <<exists, setting, replicas, phase, target, alone>>

Actuate(r) ==
    \E s \in Servers : \/ PatchDeployment(r, s) \/ ListPods(r, s)
                       \/ \E p \in Pods : PatchPod(r, s, p)

-----------------------------------------------------------------------------
(***************************************************************************)
(* Failing calls, lost connections and restarts.                           *)
(***************************************************************************)

\* Mutant: a failed patch of a Deployment is logged and skipped.
PatchDeploymentFailsSkipped(r, s) ==
    /\ pc[r] = "deployment" /\ Current(r, s) /\ s \in exists
    /\ \/ Applied(r, s) /\ ~ Rejected(s)
       \/ UNCHANGED <<setting, replicas>>
    /\ NextUpdate(r, s)
    /\ UNCHANGED <<exists, phase, podSetting, target, alone>>

\* the updates after s are not tried
PatchDeploymentFails(r, s) ==
    /\ pc[r] = "deployment" /\ Current(r, s) /\ s \in exists
    /\ \/ Applied(r, s) /\ ~ Rejected(s)
       \/ UNCHANGED <<setting, replicas>>
    /\ Reply(r, "error")
    /\ UNCHANGED <<exists, phase, podSetting, target, alone>>

\* failures around the pods are logged; the request goes on
PodsFail(r, s) ==
    /\ Current(r, s)
    /\ \/ pc[r] = "list" /\ NextUpdate(r, s) /\ UNCHANGED podSetting
       \/ /\ pc[r] = "pods"
          /\ \E p \in toPatch[r] : PodDone(r, s, p)
          /\ UNCHANGED podSetting
    /\ UNCHANGED <<exists, setting, replicas, phase, target, alone>>

\* The connection breaks, or the Controller restarts: the handler does not notice.
Abandon ==
    /\ waiting # NoRequest
    /\ waiting' = NoRequest /\ result' = "error"
    /\ UNCHANGED <<cluster, target, handler, alone>>

Restart ==
    /\ pc' = [r \in Requests |-> "free"]
    /\ updates' = [r \in Requests |-> <<>>]
    /\ toPatch' = [r \in Requests |-> {}]
    /\ waiting' = NoRequest
    /\ result' = IF waiting = NoRequest THEN result ELSE "error"
    /\ UNCHANGED <<cluster, target, alone>>

Fault ==
    /\ \/ Abandon \/ Restart
       \/ \E r \in Requests, s \in Servers : PatchDeploymentFails(r, s) \/ PodsFail(r, s)
    /\ Disturb

-----------------------------------------------------------------------------
(***************************************************************************)
(* The optimizer and the cluster.                                          *)
(***************************************************************************)

\* Between two requests the optimizer decides anew.
Decide(s, a) ==
    /\ waiting = NoRequest /\ target[s] # a
    /\ target' = [target EXCEPT ![s] = a]
    /\ UNCHANGED <<cluster, waiting, result, handler, alone>>

DeletePod(p) ==
    /\ phase[p] \in {"pending", "running"}
    /\ phase' = [phase EXCEPT ![p] = "gone"]
    /\ podSetting' = [podSetting EXCEPT ![p] = Unlabelled]
    /\ UNCHANGED <<exists, setting, replicas, target, waiting, result, handler, alone>>

DeleteDeployment(s) ==
    /\ s \in exists
    /\ exists' = exists \ {s}
    /\ UNCHANGED <<setting, replicas, phase, podSetting>>
    /\ UNCHANGED <<target, waiting, result, handler, alone>>

Disturbance ==
    /\ \/ \E s \in Servers : DeleteDeployment(s) \/ \E a \in Choices(s) : Decide(s, a)
       \/ \E p \in Pods : DeletePod(p)
    /\ Disturb

PodsOf(s) == {p \in Pods : RSOwner[Owner[p]] = s}
Alive(s) == {p \in PodsOf(s) \ Draining : phase[p] \in {"pending", "running"}}

\* a new pod has the labels of the template, which nobody patches
CreatePod(p) ==
    /\ phase[p] = "new"
    /\ \E s \in exists : p \in PodsOf(s) /\ Cardinality(Alive(s)) < replicas[s]
    /\ phase' = [phase EXCEPT ![p] = "pending"]
    /\ UNCHANGED <<exists, setting, replicas, podSetting, target, waiting, result, handler, alone>>

RunPod(p) ==
    /\ phase[p] = "pending"
    /\ phase' = [phase EXCEPT ![p] = "running"]
    /\ UNCHANGED <<exists, setting, replicas, podSetting, target, waiting, result, handler, alone>>

\* scaled down, drained, or the Deployment was deleted
RemovePod(p) ==
    /\ \/ p \in Draining
       \/ \E s \in Servers : /\ p \in Alive(s)
                             /\ s \notin exists \/ Cardinality(Alive(s)) > replicas[s]
    /\ DeletePod(p)

Calm == UNCHANGED <<churn, backend>>

Kubernetes == (\E p \in Pods : CreatePod(p) \/ RunPod(p) \/ RemovePod(p)) /\ Calm

Next ==
    \/ (\E r \in Requests : Update(r) \/ Actuate(r)) /\ Calm
    \/ Fault \/ Disturbance \/ Kubernetes

\* The control loop goes on, every call returns, the cluster's controllers keep working.
Fairness ==
    /\ WF_vars((\E r \in Requests : Update(r)) /\ Calm)
    /\ \A r \in Requests : WF_vars(Actuate(r) /\ Calm)
    /\ \A p \in Pods : /\ WF_vars(CreatePod(p) /\ Calm)
                       /\ WF_vars(RunPod(p) /\ Calm)
                       /\ WF_vars(RemovePod(p) /\ Calm)

Spec == Init /\ [][Next]_vars
FairSpec == Spec /\ Fairness

-----------------------------------------------------------------------------
(***************************************************************************)
(* Properties                                                              *)
(***************************************************************************)

Attained(s) ==
    /\ replicas[s] = target[s].n
    /\ ~ LLMD => setting[s] = target[s].setting

\* When the Actuator answers "Done" every Deployment that still exists has the allocation
\* of this cycle, provided no request the Controller had given up on was still at work.
DoneMeansApplied ==
    [][waiting # NoRequest /\ waiting' = NoRequest /\ result' = "ok" /\ alone =>
           (\A s \in exists : Attained(s))']_vars

\* A pod never carries an allocation that was decided for another Deployment, although
\* selectors overlap and requests do: its evaluator would run at the wrong M*.
OwnAllocation ==
    \A s \in Servers : \A p \in PodsOf(s) :
        podSetting[p] # Unlabelled => \E a \in Decisions[s] : podSetting[p] = a.setting

\* Once decisions and faults stop, every Deployment and every running pod gets the last
\* decision for good, whatever a half-applied update or a late request left behind.
Converges ==
    <>[](\A s \in exists :
            /\ Attained(s)
            /\ ~ LLMD /\ target[s].n > 0 =>
                   \A p \in PodsOf(s) : phase[p] = "running" => podSetting[p] = target[s].setting)

\* README.md: the maxbatchsize label of a managed Deployment is optional.  An update
\* succeeds when no call failed and nobody interfered.
OptionalLabel == churn = 0 => result = "ok"
=============================================================================
