-------------------------- MODULE ActuationProofs --------------------------
(***************************************************************************)
(* Type correctness of the Actuator's handler and its two safety           *)
(* properties, for any Deployments, ReplicaSets, pods, requests, decisions *)
(* and backends.                                                           *)
(***************************************************************************)
EXTENDS Actuation, TLAPS

ClusterType ==
    /\ exists \subseteq Servers
    /\ setting \in [Servers -> Settings \cup {Unlabelled}]
    /\ replicas \in [Servers -> Nat]
    /\ phase \in [Pods -> {"new", "pending", "running", "gone"}]
    /\ podSetting \in [Pods -> Settings \cup {Unlabelled}]

HandlerType ==
    /\ waiting \in Requests \cup {NoRequest}
    /\ result \in {"ok", "error"}
    /\ pc \in [Requests -> {"free", "deployment", "list", "pods"}]
    /\ DOMAIN updates = Requests
    /\ \A r \in Requests : /\ DOMAIN updates[r] \subseteq Servers
                           /\ \A s \in DOMAIN updates[r] : updates[r][s] \in Choices(s)
                           /\ pc[r] = "free" <=> DOMAIN updates[r] = {}
    /\ toPatch \in [Requests -> SUBSET Pods]

\* An allocation a Deployment may get has a known setting and a number of replicas.
LEMMA ChoiceType ==
    ASSUME NEW s \in Servers, NEW a \in Choices(s)
    PROVE  a.setting \in Settings /\ a.n \in Nat
<1>1. a.setting \in Settings
    BY DEF Settings
<1>2. Zero.n = 0
    BY DEF Zero
<1>3. a = Zero \/ a.n \in Nat
    BY ActuationAssumption DEF Choices
<1>4. QED
    BY <1>1, <1>2, <1>3

\* What follows an answer or a finished update is well typed.
LEMMA HandlerStep ==
    ASSUME TypeOK, NEW r \in Requests, NEW s \in Servers, Current(r, s),
           \/ \E answer \in {"ok", "error"} : Reply(r, answer)
           \/ NextUpdate(r, s)
           \/ \E p \in Pods : PodDone(r, s, p)
    PROVE  HandlerType'
<1> USE DEF TypeOK, HandlerType
<1>0. DOMAIN <<>> = {}
    OBVIOUS
<1>1. ASSUME NEW answer \in {"ok", "error"}, Reply(r, answer) PROVE HandlerType'
    <2>1. /\ waiting' \in Requests \cup {NoRequest} /\ result' \in {"ok", "error"}
          /\ pc' \in [Requests -> {"free", "deployment", "list", "pods"}]
          /\ toPatch' \in [Requests -> SUBSET Pods]
        BY <1>1 DEF Reply
    <2>2. DOMAIN updates' = Requests
        BY <1>1 DEF Reply
    <2>3. ASSUME NEW k \in Requests
          PROVE  /\ DOMAIN updates'[k] \subseteq Servers
                 /\ \A t \in DOMAIN updates'[k] : updates'[k][t] \in Choices(t)
                 /\ pc'[k] = "free" <=> DOMAIN updates'[k] = {}
        <3>1. CASE k = r
            BY <1>1, <1>0, <3>1 DEF Reply
        <3>2. CASE k # r
            BY <1>1, <3>2 DEF Reply
        <3>3. QED
            BY <3>1, <3>2
    <2>4. QED
        BY <2>1, <2>2, <2>3
<1>2. ASSUME NextUpdate(r, s) PROVE HandlerType'
    <2>1. CASE DOMAIN updates[r] = {s}
        BY <1>1, <1>2, <2>1 DEF NextUpdate
    <2>2. CASE DOMAIN updates[r] # {s}
        <3> DEFINE rest == [t \in DOMAIN updates[r] \ {s} |-> updates[r][t]]
        <3>1. /\ pc' = [pc EXCEPT ![r] = "deployment"] /\ updates' = [updates EXCEPT ![r] = rest]
              /\ toPatch' = [toPatch EXCEPT ![r] = {}] /\ UNCHANGED <<waiting, result>>
            BY <1>2, <2>2 DEF NextUpdate
        <3>2. DOMAIN rest # {} /\ DOMAIN rest \subseteq DOMAIN updates[r]
            BY <2>2 DEF Current
        <3>3. \A t \in DOMAIN rest : rest[t] = updates[r][t]
            OBVIOUS
        <3> HIDE DEF rest
        <3>4. ASSUME NEW k \in Requests
              PROVE  /\ DOMAIN updates'[k] \subseteq Servers
                     /\ \A t \in DOMAIN updates'[k] : updates'[k][t] \in Choices(t)
                     /\ pc'[k] = "free" <=> DOMAIN updates'[k] = {}
            <4>1. CASE k = r
                <5>1. updates'[k] = rest /\ pc'[k] = "deployment"
                    BY <3>1, <4>1
                <5>2. QED
                    BY <5>1, <3>2, <3>3
            <4>2. CASE k # r
                BY <3>1, <4>2
            <4>3. QED
                BY <4>1, <4>2
        <3>5. QED
            BY <3>1, <3>4
    <2>3. QED
        BY <2>1, <2>2
<1>3. ASSUME NEW p \in Pods, PodDone(r, s, p) PROVE HandlerType'
    BY <1>2, <1>3 DEF PodDone
<1>4. QED
    BY <1>1, <1>2, <1>3

\* A patch of a Deployment writes a known setting and a number of replicas.
LEMMA AppliedType ==
    ASSUME TypeOK, NEW r \in Requests, NEW s \in Servers, Current(r, s), Applied(r, s)
    PROVE  /\ setting' \in [Servers -> Settings \cup {Unlabelled}]
           /\ replicas' \in [Servers -> Nat]
<1>1. updates[r][s].setting \in Settings /\ updates[r][s].n \in Nat
    BY ChoiceType DEF TypeOK, Current
<1>2. QED
    BY <1>1 DEF Applied, TypeOK

\* The type invariant is kept by every step.
LEMMA TypeStep == TypeOK /\ [Next]_vars => TypeOK'
<1> SUFFICES ASSUME TypeOK, [Next]_vars PROVE TypeOK'
    OBVIOUS
<1> DEFINE Rest == /\ DOMAIN target = Servers /\ \A s \in Servers : target[s] \in Choices(s)
                   /\ alone \in BOOLEAN
                   /\ churn \in 0..MaxChurn /\ backend \in Backends
<1>t. TypeOK' <=> ClusterType' /\ HandlerType' /\ Rest'
    BY DEF TypeOK, ClusterType, HandlerType
<1>c. ASSUME UNCHANGED cluster PROVE ClusterType'
    BY <1>c DEF cluster, TypeOK, ClusterType
<1>h. ASSUME UNCHANGED <<waiting, result, handler>> PROVE HandlerType'
    BY <1>h DEF handler, TypeOK, HandlerType
<1>k. ASSUME Calm \/ Disturb, UNCHANGED <<target, alone>> PROVE Rest'
    BY <1>k, ActuationAssumption DEF Calm, Disturb, TypeOK
<1> HIDE DEF Rest
<1>1. ASSUME NEW r \in Requests, Update(r), Calm PROVE TypeOK'
    <2>1. PICK serverMap \in SUBSET Servers :
              /\ serverMap # {}
              /\ updates' = [updates EXCEPT ![r] = ComputeUpdates(
                     [s \in {t \in Servers : target[t] # Zero} |-> target[s]], serverMap)]
        BY <1>1 DEF Update
    <2> DEFINE new == ComputeUpdates(
                   [s \in {t \in Servers : target[t] # Zero} |-> target[s]], serverMap)
    <2>2. DOMAIN new = serverMap /\ \A s \in DOMAIN new : new[s] \in Choices(s)
        BY DEF ComputeUpdates, TypeOK, Choices
    <2>3. updates' = [updates EXCEPT ![r] = new]
        BY <2>1
    <2> HIDE DEF new
    <2>4. /\ pc' = [pc EXCEPT ![r] = "deployment"] /\ waiting' = r
          /\ UNCHANGED <<cluster, target, result, toPatch>> /\ alone' \in BOOLEAN
        BY <1>1 DEF Update
    <2>5. DOMAIN updates' = Requests
        BY <2>3 DEF TypeOK
    <2>6. ASSUME NEW k \in Requests
          PROVE  /\ DOMAIN updates'[k] \subseteq Servers
                 /\ \A s \in DOMAIN updates'[k] : updates'[k][s] \in Choices(s)
                 /\ pc'[k] = "free" <=> DOMAIN updates'[k] = {}
        <3>1. CASE k = r
            <4>1. updates'[k] = new /\ pc'[k] = "deployment"
                BY <2>3, <2>4, <3>1 DEF TypeOK
            <4>2. QED
                BY <4>1, <2>1, <2>2
        <3>2. CASE k # r
            BY <2>3, <2>4, <3>2 DEF TypeOK
        <3>3. QED
            BY <3>1, <3>2
    <2>7. HandlerType'
        BY <2>4, <2>5, <2>6 DEF HandlerType, TypeOK
    <2>8. Rest'
        BY <1>1, <2>4 DEF Rest, Calm, TypeOK
    <2>9. QED
        BY <1>t, <1>c, <2>4, <2>7, <2>8
<1>2. ASSUME NEW r \in Requests, NEW s \in Servers, PatchDeployment(r, s), Calm PROVE TypeOK'
    <2>1. Current(r, s) /\ UNCHANGED <<exists, phase, podSetting, target, alone>>
        BY <1>2 DEF PatchDeployment
    <2>2. CASE s \notin exists /\ NextUpdate(r, s) /\ UNCHANGED <<setting, replicas>>
        BY <1>t, <1>c, <1>k, <1>2, <2>1, <2>2, HandlerStep DEF cluster
    <2>3. CASE Reply(r, "error") /\ UNCHANGED <<setting, replicas>>
        BY <1>t, <1>c, <1>k, <1>2, <2>1, <2>3, HandlerStep DEF cluster
    <2>4. CASE Applied(r, s) /\ NextUpdate(r, s)
        <3>1. ClusterType'
            BY <2>1, <2>4, AppliedType DEF ClusterType, TypeOK
        <3>2. QED
            BY <1>t, <1>k, <1>2, <2>1, <2>4, <3>1, HandlerStep
    <2>5. CASE /\ pc[r] = "deployment" /\ Applied(r, s) /\ pc' = [pc EXCEPT ![r] = "list"]
               /\ UNCHANGED <<updates, toPatch, waiting, result>>
        <3>1. ClusterType'
            BY <2>1, <2>5, AppliedType DEF ClusterType, TypeOK
        <3>2. HandlerType'
            BY <2>5 DEF HandlerType, TypeOK
        <3>3. QED
            BY <1>t, <1>k, <1>2, <2>1, <3>1, <3>2
    <2>6. QED
        BY <1>2, <2>2, <2>3, <2>4, <2>5 DEF PatchDeployment
<1>3. ASSUME NEW r \in Requests, NEW s \in Servers, ListPods(r, s), Calm PROVE TypeOK'
    <2>1. Current(r, s) /\ pc[r] = "list" /\ UNCHANGED <<cluster, target, alone>>
        BY <1>3 DEF ListPods
    <2>2. CASE NextUpdate(r, s)
        BY <1>t, <1>c, <1>k, <1>3, <2>1, <2>2, HandlerStep
    <2>3. CASE /\ pc' = [pc EXCEPT ![r] = "pods"]
               /\ toPatch' = [toPatch EXCEPT ![r] = ToPatch(s, updates[r][s].setting)]
               /\ UNCHANGED <<updates, waiting, result>>
        <3>1. HandlerType'
            BY <2>1, <2>3 DEF HandlerType, TypeOK, ToPatch
        <3>2. QED
            BY <1>t, <1>c, <1>k, <1>3, <2>1, <3>1
    <2>4. QED
        BY <1>3, <2>2, <2>3 DEF ListPods
<1>4. ASSUME NEW r \in Requests, NEW s \in Servers, NEW p \in Pods, PatchPod(r, s, p), Calm
      PROVE  TypeOK'
    <2>1. /\ Current(r, s) /\ PodDone(r, s, p)
          /\ UNCHANGED <<exists, setting, replicas, phase, target, alone>>
        BY <1>4 DEF PatchPod
    <2>2. updates[r][s].setting \in Settings
        BY <2>1, ChoiceType DEF TypeOK, Current
    <2>3. ClusterType'
        BY <1>4, <2>1, <2>2 DEF PatchPod, ClusterType, TypeOK
    <2>4. QED
        BY <1>t, <1>k, <1>4, <2>1, <2>3, HandlerStep
<1>5. ASSUME Fault PROVE TypeOK'
    <2>0. Disturb
        BY <1>5 DEF Fault
    <2>1. CASE Abandon
        <3>1. UNCHANGED <<cluster, target, alone>> /\ HandlerType'
            BY <2>1 DEF Abandon, HandlerType, TypeOK, handler
        <3>2. QED
            BY <1>t, <1>c, <1>k, <2>0, <3>1
    <2>2. CASE Restart
        <3>0. DOMAIN <<>> = {}
            OBVIOUS
        <3>1. UNCHANGED <<cluster, target, alone>> /\ HandlerType'
            BY <2>2, <3>0 DEF Restart, HandlerType, TypeOK
        <3>2. QED
            BY <1>t, <1>c, <1>k, <2>0, <3>1
    <2>3. ASSUME NEW r \in Requests, NEW s \in Servers, PatchDeploymentFails(r, s) PROVE TypeOK'
        <3>1. /\ Current(r, s) /\ Reply(r, "error")
              /\ UNCHANGED <<exists, phase, podSetting, target, alone>>
              /\ Applied(r, s) \/ UNCHANGED <<setting, replicas>>
            BY <2>3 DEF PatchDeploymentFails
        <3>2. ClusterType'
            BY <3>1, AppliedType DEF ClusterType, TypeOK
        <3>3. QED
            BY <1>t, <1>k, <2>0, <3>1, <3>2, HandlerStep
    <2>4. ASSUME NEW r \in Requests, NEW s \in Servers, PodsFail(r, s) PROVE TypeOK'
        <3>1. /\ Current(r, s) /\ UNCHANGED <<cluster, target, alone>>
              /\ NextUpdate(r, s) \/ \E p \in toPatch[r] : PodDone(r, s, p)
            BY <2>4 DEF PodsFail, cluster
        <3>2. HandlerType'
            BY <3>1, HandlerStep DEF TypeOK
        <3>3. QED
            BY <1>t, <1>c, <1>k, <2>0, <3>1, <3>2
    <2>5. QED
        BY <1>5, <2>1, <2>2, <2>3, <2>4 DEF Fault
<1>6. ASSUME Disturbance PROVE TypeOK'
    <2>0. Disturb
        BY <1>6 DEF Disturbance
    <2>1. ASSUME NEW s \in Servers, DeleteDeployment(s) PROVE TypeOK'
        <3>1. ClusterType' /\ UNCHANGED <<target, waiting, result, handler, alone>>
            BY <2>1 DEF DeleteDeployment, ClusterType, TypeOK
        <3>2. QED
            BY <1>t, <1>h, <1>k, <2>0, <3>1
    <2>2. ASSUME NEW s \in Servers, NEW a \in Choices(s), Decide(s, a) PROVE TypeOK'
        <3>1. /\ UNCHANGED <<cluster, waiting, result, handler, alone>>
              /\ target' = [target EXCEPT ![s] = a]
            BY <2>2 DEF Decide
        <3>2. Rest'
            BY <2>0, <3>1, ActuationAssumption DEF Rest, Disturb, TypeOK
        <3>3. QED
            BY <1>t, <1>c, <1>h, <3>1, <3>2
    <2>3. ASSUME NEW p \in Pods, DeletePod(p) PROVE TypeOK'
        <3>1. ClusterType' /\ UNCHANGED <<target, waiting, result, handler, alone>>
            BY <2>3 DEF DeletePod, ClusterType, TypeOK
        <3>2. QED
            BY <1>t, <1>h, <1>k, <2>0, <3>1
    <2>4. QED
        BY <1>6, <2>1, <2>2, <2>3 DEF Disturbance
<1>7. ASSUME Kubernetes PROVE TypeOK'
    <2>1. PICK p \in Pods : CreatePod(p) \/ RunPod(p) \/ DeletePod(p)
        BY <1>7 DEF Kubernetes, RemovePod
    <2>2. ClusterType' /\ UNCHANGED <<target, waiting, result, handler, alone>>
        BY <2>1 DEF CreatePod, RunPod, DeletePod, ClusterType, TypeOK
    <2>3. QED
        BY <1>t, <1>h, <1>k, <1>7, <2>2 DEF Kubernetes
<1>8. ASSUME UNCHANGED vars PROVE TypeOK'
    BY <1>t, <1>c, <1>h, <1>8 DEF vars, Rest, TypeOK
<1>9. QED
    BY <1>1, <1>2, <1>3, <1>4, <1>5, <1>6, <1>7, <1>8 DEF Next, Actuate

\* Requests, Deployments and pods stay well typed.
THEOREM TypeCorrect == Spec => []TypeOK
<1>1. Init => TypeOK
    <2> SUFFICES ASSUME Init PROVE TypeOK
        OBVIOUS
    <2>1. DOMAIN <<>> = {}
        OBVIOUS
    <2>2. Servers = {} \/ Zero.setting \in Settings
        BY DEF Settings, Choices
    <2>3. setting \in [Servers -> Settings \cup {Unlabelled}]
        BY <2>2 DEF Init
    <2>4. QED
        BY <2>1, <2>3, ActuationAssumption DEF Init, TypeOK
<1>2. QED
    BY <1>1, TypeStep, PTL DEF Spec

-----------------------------------------------------------------------------
(***************************************************************************)
(* No pod gets an allocation of another Deployment.  A request writes the  *)
(* update in work to pods it found to belong to that update's Deployment,  *)
(* and it has pods to write to only if that update has replicas, so that   *)
(* it is one of the optimizer's allocations and not the zero one.          *)
(***************************************************************************)

OwnPods(r) ==
    \A s \in Servers : Current(r, s) =>
        /\ pc[r] \in {"list", "pods"} => updates[r][s].n # 0
        /\ pc[r] = "pods" => toPatch[r] \subseteq PodsOf(s)

Own == OwnAllocation /\ \A r \in Requests : OwnPods(r)

\* A request is at work on one update at a time.
LEMMA OneCurrent ==
    ASSUME NEW r, NEW s \in Servers, NEW t \in Servers, Current(r, s), Current(r, t)
    PROVE  s = t
<1>1. s \in Nat /\ t \in Nat /\ s <= t /\ t <= s
    BY ActuationAssumption DEF Current
<1>2. QED
    BY <1>1

\* After an answer or a finished update a request is at work on no pod.
LEMMA OwnHandler ==
    ASSUME TypeOK, NEW r \in Requests, NEW s \in Servers, Current(r, s),
           \A k \in Requests : OwnPods(k),
           \/ \E answer \in {"ok", "error"} : Reply(r, answer)
           \/ NextUpdate(r, s)
           \/ \E p \in toPatch[r] : PodDone(r, s, p)
    PROVE  \A k \in Requests : OwnPods(k)'
<1>1. ASSUME NEW k \in Requests \ {r} PROVE OwnPods(k)'
    <2>1. pc'[k] = pc[k] /\ updates'[k] = updates[k] /\ toPatch'[k] = toPatch[k]
        BY <1>1 DEF TypeOK, Reply, NextUpdate, PodDone
    <2>2. QED
        BY <2>1, <1>1 DEF OwnPods, Current
<1>2. OwnPods(r)'
    <2>1. CASE pc'[r] \in {"free", "deployment"}
        BY <2>1 DEF OwnPods
    <2>2. CASE pc'[r] \notin {"free", "deployment"}
        <3>1. /\ pc' = pc /\ updates' = updates
              /\ \E p \in toPatch[r] : toPatch' = [toPatch EXCEPT ![r] = @ \ {p}]
            BY <2>2 DEF TypeOK, Reply, NextUpdate, PodDone
        <3>2. toPatch'[r] \subseteq toPatch[r]
            BY <3>1 DEF TypeOK
        <3>3. QED
            BY <3>1, <3>2 DEF OwnPods, Current
    <2>3. QED
        BY <2>1, <2>2
<1>3. QED
    BY <1>1, <1>2

\* The pods keep allocations of their own Deployment.
LEMMA OwnStep == TypeOK /\ Own /\ [Next]_vars => Own'
<1> SUFFICES ASSUME TypeOK, Own, [Next]_vars PROVE Own'
    OBVIOUS
<1>h. \A r \in Requests : OwnPods(r)
    BY DEF Own
<1>a. ASSUME UNCHANGED podSetting PROVE OwnAllocation'
    BY <1>a DEF Own, OwnAllocation, PodsOf
<1>b. ASSUME UNCHANGED handler PROVE \A r \in Requests : OwnPods(r)'
    BY <1>b, <1>h DEF handler, OwnPods, Current, PodsOf
<1>c. ASSUME NEW p \in Pods, DeletePod(p) PROVE Own'
    <2>1. OwnAllocation'
        BY <1>c DEF DeletePod, Own, OwnAllocation, PodsOf, TypeOK
    <2>2. QED
        BY <1>b, <1>c, <2>1 DEF DeletePod, Own
<1>1. ASSUME NEW r \in Requests, Update(r) PROVE Own'
    <2>1. UNCHANGED podSetting
        BY <1>1 DEF Update, cluster
    <2>2. ASSUME NEW k \in Requests PROVE OwnPods(k)'
        <3>1. CASE k = r
            <4>1. pc'[k] = "deployment"
                BY <1>1, <3>1 DEF Update, TypeOK
            <4>2. QED
                BY <4>1 DEF OwnPods
        <3>2. CASE k # r
            <4>1. pc'[k] = pc[k] /\ updates'[k] = updates[k] /\ toPatch'[k] = toPatch[k]
                BY <1>1, <3>2 DEF Update, TypeOK
            <4>2. QED
                BY <4>1, <1>h DEF OwnPods, Current
        <3>3. QED
            BY <3>1, <3>2
    <2>3. QED
        BY <1>a, <2>1, <2>2 DEF Own
<1>2. ASSUME NEW r \in Requests, NEW s \in Servers,
             PatchDeployment(r, s) \/ PatchDeploymentFails(r, s) \/ PodsFail(r, s)
      PROVE  Own'
    <2>1. Current(r, s) /\ UNCHANGED podSetting
        BY <1>2 DEF PatchDeployment, PatchDeploymentFails, PodsFail
    <2>2. CASE \/ Reply(r, "error") \/ NextUpdate(r, s)
               \/ \E p \in toPatch[r] : PodDone(r, s, p)
        BY <2>1, <2>2, <1>a, <1>h, OwnHandler DEF Own
    <2>3. CASE /\ updates[r][s].n # 0 /\ pc' = [pc EXCEPT ![r] = "list"]
               /\ UNCHANGED <<updates, toPatch>>
        <3>1. OwnPods(r)'
            <4>1. \A t \in Servers : Current(r, t) => t = s
                BY <2>1, OneCurrent
            <4>2. QED
                BY <2>3, <4>1 DEF OwnPods, Current, TypeOK
        <3>2. \A k \in Requests \ {r} : OwnPods(k)'
            BY <2>3, <1>h DEF OwnPods, Current, TypeOK
        <3>3. QED
            BY <1>a, <2>1, <3>1, <3>2 DEF Own
    <2>4. QED
        BY <1>2, <2>2, <2>3 DEF PatchDeployment, PatchDeploymentFails, PodsFail
<1>3. ASSUME NEW r \in Requests, NEW s \in Servers, ListPods(r, s) PROVE Own'
    <2>1. Current(r, s) /\ pc[r] = "list" /\ UNCHANGED podSetting
        BY <1>3 DEF ListPods, cluster
    <2>2. CASE NextUpdate(r, s)
        BY <2>1, <2>2, <1>a, <1>h, OwnHandler DEF Own
    <2>3. CASE /\ pc' = [pc EXCEPT ![r] = "pods"]
               /\ toPatch' = [toPatch EXCEPT ![r] = ToPatch(s, updates[r][s].setting)]
               /\ UNCHANGED updates
        <3>1. OwnPods(r)'
            <4>1. \A t \in Servers : Current(r, t) => t = s
                BY <2>1, OneCurrent
            <4>2. toPatch'[r] \subseteq PodsOf(s)
                BY <2>3 DEF TypeOK, ToPatch, PodsOf
            <4>3. updates[r][s].n # 0
                BY <2>1, <1>h DEF OwnPods
            <4>4. QED
                BY <2>3, <4>1, <4>2, <4>3 DEF OwnPods, Current, PodsOf
        <3>2. \A k \in Requests \ {r} : OwnPods(k)'
            BY <2>3, <1>h DEF OwnPods, Current, TypeOK
        <3>3. QED
            BY <1>a, <2>1, <3>1, <3>2 DEF Own
    <2>4. QED
        BY <1>3, <2>2, <2>3 DEF ListPods
<1>4. ASSUME NEW r \in Requests, NEW s \in Servers, NEW p \in Pods, PatchPod(r, s, p) PROVE Own'
    <2>1. pc[r] = "pods" /\ Current(r, s) /\ p \in toPatch[r] /\ PodDone(r, s, p)
        BY <1>4 DEF PatchPod
    <2>2. p \in PodsOf(s) /\ updates[r][s].n # 0
        BY <2>1, <1>h DEF OwnPods
    <2>3. updates[r][s] \in Decisions[s]
        <3>1. updates[r][s] \in Choices(s)
            BY <2>1 DEF TypeOK, Current
        <3>2. Zero.n = 0
            BY DEF Zero
        <3>3. QED
            BY <2>2, <3>1, <3>2 DEF Choices
    <2>4. OwnAllocation'
        <3> SUFFICES ASSUME NEW t \in Servers, NEW q \in PodsOf(t), podSetting'[q] # Unlabelled
                     PROVE  \E a \in Decisions[t] : podSetting'[q] = a.setting
            BY DEF OwnAllocation, PodsOf
        <3>1. CASE podSetting'[q] = podSetting[q]
            BY <3>1 DEF Own, OwnAllocation
        <3>2. CASE podSetting'[q] # podSetting[q]
            <4>1. q = p /\ podSetting'[q] = updates[r][s].setting
                BY <1>4, <3>2 DEF PatchPod, TypeOK, PodsOf
            <4>2. t = s
                BY <2>2, <4>1 DEF PodsOf
            <4>3. QED
                BY <2>3, <4>1, <4>2
        <3>3. QED
            BY <3>1, <3>2
    <2>5. \A k \in Requests : OwnPods(k)'
        BY <2>1, <1>h, OwnHandler
    <2>6. QED
        BY <2>4, <2>5 DEF Own
<1>5. ASSUME Abandon PROVE Own'
    BY <1>5, <1>a, <1>b DEF Abandon, cluster, Own
<1>6. ASSUME Restart PROVE Own'
    <2>1. \A r \in Requests : pc'[r] = "free"
        BY <1>6 DEF Restart
    <2>2. QED
        BY <1>6, <1>a, <2>1 DEF Restart, cluster, Own, OwnPods
<1>7. ASSUME NEW s \in Servers, DeleteDeployment(s) \/ \E a \in Choices(s) : Decide(s, a) PROVE Own'
    BY <1>7, <1>a, <1>b DEF DeleteDeployment, Decide, cluster, Own
<1>8. ASSUME NEW p \in Pods, CreatePod(p) \/ RunPod(p) PROVE Own'
    BY <1>8, <1>a, <1>b DEF CreatePod, RunPod, Own
<1>9. ASSUME UNCHANGED vars PROVE Own'
    BY <1>9, <1>a, <1>b DEF vars, cluster, Own
<1>10. QED
    BY <1>c, <1>1, <1>2, <1>3, <1>4, <1>5, <1>6, <1>7, <1>8, <1>9
       DEF Next, Actuate, Fault, Disturbance, Kubernetes, RemovePod

\* A pod never carries an allocation that was decided for another Deployment.
THEOREM PodsKeepToTheirDeployment == Spec => []OwnAllocation
<1>1. Init => Own
    BY DEF Init, Own, OwnAllocation, OwnPods, PodsOf
<1>2. Own => OwnAllocation
    BY DEF Own
<1>3. QED
    BY <1>1, <1>2, OwnStep, TypeCorrect, PTL DEF Spec

-----------------------------------------------------------------------------
(***************************************************************************)
(* The answer "Done".  While the Controller waits for a request, that      *)
(* request's updates are the optimizer's allocations; if it is alone, each *)
(* Deployment has its allocation or its update is still to be done.        *)
(***************************************************************************)

Begun(r, s) == pc[r] \in {"list", "pods"} /\ Current(r, s)

Doing(r) ==
    /\ pc[r] # "free"
    /\ \A s \in DOMAIN updates[r] : updates[r][s] = target[s]
    /\ alone => /\ \A k \in Requests \ {r} : pc[k] = "free"
                /\ \A s \in exists : \/ Attained(s)
                                     \/ s \in DOMAIN updates[r] /\ ~ Begun(r, s)

Doings == \A r \in Requests : waiting = r => Doing(r)

DoneIsApplied ==
    waiting # NoRequest /\ waiting' = NoRequest /\ result' = "ok" /\ alone =>
        (\A s \in exists : Attained(s))'

\* The end of a request that is not waited for, or of one that answers with an error.
LEMMA DoneReply ==
    ASSUME TypeOK, Doings, NEW r \in Requests, pc[r] # "free", Reply(r, "error"),
           UNCHANGED <<target, alone>>
    PROVE  Doings' /\ DoneIsApplied
<1>1. CASE waiting = r \/ waiting = NoRequest
    <2>1. waiting' = NoRequest /\ (waiting # NoRequest => result' = "error")
        BY <1>1 DEF Reply
    <2>2. QED
        BY <2>1, ActuationAssumption DEF Doings, DoneIsApplied
<1>2. CASE waiting # r /\ waiting # NoRequest
    <2>1. waiting \in Requests /\ Doing(waiting) /\ UNCHANGED waiting /\ ~ alone
        BY <1>2 DEF Reply, Doings, Doing, TypeOK
    <2>2. pc'[waiting] = pc[waiting] /\ updates'[waiting] = updates[waiting]
        BY <1>2, <2>1 DEF Reply, TypeOK
    <2>3. QED
        BY <1>2, <2>1, <2>2 DEF Doings, Doing, DoneIsApplied
<1>3. QED
    BY <1>1, <1>2

\* A finished update leaves its Deployment as decided, and touches no other.
LEMMA DoneNext ==
    ASSUME TypeOK, Doings, NEW r \in Requests, NEW s \in Servers, pc[r] # "free",
           Current(r, s), NextUpdate(r, s), UNCHANGED <<exists, target, alone>>,
           \A t \in Servers \ {s} : Attained(t) => Attained(t)',
           waiting = r /\ alone => s \notin exists \/ Attained(s)'
    PROVE  Doings' /\ DoneIsApplied
<1>1. CASE waiting = NoRequest
    <2>1. waiting' = NoRequest
        BY <1>1, ActuationAssumption DEF NextUpdate, Reply
    <2>2. QED
        BY <1>1, <2>1, ActuationAssumption DEF Doings, DoneIsApplied
<1>2. CASE waiting # r /\ waiting # NoRequest
    <2>1. waiting \in Requests /\ Doing(waiting) /\ UNCHANGED waiting /\ ~ alone
        BY <1>2 DEF NextUpdate, Reply, Doings, Doing, TypeOK
    <2>2. pc'[waiting] = pc[waiting] /\ updates'[waiting] = updates[waiting]
        BY <1>2, <2>1 DEF NextUpdate, Reply, TypeOK
    <2>3. QED
        BY <1>2, <2>1, <2>2 DEF Doings, Doing, DoneIsApplied
<1>3. CASE waiting = r
    <2>1. Doing(r)
        BY <1>3 DEF Doings
    <2>e. exists \subseteq Servers
        BY DEF TypeOK
    <2>2. CASE DOMAIN updates[r] = {s}
        <3>1. waiting' = NoRequest
            BY <1>3, <2>2 DEF NextUpdate, Reply
        <3>2. ASSUME alone, NEW t \in exists PROVE Attained(t)'
            <4>1. t = s \/ Attained(t)
                BY <2>1, <2>2, <3>2 DEF Doing
            <4>2. QED
                BY <1>3, <2>e, <3>2, <4>1
        <3>3. QED
            BY <3>1, <3>2, ActuationAssumption DEF Doings, DoneIsApplied
    <2>3. CASE DOMAIN updates[r] # {s}
        <3> DEFINE rest == [t \in DOMAIN updates[r] \ {s} |-> updates[r][t]]
        <3>1. /\ pc' = [pc EXCEPT ![r] = "deployment"] /\ updates' = [updates EXCEPT ![r] = rest]
              /\ UNCHANGED waiting
            BY <2>3 DEF NextUpdate
        <3>2. pc'[r] = "deployment" /\ updates'[r] = rest
            BY <3>1 DEF TypeOK
        <3>3. /\ DOMAIN rest = DOMAIN updates[r] \ {s}
              /\ \A t \in DOMAIN rest : rest[t] = updates[r][t]
            OBVIOUS
        <3> HIDE DEF rest
        <3>4. \A t \in DOMAIN updates'[r] : updates'[r][t] = target'[t]
            BY <2>1, <3>2, <3>3 DEF Doing
        <3>5. ASSUME alone', NEW k \in Requests \ {r} PROVE pc'[k] = "free"
            BY <2>1, <3>1, <3>5 DEF Doing
        <3>6. ASSUME alone', NEW t \in exists'
              PROVE  Attained(t)' \/ (t \in DOMAIN updates'[r] /\ ~ Begun(r, t)')
            <4>1. alone /\ t \in exists /\ t \in Servers
                BY <2>e, <3>6
            <4>2. ~ Begun(r, t)'
                BY <3>2 DEF Begun
            <4>3. CASE t = s
                BY <1>3, <4>1, <4>3
            <4>4. CASE t # s
                <5>1. Attained(t) \/ t \in DOMAIN updates[r]
                    BY <2>1, <4>1 DEF Doing
                <5>2. QED
                    BY <3>2, <3>3, <4>1, <4>2, <4>4, <5>1
            <4>5. QED
                BY <4>3, <4>4
        <3>7. Doing(r)'
            BY <3>2, <3>4, <3>5, <3>6 DEF Doing
        <3>8. QED
            BY <1>3, <3>1, <3>7, ActuationAssumption DEF Doings, DoneIsApplied
    <2>4. QED
        BY <2>2, <2>3
<1>4. QED
    BY <1>1, <1>2, <1>3

\* A call after which the update goes on: the Deployment in work has been patched.
LEMMA DoneGoesOn ==
    ASSUME TypeOK, Doings, NEW r \in Requests, NEW s \in Servers, pc[r] # "free",
           Current(r, s), UNCHANGED <<updates, waiting, result, exists, target, alone>>,
           \A k \in Requests \ {r} : pc'[k] = pc[k],
           pc'[r] # "free",
           \A t \in Servers \ {s} : Attained(t) => Attained(t)',
           waiting = r /\ alone => s \notin exists \/ Attained(s)'
    PROVE  Doings' /\ DoneIsApplied
<1>0. DoneIsApplied
    BY DEF DoneIsApplied
<1>1. CASE waiting # r /\ waiting \in Requests
    <2>1. Doing(waiting) /\ ~ alone /\ pc'[waiting] = pc[waiting]
        BY <1>1 DEF Doings, Doing
    <2>2. QED
        BY <1>0, <1>1, <2>1 DEF Doings, Doing
<1>2. CASE waiting = r
    <2>1. Doing(r)
        BY <1>2 DEF Doings
    <2>2. ASSUME alone', NEW t \in exists'
          PROVE  Attained(t)' \/ (t \in DOMAIN updates'[r] /\ ~ Begun(r, t)')
        <3>1. alone /\ t \in exists /\ t \in Servers
            BY <2>2 DEF TypeOK
        <3>2. CASE t = s
            BY <1>2, <3>1, <3>2
        <3>3. CASE t # s
            <4>1. ~ Current(r, t)'
                BY <3>1, <3>3, OneCurrent DEF Current
            <4>2. Attained(t) \/ t \in DOMAIN updates[r]
                BY <2>1, <3>1 DEF Doing
            <4>3. QED
                BY <3>1, <3>3, <4>1, <4>2 DEF Begun
        <3>4. QED
            BY <3>2, <3>3
    <2>3. Doing(r)'
        BY <2>1, <2>2 DEF Doing
    <2>4. QED
        BY <1>0, <1>2, <2>3 DEF Doings
<1>3. CASE waiting \notin Requests
    BY <1>0, <1>3 DEF Doings
<1>4. QED
    BY <1>1, <1>2, <1>3

\* Every step keeps the invariant and is as the property demands.
LEMMA DoneStep == TypeOK /\ Doings /\ [Next]_vars => Doings' /\ DoneIsApplied
<1> SUFFICES ASSUME TypeOK, Doings, [Next]_vars PROVE Doings' /\ DoneIsApplied
    OBVIOUS
<1>b. backend' = backend
    BY DEF Next, Calm, Disturb, Fault, Disturbance, Kubernetes, vars
<1>s. ASSUME UNCHANGED <<setting, replicas, target>>, NEW s PROVE Attained(s)' <=> Attained(s)
    BY <1>b, <1>s DEF Attained, LLMD
<1>p. ASSUME NEW r \in Requests, NEW s \in Servers, Current(r, s), Applied(r, s), UNCHANGED target
      PROVE  /\ \A t \in Servers \ {s} : Attained(t) => Attained(t)'
             /\ waiting = r => Attained(s)'
    <2>1. ASSUME NEW t \in Servers \ {s} PROVE Attained(t) => Attained(t)'
        BY <1>b, <1>p, <2>1 DEF Attained, LLMD, Applied, TypeOK
    <2>2. ASSUME waiting = r PROVE Attained(s)'
        <3>1. updates[r][s] = target[s]
            BY <1>p, <2>2 DEF Doings, Doing, Current
        <3>2. replicas'[s] = target'[s].n
            BY <1>p, <3>1 DEF Applied, TypeOK
        <3>3. ~ LLMD => setting'[s] = target'[s].setting
            BY <1>p, <3>1 DEF Applied, TypeOK
        <3>4. QED
            BY <1>b, <3>2, <3>3 DEF Attained, LLMD
    <2>3. QED
        BY <2>1, <2>2
<1>q. ASSUME NEW r \in Requests, NEW s \in Servers, Begun(r, s)
      PROVE  waiting = r /\ alone => s \notin exists \/ Attained(s)
    BY <1>q DEF Doings, Doing
<1>u. ASSUME UNCHANGED <<setting, replicas, target, waiting, handler, alone>>,
             exists' \subseteq exists
      PROVE  Doings' /\ DoneIsApplied
    <2>1. ASSUME NEW r \in Requests, waiting' = r PROVE Doing(r)'
        <3>1. Doing(r)
            BY <1>u, <2>1 DEF Doings
        <3>2. \A s \in exists' : Attained(s)' <=> Attained(s)
            BY <1>u, <1>s
        <3>3. UNCHANGED <<pc, updates, alone, target>>
            BY <1>u DEF handler
        <3>4. \A s : Begun(r, s)' <=> Begun(r, s)
            BY <3>3 DEF Begun, Current
        <3>5. QED
            BY <1>u, <3>1, <3>2, <3>3, <3>4 DEF Doing
    <2>2. QED
        BY <1>u, <2>1 DEF Doings, DoneIsApplied
<1>1. ASSUME NEW r \in Requests, Update(r) PROVE Doings' /\ DoneIsApplied
    <2>1. PICK serverMap \in SUBSET Servers :
              /\ exists \subseteq serverMap
              /\ updates' = [updates EXCEPT ![r] = ComputeUpdates(
                     [s \in {t \in Servers : target[t] # Zero} |-> target[s]], serverMap)]
        BY <1>1 DEF Update
    <2>2. DOMAIN updates'[r] = serverMap /\ \A s \in serverMap : updates'[r][s] = target[s]
        BY <2>1 DEF ComputeUpdates, TypeOK
    <2>3. /\ pc' = [pc EXCEPT ![r] = "deployment"] /\ waiting' = r /\ waiting = NoRequest
          /\ alone' = (\A k \in Requests : pc[k] = "free")
          /\ UNCHANGED <<exists, target>>
        BY <1>1 DEF Update, cluster
    <2>4. pc'[r] = "deployment" /\ \A k \in Requests \ {r} : pc'[k] = pc[k]
        BY <2>3 DEF TypeOK
    <2>5. \A s : ~ Begun(r, s)'
        BY <2>4 DEF Begun
    <2>6. Doing(r)'
        BY <2>1, <2>2, <2>3, <2>4, <2>5 DEF Doing
    <2>7. QED
        BY <2>3, <2>6 DEF Doings, DoneIsApplied
<1>2. ASSUME NEW r \in Requests, NEW s \in Servers, PatchDeployment(r, s)
      PROVE  Doings' /\ DoneIsApplied
    <2>1. pc[r] # "free" /\ Current(r, s) /\ UNCHANGED <<exists, target, alone>>
        BY <1>2 DEF PatchDeployment
    <2>2. CASE s \notin exists /\ NextUpdate(r, s) /\ UNCHANGED <<setting, replicas>>
        BY <2>1, <2>2, <1>s, DoneNext
    <2>3. CASE Reply(r, "error")
        BY <2>1, <2>3, DoneReply
    <2>4. CASE Applied(r, s) /\ NextUpdate(r, s)
        BY <2>1, <2>4, <1>p, DoneNext
    <2>5. CASE /\ Applied(r, s) /\ pc' = [pc EXCEPT ![r] = "list"]
               /\ UNCHANGED <<updates, waiting, result>>
        <3>1. pc'[r] # "free" /\ \A k \in Requests \ {r} : pc'[k] = pc[k]
            BY <2>5 DEF TypeOK
        <3>2. QED
            BY <2>1, <2>5, <3>1, <1>p, DoneGoesOn
    <2>6. QED
        BY <1>2, <2>2, <2>3, <2>4, <2>5 DEF PatchDeployment
<1>3. ASSUME NEW r \in Requests, NEW s \in Servers,
             ListPods(r, s) \/ (\E p \in Pods : PatchPod(r, s, p)) \/ PodsFail(r, s)
      PROVE  Doings' /\ DoneIsApplied
    <2>1. /\ pc[r] # "free" /\ Begun(r, s) /\ Current(r, s)
          /\ UNCHANGED <<exists, setting, replicas, target, alone>>
        BY <1>3 DEF ListPods, PatchPod, PodsFail, cluster, Begun
    <2>2. CASE NextUpdate(r, s)
        BY <2>1, <2>2, <1>s, <1>q, DoneNext
    <2>3. CASE ~ NextUpdate(r, s)
        <3>1. /\ UNCHANGED <<updates, waiting, result>>
              /\ pc' = pc \/ pc' = [pc EXCEPT ![r] = "pods"]
            BY <1>3, <2>3 DEF ListPods, PatchPod, PodsFail, PodDone
        <3>2. pc'[r] # "free" /\ \A k \in Requests \ {r} : pc'[k] = pc[k]
            BY <2>1, <3>1 DEF TypeOK
        <3>3. QED
            BY <2>1, <3>1, <3>2, <1>s, <1>q, DoneGoesOn
    <2>4. QED
        BY <2>2, <2>3
<1>4. ASSUME NEW r \in Requests, NEW s \in Servers, PatchDeploymentFails(r, s)
      PROVE  Doings' /\ DoneIsApplied
    BY <1>4, DoneReply DEF PatchDeploymentFails
<1>5. ASSUME Abandon \/ Restart PROVE Doings' /\ DoneIsApplied
    <2>1. waiting' = NoRequest /\ (waiting # NoRequest => result' = "error")
        BY <1>5 DEF Abandon, Restart
    <2>2. QED
        BY <2>1, ActuationAssumption DEF Doings, DoneIsApplied
<1>6. ASSUME NEW s \in Servers, DeleteDeployment(s) PROVE Doings' /\ DoneIsApplied
    BY <1>6, <1>u DEF DeleteDeployment
<1>7. ASSUME NEW s \in Servers, NEW a \in Choices(s), Decide(s, a) PROVE Doings' /\ DoneIsApplied
    BY <1>7, ActuationAssumption DEF Decide, Doings, DoneIsApplied
<1>8. ASSUME NEW p \in Pods, CreatePod(p) \/ RunPod(p) \/ DeletePod(p)
      PROVE  Doings' /\ DoneIsApplied
    BY <1>8, <1>u DEF CreatePod, RunPod, DeletePod
<1>9. ASSUME UNCHANGED vars PROVE Doings' /\ DoneIsApplied
    BY <1>9, <1>u DEF vars, cluster
<1>10. QED
    BY <1>1, <1>2, <1>3, <1>4, <1>5, <1>6, <1>7, <1>8, <1>9
       DEF Next, Actuate, Fault, Disturbance, Kubernetes, RemovePod

\* When the Actuator answers "Done" to a request that was alone, every Deployment that still
\* exists has the allocation of the cycle.
THEOREM DoneIsDone == Spec => DoneMeansApplied
<1>1. Init => Doings
    BY ActuationAssumption DEF Init, Doings
<1>2. TypeOK /\ Doings /\ [Next]_vars => [DoneIsApplied]_vars
    BY DoneStep
<1>3. (DoneMeansApplied <=> [][DoneIsApplied]_vars)
    BY DEF DoneMeansApplied, DoneIsApplied
<1>4. QED
    BY <1>1, <1>2, <1>3, DoneStep, TypeCorrect, PTL DEF Spec
=============================================================================
