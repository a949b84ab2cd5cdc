------------------------------ MODULE Pairing ------------------------------
(***************************************************************************)
(* The pairing reconciler of the Actuator (pkg/actuator/pairing.go,        *)
(* pairing_kube.go) against the Kubernetes API server it reads and         *)
(* patches.  Every managed Deployment that opted in names a vLLM           *)
(* Deployment; the reconciler mirrors the replica count of the first onto  *)
(* the second and gives each Ready managed pod a Ready vLLM pod by writing *)
(* the same fresh UUID into the pair-id label of both.                     *)
(*                                                                         *)
(* Each API call is a step of its own, so the cluster may change between   *)
(* any two of them; any call may fail, with or without having taken        *)
(* effect, and the Actuator may restart at any point of a tick.            *)
(***************************************************************************)
EXTENDS PairingLogic

CONSTANTS Managed,      \* the managed Deployments
          VLLM,         \* the vLLM Deployments
          NoTarget,     \* no Deployment
          Target,       \* the vLLM Deployment each managed one names, NoTarget when the
                        \* evaluator or vllm-deployment label is not there
          Pods,         \* pod names, as numbers in lexical order; a name is used once
          Owner,        \* the Deployment a pod belongs to
          MaxReplicas,  \* bound on spec.replicas
          MaxChurn      \* bound on disturbances: faults, restarts, pod failures, edits

Deployments == Managed \cup VLLM

ASSUME PairingAssumption ==
    /\ Pods \subseteq Nat /\ IsFiniteSet(Pods)
    /\ Managed \cap VLLM = {}
    /\ NoTarget \notin Deployments
    /\ Target \in [Managed -> VLLM \cup {NoTarget}]
    /\ Owner \in [Pods -> Deployments]
    /\ MaxReplicas \in Nat /\ MaxChurn \in Nat

VARIABLES
    \* the cluster
    replicas,   \* spec.replicas of each Deployment
    phase,      \* phase of each pod: not created, not Ready, Ready, deleted
    label,      \* the pair-id label of each pod
    \* the reconciler's goroutine
    pc,         \* the API call it makes next
    listed,     \* Deployments of this tick's listing not reached yet, with their replicas
    cur,        \* the Deployment reconcileOne works on
    want,       \* its replicas as listed
    mPods,      \* snapshot of its Ready pods
    prunes,     \* plan.Prunes not applied yet
    binds,      \* plan.Bindings not applied yet
    uuid,       \* the UUID of the binding being applied
    \* history
    touched,    \* pods changed by others, or by a failed call, since reconcileOne listed
                \* the managed pods
    churn       \* disturbances so far

cluster == <<replicas, phase, label>>
plan    == <<mPods, prunes, binds, uuid>>
local   == <<pc, listed, cur, want, plan>>
vars    == <<cluster, local, touched, churn>>

Alive(p) == phase[p] \in {"notReady", "ready"}
PodsOf(d) == {p \in Pods : Owner[p] = d}
ReadyPods(d) == {p \in PodsOf(d) : phase[p] = "ready"}
LiveCount(d) == Cardinality({p \in PodsOf(d) : Alive(p)})

\* listOwnedReadyPods: what one listing of a Deployment's pods returns
ListOwnedReadyPods(d) == [p \in ReadyPods(d) |-> [ready |-> TRUE, id |-> label[p]]]

\* Mutant: only ids of pods that are Ready count as used.
UsedIdsOfReady == ({label[p] : p \in {q \in Pods : phase[q] = "ready"}} \cup {uuid}) \ {NoId}

\* ids some label carries or the binding in progress is about to write
UsedIds == ({label[p] : p \in Pods} \cup {uuid}) \ {NoId}

TypeOK ==
    /\ replicas \in [Deployments -> 0..MaxReplicas]
    /\ phase \in [Pods -> {"new", "notReady", "ready", "gone"}]
    /\ label \in [Pods -> Ids \cup {NoId}]
    /\ pc \in {"idle", "next", "get", "scale", "listM", "listV", "prune", "bindM", "bindV"}
    /\ \E S \in SUBSET Managed : listed \in [S -> 0..MaxReplicas]
    /\ cur \in Managed \cup {NoTarget}
    /\ want \in 0..MaxReplicas
    /\ \E S \in SUBSET Pods : mPods \in [S -> PodSnapshot]
    /\ prunes \subseteq Pods
    /\ binds \subseteq [pos : Nat, m : Pods, v : Pods]
    /\ uuid \in Ids \cup {NoId}
    /\ touched \subseteq Pods
    /\ churn \in 0..MaxChurn

Init ==
    /\ replicas \in [Deployments -> 0..MaxReplicas]
    /\ phase = [p \in Pods |-> "new"]
    /\ label = [p \in Pods |-> NoId]
    /\ pc = "idle" /\ listed = <<>> /\ cur = NoTarget /\ want = 0
    /\ mPods = <<>> /\ prunes = {} /\ binds = {} /\ uuid = NoId
    /\ touched = {} /\ churn = 0

DropPlan == mPods' = <<>> /\ prunes' = {} /\ binds' = {} /\ uuid' = NoId

Disturb == churn < MaxChurn /\ churn' = churn + 1
Calm    == UNCHANGED churn

-----------------------------------------------------------------------------
(***************************************************************************)
(* The reconciler.  reconcileAll lists the managed Deployments and runs    *)
(* reconcileOne on each of them, in one goroutine.                         *)
(***************************************************************************)

\* reconcileOne returns: the next Deployment of the listing, or the next tick
Return ==
    /\ pc' = IF DOMAIN listed = {} THEN "idle" ELSE "next"
    /\ cur' = NoTarget /\ want' = 0
    /\ DropPlan
    /\ UNCHANGED listed

\* the patches left to apply: all prunes, then the bindings
Continue(ps, bs) ==
    IF ps = {} /\ bs = {} THEN Return
    ELSE /\ pc' = IF ps # {} THEN "prune" ELSE "bindM"
         /\ prunes' = ps /\ binds' = bs /\ uuid' = NoId /\ mPods' = <<>>
         /\ UNCHANGED <<listed, cur, want>>

ReconcileAll ==
    /\ pc = "idle"
    /\ pc' = "next"
    /\ listed' = [d \in Managed |-> replicas[d]]
    /\ touched' = {}
    /\ UNCHANGED <<cluster, cur, want, plan>>

\* the evaluator and vllm-deployment labels decide whether to act at all
ReconcileOne(d) ==
    /\ pc = "next" /\ d \in DOMAIN listed
    /\ listed' = [e \in DOMAIN listed \ {d} |-> listed[e]]
    /\ IF Target[d] = NoTarget
       THEN /\ pc' = IF DOMAIN listed = {d} THEN "idle" ELSE "next"
            /\ UNCHANGED <<cur, want>>
       ELSE pc' = "get" /\ cur' = d /\ want' = listed[d]
    /\ UNCHANGED <<cluster, plan, touched>>

\* Mutant: the vLLM Deployment is only ever scaled up.
GetVLLMUpOnly ==
    /\ pc = "get"
    /\ pc' = IF replicas[Target[cur]] < want THEN "scale" ELSE "listM"
    /\ UNCHANGED <<cluster, listed, cur, want, plan, touched>>

GetVLLM ==
    /\ pc = "get"
    /\ pc' = IF replicas[Target[cur]] # want THEN "scale" ELSE "listM"
    /\ UNCHANGED <<cluster, listed, cur, want, plan, touched>>

\* Mutant: one replica too many.
SetDeploymentReplicasSpare ==
    /\ pc = "scale"
    /\ replicas' = [replicas EXCEPT ![Target[cur]] = want + 1]
    /\ Return
    /\ UNCHANGED <<phase, label, touched>>

SetDeploymentReplicas ==
    /\ pc = "scale"
    /\ replicas' = [replicas EXCEPT ![Target[cur]] = want]
    /\ Return
    /\ UNCHANGED <<phase, label, touched>>

ListManaged ==
    /\ pc = "listM"
    /\ pc' = "listV"
    /\ mPods' = ListOwnedReadyPods(cur)
    /\ touched' = {}
    /\ UNCHANGED <<cluster, listed, cur, want, prunes, binds, uuid>>

\* lists the vLLM pods and computes the plan from the two listings
ListVLLM ==
    /\ pc = "listV"
    /\ LET vPods == ListOwnedReadyPods(Target[cur])
       IN Continue(Prunes(mPods, vPods), Bindings(mPods, vPods))
    /\ UNCHANGED <<cluster, touched>>

\* removePodLabel: clears whatever id the pod carries by now; a deleted pod
\* answers 404, which is logged and skipped
RemovePodLabel(p) ==
    /\ pc = "prune" /\ p \in prunes
    /\ label' = [label EXCEPT ![p] = NoId]
    /\ Continue(prunes \ {p}, binds)
    /\ UNCHANGED <<replicas, phase, touched>>

IsNextBinding(b) == b \in binds /\ \A c \in binds : b.pos <= c.pos

\* Mutant: a pod that already carries an id keeps it.
BindManagedReusing(b) ==
    /\ pc = "bindM" /\ IsNextBinding(b) /\ Alive(b.m)
    /\ \E id \in Ids : id \notin UsedIds
    /\ uuid' = IF label[b.m] # NoId THEN label[b.m] ELSE CHOOSE id \in Ids : id \notin UsedIds
    /\ label' = [label EXCEPT ![b.m] = uuid']
    /\ pc' = "bindV"
    /\ UNCHANGED <<replicas, phase, touched, listed, cur, want, mPods, prunes, binds>>

\* setPodLabel on the managed pod, with a UUID no label carries; on an error
\* the loop continues with the next binding
BindManaged(b) ==
    /\ pc = "bindM" /\ IsNextBinding(b)
    /\ IF Alive(b.m)
       THEN /\ \E id \in Ids : id \notin UsedIds
            /\ uuid' = CHOOSE id \in Ids : id \notin UsedIds
            /\ label' = [label EXCEPT ![b.m] = uuid']
            /\ pc' = "bindV"
            /\ UNCHANGED <<listed, cur, want, mPods, prunes, binds>>
       ELSE /\ Continue({}, binds \ {b})
            /\ UNCHANGED label
    /\ UNCHANGED <<replicas, phase, touched>>

\* setPodLabel on the vLLM pod; a deleted pod leaves the managed pod half-bound
BindVLLM(b) ==
    /\ pc = "bindV" /\ IsNextBinding(b)
    /\ label' = IF Alive(b.v) THEN [label EXCEPT ![b.v] = uuid] ELSE label
    /\ Continue({}, binds \ {b})
    /\ UNCHANGED <<replicas, phase, touched>>

Reconcile ==
    /\ \/ ReconcileAll \/ GetVLLM \/ SetDeploymentReplicas \/ ListManaged \/ ListVLLM
       \/ \E d \in Managed : ReconcileOne(d)
       \/ \E p \in Pods : RemovePodLabel(p)
       \/ \E b \in binds : BindManaged(b) \/ BindVLLM(b)
    /\ Calm

-----------------------------------------------------------------------------
(***************************************************************************)
(* Failing calls.  A patch whose answer is an error may or may not have    *)
(* been applied.  The listing of the Deployments failing is no step: the   *)
(* tick ends where it began.                                               *)
(***************************************************************************)

\* GET of the vLLM Deployment or a listing of pods fails: the Deployment is
\* skipped this tick
ReadFails ==
    /\ pc \in {"get", "listM", "listV"}
    /\ Return
    /\ touched' = Pods
    /\ UNCHANGED cluster

ScaleFails ==
    /\ pc = "scale"
    /\ replicas' \in {replicas, [replicas EXCEPT ![Target[cur]] = want]}
    /\ Return
    /\ UNCHANGED <<phase, label, touched>>

PruneFails(p) ==
    /\ pc = "prune" /\ p \in prunes
    /\ label' \in {label, [label EXCEPT ![p] = NoId]}
    /\ touched' = touched \cup {p}
    /\ Continue(prunes \ {p}, binds)
    /\ UNCHANGED <<replicas, phase>>

\* an unanswered patch of the managed pod: the vLLM pod is not tried
BindManagedFails(b) ==
    /\ pc = "bindM" /\ IsNextBinding(b) /\ Alive(b.m)
    /\ \/ UNCHANGED label
       \/ \E id \in Ids \ UsedIds : label' = [label EXCEPT ![b.m] = id]
    /\ touched' = touched \cup {b.m}
    /\ Continue({}, binds \ {b})
    /\ UNCHANGED <<replicas, phase>>

BindVLLMFails(b) ==
    /\ pc = "bindV" /\ IsNextBinding(b) /\ Alive(b.v)
    /\ label' \in {label, [label EXCEPT ![b.v] = uuid]}
    /\ touched' = touched \cup {b.v}
    /\ Continue({}, binds \ {b})
    /\ UNCHANGED <<replicas, phase>>

\* the Actuator is killed; a new one starts with an empty tick
Restart ==
    /\ pc # "idle"
    /\ pc' = "idle" /\ listed' = <<>> /\ cur' = NoTarget /\ want' = 0
    /\ DropPlan
    /\ touched' = Pods
    /\ UNCHANGED cluster

Fault ==
    /\ \/ ReadFails \/ ScaleFails \/ Restart
       \/ \E p \in Pods : PruneFails(p)
       \/ \E b \in binds : BindManagedFails(b) \/ BindVLLMFails(b)
    /\ Disturb

-----------------------------------------------------------------------------
(***************************************************************************)
(* The cluster: the ReplicaSet controllers and the kubelets, the           *)
(* optimizer's decisions (the Actuator's /update handler scales the        *)
(* managed Deployments) and operators' edits.                              *)
(***************************************************************************)

\* between the listing of the managed pods and the last patch of a pass
InPass == pc \in {"listV", "prune", "bindM", "bindV"}

Touch(p) == touched' = IF InPass THEN touched \cup {p} ELSE touched

CreatePod(p) ==
    /\ phase[p] = "new" /\ LiveCount(Owner[p]) < replicas[Owner[p]]
    /\ phase' = [phase EXCEPT ![p] = "notReady"]
    /\ UNCHANGED <<replicas, label, local, touched>>

BecomeReady(p) ==
    /\ phase[p] = "notReady"
    /\ phase' = [phase EXCEPT ![p] = "ready"]
    /\ Touch(p)
    /\ UNCHANGED <<replicas, label, local>>

DeletePod(p) ==
    /\ Alive(p)
    /\ phase' = [phase EXCEPT ![p] = "gone"]
    /\ label' = [label EXCEPT ![p] = NoId]
    /\ Touch(p)
    /\ UNCHANGED <<replicas, local>>

ScaleDown(p) == LiveCount(Owner[p]) > replicas[Owner[p]] /\ DeletePod(p)

\* a failing readiness probe: the pod keeps its labels
LoseReady(p) ==
    /\ phase[p] = "ready"
    /\ phase' = [phase EXCEPT ![p] = "notReady"]
    /\ Touch(p)
    /\ UNCHANGED <<replicas, label, local>>

\* an operator removes the pair-id label
StripLabel(p) ==
    /\ label[p] # NoId
    /\ label' = [label EXCEPT ![p] = NoId]
    /\ Touch(p)
    /\ UNCHANGED <<replicas, phase, local>>

\* the Actuator scales a managed Deployment, an operator a vLLM Deployment
Rescale(d, n) ==
    /\ replicas[d] # n
    /\ replicas' = [replicas EXCEPT ![d] = n]
    /\ UNCHANGED <<phase, label, local, touched>>

Kubernetes ==
    /\ \E p \in Pods : CreatePod(p) \/ BecomeReady(p) \/ ScaleDown(p)
    /\ Calm

Disturbance ==
    /\ \/ \E p \in Pods : LoseReady(p) \/ DeletePod(p) \/ StripLabel(p)
       \/ \E d \in Deployments, n \in 0..MaxReplicas : Rescale(d, n)
    /\ Disturb

Next == Reconcile \/ Fault \/ Kubernetes \/ Disturbance

\* The ticker fires again and again and every API call returns; the cluster's
\* controllers keep working.  Nothing is assumed of faults and disturbances.
Fairness ==
    /\ WF_vars(Reconcile)
    /\ \A p \in Pods : WF_vars(CreatePod(p) /\ Calm) /\ WF_vars(BecomeReady(p) /\ Calm)
                       /\ WF_vars(ScaleDown(p) /\ Calm)

Spec == Init /\ [][Next]_vars
FairSpec == Spec /\ Fairness

-----------------------------------------------------------------------------
(***************************************************************************)
(* Properties                                                              *)
(***************************************************************************)

HealthyPair(m, v) ==
    /\ Owner[m] \in Managed /\ Owner[v] = Target[Owner[m]]
    /\ phase[m] = "ready" /\ phase[v] = "ready"
    /\ label[m] # NoId /\ label[m] = label[v]

\* A pair-id joins at most one managed pod to at most one vLLM pod, and only
\* across a managed Deployment and the vLLM Deployment it names: whatever was
\* half-bound, left on a pod that is not Ready, or left by a killed Actuator.
\* The evaluator of a managed pod finds its engine by this id alone.
OneToOne ==
    \A p, q \in Pods :
        p # q /\ label[p] # NoId /\ label[p] = label[q] =>
            \/ Owner[p] \in Managed /\ Owner[q] = Target[Owner[p]]
            \/ Owner[q] \in Managed /\ Owner[p] = Target[Owner[q]]

\* The reconciler ends a healthy pair only when one of its pods was changed by
\* somebody else, or by a patch whose outcome is unknown, after the managed pods
\* were listed: although the two listings and the patches are separate calls, the
\* plan never breaks a pair that was healthy throughout.
HealthyPairsKept ==
    [][local' # local =>
           \A m, v \in Pods :
               HealthyPair(m, v) /\ ~ HealthyPair(m, v)' => touched' \cap {m, v} # {}]_vars

Paired(d) == {m \in ReadyPods(d) : \E v \in ReadyPods(Target[d]) : HealthyPair(m, v)}

\* every Ready pod is in a healthy pair or has no id, and as many as can be are paired
Repaired(d) ==
    /\ \A p \in ReadyPods(d) \cup ReadyPods(Target[d]) :
           label[p] # NoId => \E q \in Pods : HealthyPair(p, q) \/ HealthyPair(q, p)
    /\ \/ Paired(d) = ReadyPods(d)
       \/ Cardinality(Paired(d)) = Cardinality(ReadyPods(Target[d]))

\* One undisturbed pass repairs everything: when reconcileOne comes to the end of
\* its plan and nothing was touched since it listed the managed pods, no orphaned
\* id is left on a Ready pod and no two Ready pods that could be paired are idle.
OnePassRepairs ==
    [][\A d \in Managed :
           /\ d = cur /\ InPass
           /\ pc' \in {"idle", "next"} /\ touched' = {}
           => Repaired(d)']_vars

\* Once disturbances stop, the replica counts agree for good and every Ready pod
\* that can be paired is paired for good, whatever state the faults left behind.
Converges ==
    <>[](\A d \in Managed :
            Target[d] # NoTarget => replicas[d] = replicas[Target[d]] /\ Repaired(d))

(***************************************************************************)
(* The abstract specification: whatever fails, the labels are a matching.  *)
(***************************************************************************)
ManagedPods == {p \in Pods : Owner[p] \in Managed}
EnginePods == Pods \ ManagedPods
MayMate(m, v) == Owner[v] = Target[Owner[m]]

\* the pairs of pods that carry the same id, Ready or not
matching == {b \in ManagedPods \X EnginePods :
                label[b[1]] # NoId /\ label[b[1]] = label[b[2]]}

Matching == INSTANCE PodMatching
                WITH Left <- ManagedPods, Right <- EnginePods, Mates <- MayMate

\* The two label patches of a binding, the prunes, the faults and the pods' comings
\* and goings appear to the evaluators as the single steps of a matching.
RefinesMatching == Matching!Spec
=============================================================================
