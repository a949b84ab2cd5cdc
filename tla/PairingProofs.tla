--------------------------- MODULE PairingProofs ---------------------------
(***************************************************************************)
(* Machine-checked properties of the pairing reconciler, for every number  *)
(* of Deployments and pods and every bound on faults and disturbances.     *)
(***************************************************************************)
EXTENDS Pairing, FiniteSetTheorems, TLAPS

-----------------------------------------------------------------------------
(***************************************************************************)
(* The planner                                                             *)
(***************************************************************************)

\* Positions in the sorted list of unpaired pods are distinct.
LEMMA RankInjective ==
    ASSUME NEW view, IsFiniteSet(DOMAIN view), DOMAIN view \subseteq Nat, NEW pruned,
           NEW p \in EffectivelyUnpaired(view, pruned),
           NEW q \in EffectivelyUnpaired(view, pruned),
           Rank(view, pruned, p) = Rank(view, pruned, q)
    PROVE  p = q
<1> DEFINE U == EffectivelyUnpaired(view, pruned)
           Below(r) == {s \in U : SortsBefore(view, s, r)}
<1>1. U \subseteq DOMAIN view
  BY DEF EffectivelyUnpaired
<1>2. ASSUME NEW a \in U, NEW b \in U, SortsBefore(view, a, b)
      PROVE  Cardinality(Below(a)) < Cardinality(Below(b))
  <2>1. Below(a) \subseteq Below(b) /\ a \in Below(b) /\ a \notin Below(a)
    BY <1>1, <1>2 DEF SortsBefore
  <2>2. IsFiniteSet(Below(b)) /\ IsFiniteSet(Below(a))
    BY <1>1, FS_Subset
  <2>3. Below(b) # Below(a)
    BY <2>1
  <2>4. Cardinality(Below(a)) \in Nat /\ Cardinality(Below(b)) \in Nat
    BY <2>2, FS_CardinalityType
  <2>5. Cardinality(Below(a)) <= Cardinality(Below(b))
    BY <2>1, <2>2, FS_Subset
  <2>6. Cardinality(Below(a)) # Cardinality(Below(b))
    BY <2>1, <2>2, <2>3, FS_Subset
  <2>. QED BY <2>4, <2>5, <2>6
<1>3. \A r \in U : Cardinality(Below(r)) \in Nat
  BY <1>1, FS_Subset, FS_CardinalityType
<1>4. p \in U /\ q \in U /\ Cardinality(Below(p)) = Cardinality(Below(q))
  BY DEF Rank
<1> HIDE DEF U, Below
<1>5. ~ SortsBefore(view, p, q) /\ ~ SortsBefore(view, q, p)
  BY <1>2, <1>3, <1>4
<1>. QED BY <1>1, <1>4, <1>5 DEF SortsBefore

\* The planner binds unpaired Ready pods only, each of them once and at a position
\* of its own.
LEMMA BindingsAreAMatching ==
    ASSUME NEW mView, NEW vView,
           IsFiniteSet(DOMAIN mView), DOMAIN mView \subseteq Nat,
           IsFiniteSet(DOMAIN vView), DOMAIN vView \subseteq Nat
    PROVE  LET pruned == Prunes(mView, vView)
           IN  /\ Bindings(mView, vView) \subseteq
                      [pos : Nat, m : EffectivelyUnpaired(mView, pruned),
                                  v : EffectivelyUnpaired(vView, pruned)]
               /\ \A b, c \in Bindings(mView, vView) :
                      b # c => b.m # c.m /\ b.v # c.v /\ b.pos # c.pos
<1> DEFINE pruned == Prunes(mView, vView)
           mU == EffectivelyUnpaired(mView, pruned)
           vU == EffectivelyUnpaired(vView, pruned)
<1>1. mU \subseteq DOMAIN mView /\ vU \subseteq DOMAIN vView
  BY DEF EffectivelyUnpaired
<1>2. ASSUME NEW m \in mU PROVE Rank(mView, pruned, m) \in Nat
  BY <1>1, FS_Subset, FS_CardinalityType DEF Rank
<1>3. ASSUME NEW b \in Bindings(mView, vView)
      PROVE  \E m \in mU, v \in vU :
                /\ b = [pos |-> Rank(mView, pruned, m), m |-> m, v |-> v]
                /\ Rank(mView, pruned, m) = Rank(vView, pruned, v)
  BY DEF Bindings
<1>4. Bindings(mView, vView) \subseteq [pos : Nat, m : mU, v : vU]
  BY <1>2, <1>3
<1>5. ASSUME NEW b \in Bindings(mView, vView), NEW c \in Bindings(mView, vView),
             b.m = c.m \/ b.v = c.v \/ b.pos = c.pos
      PROVE  b = c
  <2>1. PICK m \in mU, v \in vU : /\ b = [pos |-> Rank(mView, pruned, m), m |-> m, v |-> v]
                                  /\ Rank(mView, pruned, m) = Rank(vView, pruned, v)
    BY <1>3
  <2>2. PICK n \in mU, w \in vU : /\ c = [pos |-> Rank(mView, pruned, n), m |-> n, v |-> w]
                                  /\ Rank(mView, pruned, n) = Rank(vView, pruned, w)
    BY <1>3
  <2>3. m = n \/ v = w \/ Rank(mView, pruned, m) = Rank(mView, pruned, n)
    BY <1>5, <2>1, <2>2
  <2>4. m = n /\ v = w
    BY <2>1, <2>2, <2>3, RankInjective
  <2>. QED BY <2>1, <2>2, <2>4
<1>. QED BY <1>4, <1>5

-----------------------------------------------------------------------------
(***************************************************************************)
(* Type correctness                                                        *)
(***************************************************************************)

\* the part of TypeOK about the reconciler's local state
LocalOK ==
    /\ pc \in {"idle", "next", "get", "scale", "listM", "listV", "prune", "bindM", "bindV"}
    /\ \E S \in SUBSET Managed : listed \in [S -> 0..MaxReplicas]
    /\ cur \in Managed \cup {NoTarget}
    /\ want \in 0..MaxReplicas
    /\ \E S \in SUBSET Pods : mPods \in [S -> PodSnapshot]
    /\ prunes \subseteq Pods
    /\ binds \subseteq [pos : Nat, m : Pods, v : Pods]
    /\ uuid \in Ids \cup {NoId}

LEMMA DropPlanType ==
    ASSUME DropPlan
    PROVE  /\ \E S \in SUBSET Pods : mPods' \in [S -> PodSnapshot]
           /\ prunes' \subseteq Pods
           /\ binds' \subseteq [pos : Nat, m : Pods, v : Pods]
           /\ uuid' \in Ids \cup {NoId}
<1>1. mPods' \in [{} -> PodSnapshot]
  BY DEF DropPlan
<1>. QED BY <1>1 DEF DropPlan

LEMMA ReturnType ==
    ASSUME TypeOK, Return PROVE LocalOK'
BY DropPlanType, PairingAssumption DEF TypeOK, Return, LocalOK

LEMMA ContinueType ==
    ASSUME TypeOK, NEW ps \in SUBSET Pods, NEW bs \in SUBSET [pos : Nat, m : Pods, v : Pods],
           Continue(ps, bs)
    PROVE  LocalOK'
<1>1. CASE ps = {} /\ bs = {}
  BY <1>1, ReturnType DEF Continue
<1>2. CASE ~ (ps = {} /\ bs = {})
  <2>1. mPods' = <<>>
    BY <1>2 DEF Continue
  <2>2. mPods' \in [{} -> PodSnapshot]
    BY <2>1
  <2>. QED BY <1>2, <2>2 DEF TypeOK, Continue, LocalOK
<1>. QED BY <1>1, <1>2

\* what the two listings of a pass yield
LEMMA ListingType ==
    ASSUME TypeOK, NEW d
    PROVE  /\ ReadyPods(d) \subseteq PodsOf(d) /\ PodsOf(d) \subseteq Pods
           /\ DOMAIN ListOwnedReadyPods(d) = ReadyPods(d)
           /\ ListOwnedReadyPods(d) \in [ReadyPods(d) -> PodSnapshot]
           /\ IsFiniteSet(ReadyPods(d)) /\ ReadyPods(d) \subseteq Nat
<1>1. ReadyPods(d) \subseteq PodsOf(d) /\ PodsOf(d) \subseteq Pods
  BY DEF ReadyPods, PodsOf
<1>2. ListOwnedReadyPods(d) \in [ReadyPods(d) -> PodSnapshot]
  BY <1>1 DEF ListOwnedReadyPods, PodSnapshot, TypeOK
<1>3. IsFiniteSet(ReadyPods(d)) /\ ReadyPods(d) \subseteq Nat
  BY <1>1, PairingAssumption, FS_Subset
<1>. QED BY <1>1, <1>2, <1>3 DEF ListOwnedReadyPods

LEMMA PlanType ==
    ASSUME TypeOK, NEW d
    PROVE  LET vPods == ListOwnedReadyPods(d)
               pruned == Prunes(mPods, vPods)
           IN  /\ pruned \subseteq DOMAIN mPods \cup ReadyPods(d)
               /\ pruned \subseteq Pods
               /\ Bindings(mPods, vPods) \subseteq
                      [pos : Nat, m : EffectivelyUnpaired(mPods, pruned),
                                  v : EffectivelyUnpaired(vPods, pruned)]
               /\ Bindings(mPods, vPods) \subseteq [pos : Nat, m : DOMAIN mPods, v : ReadyPods(d)]
               /\ Bindings(mPods, vPods) \subseteq [pos : Nat, m : Pods, v : Pods]
               /\ \A b, c \in Bindings(mPods, vPods) :
                      b # c => b.m # c.m /\ b.v # c.v /\ b.pos # c.pos
<1> DEFINE vPods == ListOwnedReadyPods(d)
           pruned == Prunes(mPods, vPods)
           mU == EffectivelyUnpaired(mPods, pruned)
           vU == EffectivelyUnpaired(vPods, pruned)
<1>1. DOMAIN mPods \subseteq Pods
  BY DEF TypeOK
<1>2. IsFiniteSet(DOMAIN mPods) /\ DOMAIN mPods \subseteq Nat
  BY <1>1, PairingAssumption, FS_Subset
<1>3. DOMAIN vPods = ReadyPods(d) /\ ReadyPods(d) \subseteq Pods
      /\ IsFiniteSet(DOMAIN vPods) /\ DOMAIN vPods \subseteq Nat
  BY ListingType
<1>4. pruned \subseteq DOMAIN mPods \cup DOMAIN vPods
  BY DEF Prunes, Indexed, Labelled
<1>5. mU \subseteq DOMAIN mPods /\ vU \subseteq DOMAIN vPods
  BY DEF EffectivelyUnpaired
<1> HIDE DEF vPods
<1>6. /\ Bindings(mPods, vPods) \subseteq [pos : Nat, m : mU, v : vU]
      /\ \A b, c \in Bindings(mPods, vPods) :
             b # c => b.m # c.m /\ b.v # c.v /\ b.pos # c.pos
  BY <1>2, <1>3, BindingsAreAMatching
<1> HIDE DEF mU, vU
<1>7. /\ [pos : Nat, m : mU, v : vU] \subseteq [pos : Nat, m : DOMAIN mPods, v : DOMAIN vPods]
      /\ [pos : Nat, m : DOMAIN mPods, v : DOMAIN vPods] \subseteq [pos : Nat, m : Pods, v : Pods]
  BY <1>1, <1>3, <1>5
<1>. QED BY <1>1, <1>3, <1>4, <1>6, <1>7 DEF vPods, mU, vU

LEMMA TypeReconcile == TypeOK /\ Reconcile => TypeOK'
<1> SUFFICES ASSUME TypeOK, Reconcile PROVE TypeOK'
  OBVIOUS
<1> USE DEF TypeOK, LocalOK, cluster, local, plan
<1>0. churn' \in 0..MaxChurn
  BY DEF Reconcile, Calm
<1>1. CASE ReconcileAll
  <2>1. [d \in Managed |-> replicas[d]] \in [Managed -> 0..MaxReplicas]
    BY DEF Deployments
  <2>. QED BY <1>0, <1>1, <2>1 DEF ReconcileAll
<1>2. CASE GetVLLM
  BY <1>0, <1>2 DEF GetVLLM
<1>3. CASE SetDeploymentReplicas
  <2>1. LocalOK'
    BY <1>3, ReturnType DEF SetDeploymentReplicas
  <2>. QED BY <1>0, <1>3, <2>1 DEF SetDeploymentReplicas
<1>4. CASE ListManaged
  <2>1. mPods' \in [ReadyPods(cur) -> PodSnapshot] /\ ReadyPods(cur) \in SUBSET Pods
    BY <1>4, ListingType DEF ListManaged
  <2>. QED BY <1>0, <1>4, <2>1 DEF ListManaged
<1>5. CASE ListVLLM
  <2>1. LocalOK'
    BY <1>5, PlanType, ContinueType DEF ListVLLM
  <2>. QED BY <1>0, <1>5, <2>1 DEF ListVLLM
<1>6. ASSUME NEW d \in Managed, ReconcileOne(d) PROVE TypeOK'
  <2>1. DOMAIN listed \subseteq Managed /\ listed \in [DOMAIN listed -> 0..MaxReplicas]
    OBVIOUS
  <2>2. listed' \in [DOMAIN listed \ {d} -> 0..MaxReplicas]
    BY <1>6, <2>1 DEF ReconcileOne
  <2>3. (DOMAIN listed \ {d}) \in SUBSET Managed
    BY <2>1
  <2>4. cur' \in Managed \cup {NoTarget} /\ want' \in 0..MaxReplicas
    BY <1>6, <2>1 DEF ReconcileOne
  <2>. QED BY <1>0, <1>6, <2>2, <2>3, <2>4 DEF ReconcileOne
<1>7. ASSUME NEW p \in Pods, RemovePodLabel(p) PROVE TypeOK'
  <2>1. LocalOK'
    BY <1>7, ContinueType DEF RemovePodLabel
  <2>. QED BY <1>0, <1>7, <2>1 DEF RemovePodLabel
<1>8. ASSUME NEW b \in binds, BindManaged(b) PROVE TypeOK'
  <2>1. CASE Alive(b.m)
    <3>1. uuid' \in Ids /\ label' \in [Pods -> Ids \cup {NoId}]
      BY <1>8, <2>1 DEF BindManaged
    <3>. QED BY <1>0, <1>8, <2>1, <3>1 DEF BindManaged
  <2>2. CASE ~ Alive(b.m)
    <3>1. LocalOK'
      BY <1>8, <2>2, ContinueType DEF BindManaged
    <3>. QED BY <1>0, <1>8, <2>2, <3>1 DEF BindManaged
  <2>. QED BY <2>1, <2>2
<1>9. ASSUME NEW b \in binds, BindVLLM(b) PROVE TypeOK'
  <2>1. LocalOK'
    BY <1>9, ContinueType DEF BindVLLM
  <2>. QED BY <1>0, <1>9, <2>1 DEF BindVLLM
<1>. QED BY <1>1, <1>2, <1>3, <1>4, <1>5, <1>6, <1>7, <1>8, <1>9 DEF Reconcile

LEMMA TypeFault == TypeOK /\ Fault => TypeOK'
<1> SUFFICES ASSUME TypeOK, Fault PROVE TypeOK'
  OBVIOUS
<1> USE DEF TypeOK, LocalOK, cluster
<1>0. churn' \in 0..MaxChurn
  BY PairingAssumption DEF Fault, Disturb
<1>1. CASE ReadFails
  BY <1>0, <1>1, ReturnType DEF ReadFails
<1>2. CASE ScaleFails
  BY <1>0, <1>2, ReturnType DEF ScaleFails
<1>3. CASE Restart
  <2>1. listed' \in [{} -> 0..MaxReplicas] /\ want' \in 0..MaxReplicas
    BY <1>3, PairingAssumption DEF Restart
  <2>. QED BY <1>0, <1>3, <2>1, DropPlanType DEF Restart
<1>4. ASSUME NEW p \in Pods, PruneFails(p) PROVE TypeOK'
  <2>1. LocalOK'
    BY <1>4, ContinueType DEF PruneFails
  <2>. QED BY <1>0, <1>4, <2>1 DEF PruneFails
<1>5. ASSUME NEW b \in binds, BindManagedFails(b) PROVE TypeOK'
  <2>1. LocalOK'
    BY <1>5, ContinueType DEF BindManagedFails
  <2>. QED BY <1>0, <1>5, <2>1 DEF BindManagedFails
<1>6. ASSUME NEW b \in binds, BindVLLMFails(b) PROVE TypeOK'
  <2>1. LocalOK'
    BY <1>6, ContinueType DEF BindVLLMFails
  <2>. QED BY <1>0, <1>6, <2>1 DEF BindVLLMFails
<1>. QED BY <1>1, <1>2, <1>3, <1>4, <1>5, <1>6 DEF Fault

LEMMA TypeEnvironment == TypeOK /\ (Kubernetes \/ Disturbance) => TypeOK'
<1> SUFFICES ASSUME TypeOK, Kubernetes \/ Disturbance PROVE TypeOK'
  OBVIOUS
<1> USE DEF TypeOK, local, plan
<1>0. churn' \in 0..MaxChurn
  BY PairingAssumption DEF Kubernetes, Disturbance, Calm, Disturb
<1>1. ASSUME NEW p \in Pods, CreatePod(p) PROVE TypeOK'
  BY <1>0, <1>1 DEF CreatePod
<1>2. ASSUME NEW p \in Pods, BecomeReady(p) \/ LoseReady(p) PROVE TypeOK'
  BY <1>0, <1>2 DEF BecomeReady, LoseReady, Touch
<1>3. ASSUME NEW p \in Pods, DeletePod(p) PROVE TypeOK'
  BY <1>0, <1>3 DEF DeletePod, Touch
<1>4. ASSUME NEW p \in Pods, StripLabel(p) PROVE TypeOK'
  BY <1>0, <1>4 DEF StripLabel, Touch
<1>5. ASSUME NEW d \in Deployments, NEW n \in 0..MaxReplicas, Rescale(d, n) PROVE TypeOK'
  BY <1>0, <1>5 DEF Rescale
<1>. QED BY <1>1, <1>2, <1>3, <1>4, <1>5 DEF Kubernetes, Disturbance, ScaleDown

\* Every variable keeps its type in every reachable state: the reconciler never
\* plans for, patches or scales anything but what it listed.
THEOREM TypeCorrect == Spec => []TypeOK
<1>1. Init => TypeOK
  <2> SUFFICES ASSUME Init PROVE TypeOK
    OBVIOUS
  <2>1. listed \in [{} -> 0..MaxReplicas] /\ mPods \in [{} -> PodSnapshot]
    BY DEF Init
  <2>2. /\ \E S \in SUBSET Managed : listed \in [S -> 0..MaxReplicas]
        /\ \E S \in SUBSET Pods : mPods \in [S -> PodSnapshot]
    BY <2>1
  <2>3. 0 \in 0..MaxReplicas /\ 0 \in 0..MaxChurn
    BY PairingAssumption
  <2>. QED BY <2>2, <2>3 DEF Init, TypeOK
<1>2. TypeOK /\ [Next]_vars => TypeOK'
  <2>1. TypeOK /\ UNCHANGED vars => TypeOK'
    BY DEF TypeOK, vars, cluster, local, plan
  <2>. QED BY <2>1, TypeReconcile, TypeFault, TypeEnvironment DEF Next
<1>. QED BY <1>1, <1>2, PTL DEF Spec

-----------------------------------------------------------------------------
(***************************************************************************)
(* One pair-id, one pair                                                   *)
(***************************************************************************)

\* Every binding still to be applied joins a pod of the Deployment at hand to a
\* pod of its vLLM Deployment, and so does the snapshot the plan is made from.
PlanAligned ==
    /\ cur # NoTarget => Target[cur] \in VLLM
    /\ IF pc \in {"idle", "next"} THEN DOMAIN mPods = {} /\ binds = {} ELSE cur # NoTarget
    /\ DOMAIN mPods \subseteq PodsOf(cur)
    /\ \A b \in binds : cur # NoTarget /\ Owner[b.m] = cur /\ Owner[b.v] = Target[cur]

\* Between its two patches, the new UUID is on one managed pod at most, and that
\* pod belongs to the Deployment at hand.
UuidHalfBound ==
    pc = "bindV" =>
        /\ uuid # NoId /\ cur # NoTarget
        /\ \A p \in Pods : label[p] = uuid => Owner[p] = cur
        /\ \A p, q \in Pods : label[p] = uuid /\ label[q] = uuid => p = q

OneToOneInv == TypeOK /\ OneToOne /\ PlanAligned /\ UuidHalfBound

LEMMA LabelsRemoved ==
    ASSUME OneToOne, \A p \in Pods : label'[p] \in {label[p], NoId}
    PROVE  OneToOne'
BY DEF OneToOne

\* x is given an id which no pod carries that x may not be paired with
Relabelled(x, id) ==
    /\ x \in Pods /\ id \in Ids
    /\ label' = [label EXCEPT ![x] = id]
    /\ \A p \in Pods : p # x /\ label[p] = id =>
           \/ Owner[p] \in Managed /\ Owner[x] = Target[Owner[p]]
           \/ Owner[x] \in Managed /\ Owner[p] = Target[Owner[x]]

LEMMA LabelAdded ==
    ASSUME TypeOK, OneToOne, \E x, id : Relabelled(x, id)
    PROVE  OneToOne'
<1>1. PICK x, id : Relabelled(x, id)
  OBVIOUS
<1>2. \A p \in Pods : label'[p] = IF p = x THEN id ELSE label[p]
  BY <1>1 DEF TypeOK, Relabelled
<1>. QED BY <1>1, <1>2 DEF OneToOne, Relabelled

LEMMA ReturnAligned == Return => PlanAligned' /\ UuidHalfBound'
<1> SUFFICES ASSUME Return PROVE PlanAligned' /\ UuidHalfBound'
  OBVIOUS
<1>1. pc' \in {"idle", "next"} /\ cur' = NoTarget /\ binds' = {} /\ mPods' = <<>>
  BY DEF Return, DropPlan
<1>2. DOMAIN mPods' = {}
  BY <1>1
<1>. QED BY <1>1, <1>2 DEF PlanAligned, UuidHalfBound

LEMMA ContinueAligned ==
    ASSUME TypeOK, PlanAligned, cur # NoTarget, NEW ps, NEW bs, Continue(ps, bs),
           \A b \in bs : Owner[b.m] = cur /\ Owner[b.v] = Target[cur]
    PROVE  PlanAligned' /\ UuidHalfBound'
<1>1. CASE ps = {} /\ bs = {}
  BY <1>1, ReturnAligned DEF Continue
<1>2. CASE ~ (ps = {} /\ bs = {})
  <2>1. pc' \in {"prune", "bindM"} /\ cur' = cur /\ binds' = bs /\ mPods' = <<>>
    BY <1>2 DEF Continue
  <2>2. DOMAIN mPods' = {}
    BY <2>1
  <2>. QED BY <2>1, <2>2 DEF PlanAligned, UuidHalfBound
<1>. QED BY <1>1, <1>2

\* a step that leaves the reconciler alone and at most removes labels
LEMMA OthersOneToOne ==
    ASSUME OneToOneInv, UNCHANGED local, \A p \in Pods : label'[p] \in {label[p], NoId}
    PROVE  OneToOne' /\ PlanAligned' /\ UuidHalfBound'
<1>1. PlanAligned'
  BY DEF OneToOneInv, PlanAligned, local, plan, PodsOf
<1>2. UuidHalfBound'
  BY DEF OneToOneInv, UuidHalfBound, local, plan
<1>. QED BY <1>1, <1>2, LabelsRemoved DEF OneToOneInv

LEMMA OneToOneEnvironment ==
    OneToOneInv /\ (Kubernetes \/ Disturbance) => OneToOne' /\ PlanAligned' /\ UuidHalfBound'
<1> SUFFICES ASSUME OneToOneInv, Kubernetes \/ Disturbance
             PROVE  UNCHANGED local /\ \A p \in Pods : label'[p] \in {label[p], NoId}
  BY OthersOneToOne
<1> USE DEF OneToOneInv, TypeOK
<1>1. ASSUME NEW p \in Pods, CreatePod(p) \/ BecomeReady(p) \/ LoseReady(p)
      PROVE  UNCHANGED <<local, label>>
  BY <1>1 DEF CreatePod, BecomeReady, LoseReady
<1>2. ASSUME NEW p \in Pods, DeletePod(p) \/ StripLabel(p)
      PROVE  UNCHANGED local /\ label' = [label EXCEPT ![p] = NoId]
  BY <1>2 DEF DeletePod, StripLabel
<1>3. ASSUME NEW d \in Deployments, NEW n \in 0..MaxReplicas, Rescale(d, n)
      PROVE  UNCHANGED <<local, label>>
  BY <1>3 DEF Rescale
<1>. QED BY <1>1, <1>2, <1>3 DEF Kubernetes, Disturbance, ScaleDown

LEMMA OneToOneReconcile ==
    OneToOneInv /\ Reconcile => OneToOne' /\ PlanAligned' /\ UuidHalfBound'
<1> SUFFICES ASSUME OneToOneInv, Reconcile PROVE OneToOne' /\ PlanAligned' /\ UuidHalfBound'
  OBVIOUS
<1>0. TypeOK /\ OneToOne /\ PlanAligned /\ UuidHalfBound
  BY DEF OneToOneInv
<1>1. CASE ReconcileAll
  BY <1>0, <1>1, LabelsRemoved
     DEF ReconcileAll, PlanAligned, UuidHalfBound, cluster, plan, PodsOf
<1>2. CASE GetVLLM
  BY <1>0, <1>2, LabelsRemoved DEF GetVLLM, PlanAligned, UuidHalfBound, cluster, plan, PodsOf
<1>3. CASE SetDeploymentReplicas
  BY <1>0, <1>3, LabelsRemoved, ReturnAligned DEF SetDeploymentReplicas
<1>4. CASE ListManaged
  <2>1. DOMAIN mPods' \subseteq PodsOf(cur)
    BY <1>0, <1>4, ListingType DEF ListManaged
  <2>. QED BY <1>0, <1>4, <2>1, LabelsRemoved
           DEF ListManaged, PlanAligned, UuidHalfBound, cluster, PodsOf
<1>5. CASE ListVLLM
  <2> DEFINE vPods == ListOwnedReadyPods(Target[cur])
  <2>1. cur # NoTarget /\ DOMAIN mPods \subseteq PodsOf(cur)
    BY <1>0, <1>5 DEF ListVLLM, PlanAligned
  <2>2. Bindings(mPods, vPods) \subseteq [pos : Nat, m : DOMAIN mPods, v : ReadyPods(Target[cur])]
    BY <1>0, PlanType
  <2>3. \A b \in Bindings(mPods, vPods) : Owner[b.m] = cur /\ Owner[b.v] = Target[cur]
    BY <2>1, <2>2 DEF PodsOf, ReadyPods
  <2>4. Continue(Prunes(mPods, vPods), Bindings(mPods, vPods)) /\ UNCHANGED label
    BY <1>5 DEF ListVLLM, cluster
  <2> HIDE DEF vPods
  <2>. QED BY <1>0, <2>1, <2>3, <2>4, ContinueAligned, LabelsRemoved
<1>6. ASSUME NEW d \in Managed, ReconcileOne(d)
      PROVE  OneToOne' /\ PlanAligned' /\ UuidHalfBound'
  <2>1. mPods' = mPods /\ DOMAIN mPods = {} /\ binds' = {} /\ UNCHANGED label
    BY <1>0, <1>6 DEF ReconcileOne, plan, cluster, PlanAligned
  <2>2. cur' # NoTarget => Target[cur'] \in VLLM
    BY <1>0, <1>6, PairingAssumption DEF ReconcileOne, PlanAligned
  <2>3. pc' # "bindV" /\ (pc' \notin {"idle", "next"} => cur' # NoTarget)
    BY <1>6, PairingAssumption DEF ReconcileOne, Deployments
  <2>. QED BY <1>0, <2>1, <2>2, <2>3, LabelsRemoved DEF PlanAligned, UuidHalfBound
<1>7. ASSUME NEW p \in Pods, RemovePodLabel(p)
      PROVE  OneToOne' /\ PlanAligned' /\ UuidHalfBound'
  <2>1. cur # NoTarget /\ \A b \in binds : Owner[b.m] = cur /\ Owner[b.v] = Target[cur]
    BY <1>0, <1>7 DEF RemovePodLabel, PlanAligned
  <2>2. \A q \in Pods : label'[q] \in {label[q], NoId}
    BY <1>0, <1>7 DEF RemovePodLabel, TypeOK
  <2>. QED BY <1>0, <1>7, <2>1, <2>2, ContinueAligned, LabelsRemoved DEF RemovePodLabel
<1>8. ASSUME NEW b \in binds, BindManaged(b)
      PROVE  OneToOne' /\ PlanAligned' /\ UuidHalfBound'
  <2>1. /\ cur # NoTarget /\ b.m \in Pods /\ Owner[b.m] = cur
        /\ \A c \in binds : Owner[c.m] = cur /\ Owner[c.v] = Target[cur]
    BY <1>0, <1>8 DEF BindManaged, PlanAligned, TypeOK
  <2>2. CASE Alive(b.m)
    <3>1. /\ uuid' \in Ids /\ uuid' \notin UsedIds
          /\ label' = [label EXCEPT ![b.m] = uuid']
          /\ pc' = "bindV" /\ UNCHANGED <<cur, mPods, binds>>
      BY <1>8, <2>2 DEF BindManaged
    <3>2. uuid' # NoId /\ \A p \in Pods : label[p] # uuid'
      BY <3>1, NoIdAssumption DEF UsedIds
    <3>3. OneToOne'
      <4>1. Relabelled(b.m, uuid')
        BY <2>1, <3>1, <3>2 DEF Relabelled
      <4>. QED BY <1>0, <4>1, LabelAdded
    <3>4. PlanAligned'
      BY <1>0, <2>1, <3>1 DEF PlanAligned, PodsOf
    <3>5. \A p \in Pods : label'[p] = uuid' => p = b.m
      BY <1>0, <3>1, <3>2 DEF TypeOK
    <3>. QED BY <2>1, <3>1, <3>2, <3>3, <3>4, <3>5 DEF UuidHalfBound
  <2>3. CASE ~ Alive(b.m)
    BY <1>0, <1>8, <2>1, <2>3, ContinueAligned, LabelsRemoved DEF BindManaged
  <2>. QED BY <2>2, <2>3
<1>9. ASSUME NEW b \in binds, BindVLLM(b)
      PROVE  OneToOne' /\ PlanAligned' /\ UuidHalfBound'
  <2>1. /\ cur \in Managed /\ b.v \in Pods /\ Owner[b.v] = Target[cur]
        /\ cur # NoTarget
        /\ \A c \in binds : Owner[c.m] = cur /\ Owner[c.v] = Target[cur]
    BY <1>0, <1>9 DEF BindVLLM, PlanAligned, TypeOK
  <2>2. PlanAligned' /\ UuidHalfBound'
    BY <1>0, <1>9, <2>1, ContinueAligned DEF BindVLLM
  <2>3. uuid \in Ids /\ \A p \in Pods : label[p] = uuid => Owner[p] = cur
    BY <1>0, <1>9 DEF BindVLLM, UuidHalfBound, TypeOK
  <2>4. CASE Alive(b.v)
    <3>1. Relabelled(b.v, uuid)
      BY <1>9, <2>1, <2>3, <2>4 DEF Relabelled, BindVLLM
    <3>. QED BY <1>0, <2>2, <3>1, LabelAdded
  <2>5. CASE ~ Alive(b.v)
    BY <1>0, <1>9, <2>2, <2>5, LabelsRemoved DEF BindVLLM
  <2>. QED BY <2>4, <2>5
<1>. QED BY <1>1, <1>2, <1>3, <1>4, <1>5, <1>6, <1>7, <1>8, <1>9 DEF Reconcile

LEMMA OneToOneFault ==
    OneToOneInv /\ Fault => OneToOne' /\ PlanAligned' /\ UuidHalfBound'
<1> SUFFICES ASSUME OneToOneInv, Fault PROVE OneToOne' /\ PlanAligned' /\ UuidHalfBound'
  OBVIOUS
<1>0. TypeOK /\ OneToOne /\ PlanAligned /\ UuidHalfBound
  BY DEF OneToOneInv
<1>1. CASE ReadFails
  BY <1>0, <1>1, LabelsRemoved, ReturnAligned DEF ReadFails, cluster
<1>2. CASE ScaleFails
  BY <1>0, <1>2, LabelsRemoved, ReturnAligned DEF ScaleFails
<1>3. CASE Restart
  <2>1. mPods' = <<>> /\ binds' = {} /\ cur' = NoTarget /\ pc' = "idle" /\ UNCHANGED label
    BY <1>3 DEF Restart, DropPlan, cluster
  <2>2. DOMAIN mPods' = {}
    BY <2>1
  <2>. QED BY <1>0, <2>1, <2>2, LabelsRemoved DEF PlanAligned, UuidHalfBound
<1>4. ASSUME NEW p \in Pods, PruneFails(p)
      PROVE  OneToOne' /\ PlanAligned' /\ UuidHalfBound'
  <2>1. cur # NoTarget /\ \A b \in binds : Owner[b.m] = cur /\ Owner[b.v] = Target[cur]
    BY <1>0, <1>4 DEF PruneFails, PlanAligned
  <2>2. \A q \in Pods : label'[q] \in {label[q], NoId}
    BY <1>0, <1>4 DEF PruneFails, TypeOK
  <2>. QED BY <1>0, <1>4, <2>1, <2>2, ContinueAligned, LabelsRemoved DEF PruneFails
<1>5. ASSUME NEW b \in binds, BindManagedFails(b)
      PROVE  OneToOne' /\ PlanAligned' /\ UuidHalfBound'
  <2>1. /\ cur # NoTarget /\ b.m \in Pods
        /\ \A c \in binds : Owner[c.m] = cur /\ Owner[c.v] = Target[cur]
    BY <1>0, <1>5 DEF BindManagedFails, PlanAligned, TypeOK
  <2>2. PlanAligned' /\ UuidHalfBound'
    BY <1>0, <1>5, <2>1, ContinueAligned DEF BindManagedFails
  <2>3. CASE UNCHANGED label
    BY <1>0, <2>2, <2>3, LabelsRemoved
  <2>4. ASSUME NEW id \in Ids \ UsedIds, label' = [label EXCEPT ![b.m] = id]
        PROVE  OneToOne'
    <3>1. \A p \in Pods : label[p] # id
      BY NoIdAssumption DEF UsedIds
    <3>2. Relabelled(b.m, id)
      BY <2>1, <2>4, <3>1 DEF Relabelled
    <3>. QED BY <1>0, <3>2, LabelAdded
  <2>. QED BY <1>5, <2>2, <2>3, <2>4 DEF BindManagedFails
<1>6. ASSUME NEW b \in binds, BindVLLMFails(b)
      PROVE  OneToOne' /\ PlanAligned' /\ UuidHalfBound'
  <2>1. /\ cur \in Managed /\ b.v \in Pods /\ Owner[b.v] = Target[cur]
        /\ cur # NoTarget
        /\ \A c \in binds : Owner[c.m] = cur /\ Owner[c.v] = Target[cur]
    BY <1>0, <1>6 DEF BindVLLMFails, PlanAligned, TypeOK
  <2>2. PlanAligned' /\ UuidHalfBound'
    BY <1>0, <1>6, <2>1, ContinueAligned DEF BindVLLMFails
  <2>3. uuid \in Ids /\ \A p \in Pods : label[p] = uuid => Owner[p] = cur
    BY <1>0, <1>6 DEF BindVLLMFails, UuidHalfBound, TypeOK
  <2>4. CASE label' = [label EXCEPT ![b.v] = uuid]
    <3>1. Relabelled(b.v, uuid)
      BY <2>1, <2>3, <2>4 DEF Relabelled
    <3>. QED BY <1>0, <2>2, <3>1, LabelAdded
  <2>5. CASE UNCHANGED label
    BY <1>0, <2>2, <2>5, LabelsRemoved
  <2>. QED BY <1>6, <2>4, <2>5 DEF BindVLLMFails
<1>. QED BY <1>1, <1>2, <1>3, <1>4, <1>5, <1>6 DEF Fault

LEMMA OneToOneInvariant == Spec => []OneToOneInv
<1>1. Init => OneToOne /\ PlanAligned /\ UuidHalfBound
  <2> SUFFICES ASSUME Init PROVE OneToOne /\ PlanAligned /\ UuidHalfBound
    OBVIOUS
  <2>1. DOMAIN mPods = {}
    BY DEF Init
  <2>. QED BY <2>1 DEF Init, OneToOne, PlanAligned, UuidHalfBound
<1>2. OneToOneInv /\ [Next]_vars => OneToOne' /\ PlanAligned' /\ UuidHalfBound'
  <2>1. OneToOneInv /\ UNCHANGED vars => OneToOne' /\ PlanAligned' /\ UuidHalfBound'
    BY LabelsRemoved
       DEF OneToOneInv, PlanAligned, UuidHalfBound, vars, cluster, local, plan, PodsOf
  <2>. QED BY <2>1, OneToOneReconcile, OneToOneFault, OneToOneEnvironment DEF Next
<1>. QED BY <1>1, <1>2, TypeCorrect, PTL DEF Spec, OneToOneInv

\* However patches fail and pods come and go, a pair-id never joins more than one
\* managed pod to one vLLM pod, nor pods of Deployments that do not belong together.
THEOREM PairIdsOneToOne == Spec => []OneToOne
BY OneToOneInvariant, PTL DEF OneToOneInv

-----------------------------------------------------------------------------
(***************************************************************************)
(* Healthy pairs.  The reconciler does not break them, provided that no    *)
(* two managed Deployments name the same vLLM Deployment.                  *)
(***************************************************************************)

TargetsDistinct ==
    \A d, e \in Managed : Target[d] # NoTarget /\ Target[d] = Target[e] => d = e

Untouched(m, v) == m \notin touched /\ v \notin touched

\* no step left in the plan concerns m or v
Spared(m, v, ps, bs) ==
    m \notin ps /\ v \notin ps /\ \A b \in bs : b.m # m /\ b.v # v

BindsDistinct == \A b, c \in binds : b # c => b.m # c.m /\ b.v # c.v /\ b.pos # c.pos

\* The first listing still tells the truth about the pods nobody touched.
SnapshotSound ==
    /\ \A p, q \in DOMAIN mPods : mPods[p].id # NoId /\ mPods[p].id = mPods[q].id => p = q
    /\ pc = "listV" =>
          \A p \in PodsOf(cur) :
              p \notin touched /\ phase[p] = "ready" =>
                  p \in DOMAIN mPods /\ mPods[p].ready /\ mPods[p].id = label[p]

\* The plan spares every pair that is healthy and untouched.
PlanSpares ==
    pc \in {"prune", "bindM", "bindV"} =>
        \A m, v \in Pods :
            HealthyPair(m, v) /\ Untouched(m, v) => Spared(m, v, prunes, binds)

\* The new UUID is on no pod but the one the next vLLM patch completes.
HalfBoundIsNext ==
    pc = "bindV" =>
        \A p \in Pods, b \in binds : label[p] = uuid /\ IsNextBinding(b) => p = b.m

KeepInv == OneToOneInv /\ BindsDistinct /\ SnapshotSound /\ PlanSpares /\ HalfBoundIsNext
KeepNew == BindsDistinct /\ SnapshotSound /\ PlanSpares /\ HalfBoundIsNext

\* the action of HealthyPairsKept
Kept == \A m, v \in Pods :
            HealthyPair(m, v) /\ ~ HealthyPair(m, v)' => touched' \cap {m, v} # {}

LEMMA HealthyPairType ==
    ASSUME TypeOK, NEW m \in Pods, NEW v \in Pods, HealthyPair(m, v)
    PROVE  /\ Owner[m] \in Managed /\ Owner[v] \in VLLM /\ Owner[v] = Target[Owner[m]]
           /\ Owner[v] \notin Managed /\ Owner[m] \notin VLLM
<1>1. Owner[v] \in Deployments /\ Target[Owner[m]] \in VLLM \cup {NoTarget}
  BY PairingAssumption DEF HealthyPair
<1>. QED BY <1>1, PairingAssumption DEF HealthyPair, Deployments

\* a step that gives no label and makes no pod Ready breaks nothing but what it touches
LEMMA NoNewPair ==
    ASSUME UNCHANGED phase, \A p \in Pods : label'[p] \in {label[p], NoId},
           NEW m \in Pods, NEW v \in Pods, HealthyPair(m, v)'
    PROVE  HealthyPair(m, v)
BY DEF HealthyPair

LEMMA ReturnKeeps ==
    ASSUME Return PROVE KeepNew'
<1>1. pc' \in {"idle", "next"} /\ mPods' = <<>> /\ binds' = {}
  BY DEF Return, DropPlan
<1>2. DOMAIN mPods' = {}
  BY <1>1
<1>. QED BY <1>1, <1>2 DEF KeepNew, BindsDistinct, SnapshotSound, PlanSpares, HalfBoundIsNext

LEMMA ContinueKeeps ==
    ASSUME NEW ps, NEW bs, Continue(ps, bs),
           \A b, c \in bs : b # c => b.m # c.m /\ b.v # c.v /\ b.pos # c.pos,
           \A m, v \in Pods : HealthyPair(m, v)' /\ Untouched(m, v)' => Spared(m, v, ps, bs)
    PROVE  KeepNew'
<1>1. CASE ps = {} /\ bs = {}
  BY <1>1, ReturnKeeps DEF Continue
<1>2. CASE ~ (ps = {} /\ bs = {})
  <2>1. pc' \in {"prune", "bindM"} /\ prunes' = ps /\ binds' = bs /\ mPods' = <<>>
    BY <1>2 DEF Continue
  <2>2. DOMAIN mPods' = {}
    BY <2>1
  <2>3. BindsDistinct' /\ SnapshotSound' /\ HalfBoundIsNext'
    BY <2>1, <2>2 DEF BindsDistinct, SnapshotSound, HalfBoundIsNext
  <2>4. PlanSpares'
    BY <2>1 DEF PlanSpares, Spared
  <2>. QED BY <2>3, <2>4 DEF KeepNew
<1>. QED BY <1>1, <1>2

\* The heart of the matter: the plan made of the two listings spares every pair that
\* was healthy and untouched when the second listing was made.
LEMMA PlanSparesHealthy ==
    ASSUME TargetsDistinct, KeepInv, pc = "listV",
           NEW m \in Pods, NEW v \in Pods, HealthyPair(m, v), Untouched(m, v)
    PROVE  LET vPods == ListOwnedReadyPods(Target[cur])
           IN  Spared(m, v, Prunes(mPods, vPods), Bindings(mPods, vPods))
<1> DEFINE vPods == ListOwnedReadyPods(Target[cur])
           pruned == Prunes(mPods, vPods)
<1>0. TypeOK /\ OneToOne /\ PlanAligned /\ SnapshotSound
  BY DEF KeepInv, OneToOneInv
<1>1. /\ cur \in Managed /\ Target[cur] \in VLLM /\ Target[cur] # NoTarget
      /\ DOMAIN mPods \subseteq PodsOf(cur)
  BY <1>0, PairingAssumption DEF PlanAligned, TypeOK, Deployments
<1>2. /\ Owner[m] \in Managed /\ Owner[v] \in VLLM /\ Owner[v] = Target[Owner[m]]
      /\ Owner[v] \notin Managed /\ Owner[m] \notin VLLM
  BY <1>0, HealthyPairType
<1>3. /\ pruned \subseteq DOMAIN mPods \cup ReadyPods(Target[cur])
      /\ \A b \in Bindings(mPods, vPods) :
             /\ b.m \in EffectivelyUnpaired(mPods, pruned)
             /\ b.v \in EffectivelyUnpaired(vPods, pruned)
  BY <1>0, PlanType
<1>4. DOMAIN vPods = ReadyPods(Target[cur]) /\ ReadyPods(Target[cur]) \subseteq PodsOf(Target[cur])
  BY <1>0, ListingType
<1>5. EffectivelyUnpaired(mPods, pruned) \subseteq DOMAIN mPods
      /\ EffectivelyUnpaired(vPods, pruned) \subseteq DOMAIN vPods
  BY DEF EffectivelyUnpaired
<1>6. m \notin DOMAIN vPods /\ v \notin DOMAIN mPods
  BY <1>1, <1>2, <1>4 DEF PodsOf
<1>7. CASE Owner[m] # cur
  <2>1. Owner[v] # Target[cur]
    BY <1>1, <1>2, <1>7 DEF TargetsDistinct
  <2>2. m \notin DOMAIN mPods /\ v \notin DOMAIN vPods
    BY <1>1, <1>4, <1>7, <2>1 DEF PodsOf
  <2>. QED BY <1>3, <1>4, <1>5, <1>6, <2>2 DEF Spared
<1>8. CASE Owner[m] = cur
  <2>1. m \in DOMAIN mPods /\ mPods[m].ready /\ mPods[m].id = label[m] /\ label[m] # NoId
    BY <1>0, <1>8 DEF SnapshotSound, PodsOf, Untouched, HealthyPair
  <2>2. v \in DOMAIN vPods /\ vPods[v].ready /\ vPods[v].id = label[m]
    BY <1>2, <1>8 DEF ListOwnedReadyPods, ReadyPods, PodsOf, HealthyPair
  <2>3. \A q \in DOMAIN mPods : mPods[q].id = label[m] => q = m
    BY <1>0, <2>1 DEF SnapshotSound
  <2>4. \A q \in DOMAIN vPods : vPods[q].id = label[m] => q = v
    <3>1. ASSUME NEW q \in DOMAIN vPods, vPods[q].id = label[m], q # v PROVE FALSE
      <4>1. q \in Pods /\ Owner[q] = Target[cur] /\ label[q] = label[v]
        BY <1>4, <3>1 DEF ListOwnedReadyPods, PodsOf, HealthyPair
      <4>2. Owner[q] \notin Managed
        BY <1>1, <4>1, PairingAssumption
      <4>. QED BY <1>0, <1>2, <2>1, <3>1, <4>1, <4>2 DEF OneToOne, HealthyPair
    <3>. QED BY <3>1
  <2>5. m \in Nat /\ v \in Nat
    BY PairingAssumption
  <2>6. m \in Indexed(mPods) /\ v \in Indexed(vPods)
    BY <2>1, <2>2, <2>3, <2>4, <2>5 DEF Indexed, Labelled
  <2>7. Healthy(label[m], mPods, vPods)
    BY <2>1, <2>2, <2>6 DEF Healthy
  <2>8. m \notin pruned /\ v \notin pruned
    <3>1. m \notin Indexed(vPods) /\ v \notin Indexed(mPods)
      BY <1>6 DEF Indexed, Labelled
    <3>. QED BY <2>1, <2>2, <2>7, <3>1 DEF Prunes
  <2>9. m \notin EffectivelyUnpaired(mPods, pruned) /\ v \notin EffectivelyUnpaired(vPods, pruned)
    BY <2>1, <2>2, <2>8 DEF EffectivelyUnpaired
  <2>. QED BY <1>3, <2>8, <2>9 DEF Spared
<1>. QED BY <1>7, <1>8

LEMMA KeepReconcile ==
    ASSUME TargetsDistinct, KeepInv, OneToOneInv', Reconcile PROVE KeepNew' /\ Kept
<1>0. /\ TypeOK /\ OneToOne /\ PlanAligned /\ UuidHalfBound /\ KeepNew
      /\ BindsDistinct /\ SnapshotSound /\ PlanSpares /\ HalfBoundIsNext
  BY DEF KeepInv, OneToOneInv, KeepNew
<1>a. ASSUME UNCHANGED <<phase, label>> PROVE Kept
  BY <1>a DEF Kept, HealthyPair
<1>1. CASE ReconcileAll
  BY <1>0, <1>1, <1>a DEF ReconcileAll, cluster, plan, KeepNew, BindsDistinct, SnapshotSound,
                         PlanSpares, HalfBoundIsNext
<1>2. CASE GetVLLM
  BY <1>0, <1>2, <1>a DEF GetVLLM, cluster, plan, KeepNew, BindsDistinct, SnapshotSound,
                         PlanSpares, HalfBoundIsNext
<1>3. CASE SetDeploymentReplicas
  BY <1>3, <1>a, ReturnKeeps DEF SetDeploymentReplicas
<1>4. CASE ListManaged
  <2>1. /\ mPods' = ListOwnedReadyPods(cur) /\ pc' = "listV" /\ touched' = {}
        /\ UNCHANGED <<cur, binds, phase, label>>
    BY <1>4 DEF ListManaged, cluster
  <2>2. DOMAIN mPods' = ReadyPods(cur) /\ ReadyPods(cur) \subseteq PodsOf(cur) /\ PodsOf(cur) \subseteq Pods
    BY <1>0, <2>1, ListingType
  <2>3. \A p \in ReadyPods(cur) : mPods'[p].ready /\ mPods'[p].id = label[p]
    BY <2>1 DEF ListOwnedReadyPods
  <2>4. cur \in Managed /\ Target[cur] \in VLLM /\ Target[cur] \notin Managed
    BY <1>0, <1>4, PairingAssumption DEF ListManaged, PlanAligned, TypeOK
  <2>5. ASSUME NEW p \in ReadyPods(cur), NEW q \in ReadyPods(cur), label[p] # NoId,
               label[p] = label[q]
        PROVE  p = q
    BY <1>0, <2>2, <2>4, <2>5 DEF OneToOne, PodsOf
  <2>6. SnapshotSound'
    BY <2>1, <2>2, <2>3, <2>5 DEF SnapshotSound, PodsOf, ReadyPods
  <2>. QED BY <1>0, <1>a, <2>1, <2>6 DEF KeepNew, BindsDistinct, PlanSpares, HalfBoundIsNext
<1>5. CASE ListVLLM
  <2> DEFINE vPods == ListOwnedReadyPods(Target[cur])
  <2>1. /\ Continue(Prunes(mPods, vPods), Bindings(mPods, vPods))
        /\ UNCHANGED <<phase, label, touched>> /\ pc = "listV"
    BY <1>5 DEF ListVLLM, cluster
  <2>2. \A b, c \in Bindings(mPods, vPods) : b # c => b.m # c.m /\ b.v # c.v /\ b.pos # c.pos
    BY <1>0, PlanType
  <2>3. ASSUME NEW m \in Pods, NEW v \in Pods, HealthyPair(m, v)', Untouched(m, v)'
        PROVE  Spared(m, v, Prunes(mPods, vPods), Bindings(mPods, vPods))
    <3>1. HealthyPair(m, v) /\ Untouched(m, v)
      BY <2>1, <2>3 DEF HealthyPair, Untouched
    <3>. QED BY <2>1, <3>1, PlanSparesHealthy
  <2> HIDE DEF vPods
  <2>4. KeepNew'
    BY <2>1, <2>2, <2>3, ContinueKeeps
  <2>. QED BY <1>a, <2>1, <2>4
<1>6. ASSUME NEW d \in Managed, ReconcileOne(d) PROVE KeepNew' /\ Kept
  BY <1>0, <1>6, <1>a DEF ReconcileOne, cluster, plan, KeepNew, BindsDistinct, SnapshotSound,
                         PlanSpares, HalfBoundIsNext
<1>7. ASSUME NEW p \in Pods, RemovePodLabel(p) PROVE KeepNew' /\ Kept
  <2>1. /\ pc = "prune" /\ p \in prunes /\ Continue(prunes \ {p}, binds)
        /\ UNCHANGED <<phase, touched>> /\ \A q \in Pods \ {p} : label'[q] = label[q]
        /\ \A q \in Pods : label'[q] \in {label[q], NoId}
    BY <1>0, <1>7 DEF RemovePodLabel, TypeOK
  <2>2. Kept
    <3> SUFFICES ASSUME NEW m \in Pods, NEW v \in Pods, HealthyPair(m, v), ~ HealthyPair(m, v)'
                 PROVE  touched' \cap {m, v} # {}
      BY DEF Kept
    <3>1. p = m \/ p = v
      BY <2>1 DEF HealthyPair
    <3>. QED BY <1>0, <2>1, <3>1 DEF PlanSpares, Spared, Untouched
  <2>3. ASSUME NEW m \in Pods, NEW v \in Pods, HealthyPair(m, v)', Untouched(m, v)'
        PROVE  Spared(m, v, prunes \ {p}, binds)
    <3>1. HealthyPair(m, v) /\ Untouched(m, v)
      BY <2>1, <2>3, NoNewPair DEF Untouched
    <3>. QED BY <1>0, <2>1, <3>1 DEF PlanSpares, Spared
  <2>4. KeepNew'
    BY <1>0, <2>1, <2>3, ContinueKeeps DEF BindsDistinct
  <2>. QED BY <2>2, <2>4
<1>8. ASSUME NEW b \in binds, BindManaged(b) PROVE KeepNew' /\ Kept
  <2>1. /\ pc = "bindM" /\ UNCHANGED <<phase, touched>> /\ b.m \in Pods /\ b.pos \in Nat
        /\ IsNextBinding(b) /\ cur \in Managed /\ Owner[b.m] = cur
    BY <1>0, <1>8 DEF BindManaged, TypeOK, PlanAligned
  <2>2. CASE ~ Alive(b.m)
    <3>1. Continue({}, binds \ {b}) /\ UNCHANGED label
      BY <1>8, <2>2 DEF BindManaged
    <3>2. ASSUME NEW m \in Pods, NEW v \in Pods, HealthyPair(m, v)', Untouched(m, v)'
          PROVE  Spared(m, v, {}, binds \ {b})
      BY <1>0, <2>1, <3>1, <3>2 DEF PlanSpares, Spared, Untouched, HealthyPair
    <3>3. KeepNew'
      BY <1>0, <3>1, <3>2, ContinueKeeps DEF BindsDistinct
    <3>. QED BY <1>a, <2>1, <3>1, <3>3
  <2>3. CASE Alive(b.m)
    <3>1. /\ uuid' \in Ids /\ uuid' \notin UsedIds /\ pc' = "bindV"
          /\ label' = [label EXCEPT ![b.m] = uuid'] /\ UNCHANGED <<cur, mPods, prunes, binds>>
      BY <1>8, <2>3 DEF BindManaged
    <3>2. \A p \in Pods : label[p] # uuid'
      BY <3>1, NoIdAssumption DEF UsedIds
    <3>3. \A p \in Pods : label'[p] = IF p = b.m THEN uuid' ELSE label[p]
      BY <1>0, <3>1 DEF TypeOK
    <3>4. ASSUME NEW m \in Pods, NEW v \in Pods, HealthyPair(m, v)'
          PROVE  HealthyPair(m, v) /\ m # b.m /\ v # b.m
      <4>1. Owner[m] # Owner[v]
        BY <3>4, PairingAssumption DEF HealthyPair, Deployments
      <4>2. m # b.m /\ v # b.m
        BY <3>2, <3>3, <3>4, <4>1 DEF HealthyPair
      <4>. QED BY <2>1, <3>3, <3>4, <4>2 DEF HealthyPair
    <3>5. Kept
      <4> SUFFICES ASSUME NEW m \in Pods, NEW v \in Pods, HealthyPair(m, v), ~ HealthyPair(m, v)'
                   PROVE  touched' \cap {m, v} # {}
        BY DEF Kept
      <4>1. b.m = m \/ b.m = v
        BY <2>1, <3>3 DEF HealthyPair
      <4>2. Owner[v] \notin Managed
        BY <1>0, HealthyPairType
      <4>3. b.m = m
        BY <2>1, <4>1, <4>2
      <4>. QED BY <1>0, <2>1, <4>3 DEF PlanSpares, Spared, Untouched
    <3>6. PlanSpares'
      BY <1>0, <2>1, <3>1, <3>4 DEF PlanSpares, Spared, Untouched
    <3>7. HalfBoundIsNext'
      <4> SUFFICES ASSUME NEW p \in Pods, NEW c \in binds, label'[p] = uuid', IsNextBinding(c)
                   PROVE  p = c.m
        BY <3>1 DEF HalfBoundIsNext, IsNextBinding
      <4>1. p = b.m
        BY <3>2, <3>3
      <4>2. c.pos \in Nat /\ c.pos <= b.pos /\ b.pos <= c.pos
        BY <1>0, <2>1 DEF IsNextBinding, TypeOK
      <4>. QED BY <1>0, <2>1, <4>1, <4>2 DEF BindsDistinct
    <3>8. BindsDistinct' /\ SnapshotSound'
      BY <1>0, <3>1 DEF BindsDistinct, SnapshotSound
    <3>. QED BY <3>5, <3>6, <3>7, <3>8 DEF KeepNew
  <2>. QED BY <2>2, <2>3
<1>9. ASSUME NEW b \in binds, BindVLLM(b) PROVE KeepNew' /\ Kept
  <2>1. /\ pc = "bindV" /\ UNCHANGED <<phase, touched>> /\ b.v \in Pods
        /\ IsNextBinding(b) /\ Continue({}, binds \ {b})
        /\ cur \in Managed /\ Target[cur] \in VLLM /\ Owner[b.v] = Target[cur]
        /\ Owner[b.v] \notin Managed
    BY <1>0, <1>9, PairingAssumption DEF BindVLLM, TypeOK, PlanAligned
  <2>2. \A p \in Pods : label'[p] = label[p] \/ (p = b.v /\ label'[p] = uuid)
    BY <1>0, <1>9, <2>1 DEF BindVLLM, TypeOK
  <2>3. Kept
    <3> SUFFICES ASSUME NEW m \in Pods, NEW v \in Pods, HealthyPair(m, v), ~ HealthyPair(m, v)'
                 PROVE  touched' \cap {m, v} # {}
      BY DEF Kept
    <3>1. b.v = m \/ b.v = v
      BY <2>1, <2>2 DEF HealthyPair
    <3>2. b.v = v
      BY <2>1, <3>1 DEF HealthyPair
    <3>. QED BY <1>0, <2>1, <3>2 DEF PlanSpares, Spared, Untouched
  <2>4. ASSUME NEW m \in Pods, NEW v \in Pods, HealthyPair(m, v)', Untouched(m, v)'
        PROVE  Spared(m, v, {}, binds \ {b})
    <3>1. CASE HealthyPair(m, v)
      BY <1>0, <2>1, <2>4, <3>1 DEF PlanSpares, Spared, Untouched
    <3>2. CASE ~ HealthyPair(m, v)
      <4>1. m # b.v
        BY <2>1, <2>4 DEF HealthyPair
      <4>2. v = b.v /\ label[m] = uuid
        BY <2>1, <2>2, <2>4, <3>2, <4>1 DEF HealthyPair
      <4>3. m = b.m
        BY <1>0, <2>1, <4>2 DEF HalfBoundIsNext
      <4>. QED BY <1>0, <4>2, <4>3 DEF BindsDistinct, Spared
    <3>. QED BY <3>1, <3>2
  <2>5. KeepNew'
    BY <1>0, <2>1, <2>4, ContinueKeeps DEF BindsDistinct
  <2>. QED BY <2>3, <2>5
<1>. QED BY <1>1, <1>2, <1>3, <1>4, <1>5, <1>6, <1>7, <1>8, <1>9 DEF Reconcile

LEMMA KeepFault ==
    ASSUME KeepInv, Fault PROVE KeepNew' /\ Kept
<1>0. /\ TypeOK /\ OneToOne /\ PlanAligned /\ UuidHalfBound
      /\ BindsDistinct /\ SnapshotSound /\ PlanSpares /\ HalfBoundIsNext
  BY DEF KeepInv, OneToOneInv
<1>a. ASSUME UNCHANGED <<phase, label>> PROVE Kept
  BY <1>a DEF Kept, HealthyPair
<1>1. CASE ReadFails
  BY <1>1, <1>a, ReturnKeeps DEF ReadFails, cluster
<1>2. CASE ScaleFails
  BY <1>2, <1>a, ReturnKeeps DEF ScaleFails
<1>3. CASE Restart
  <2>1. mPods' = <<>> /\ binds' = {} /\ pc' = "idle" /\ UNCHANGED <<phase, label>>
    BY <1>3 DEF Restart, DropPlan, cluster
  <2>2. DOMAIN mPods' = {}
    BY <2>1
  <2>. QED BY <1>a, <2>1, <2>2
           DEF KeepNew, BindsDistinct, SnapshotSound, PlanSpares, HalfBoundIsNext
\* a patch of pod x fails: whatever it did, x is touched
<1>b. ASSUME NEW x \in Pods, touched' = touched \cup {x}, UNCHANGED phase,
             pc \in {"prune", "bindM", "bindV"},
             \A p \in Pods \ {x} : label'[p] = label[p],
             NEW ps \in SUBSET prunes, NEW bs \in SUBSET binds, Continue(ps, bs)
      PROVE  KeepNew' /\ Kept
  <2>1. Kept
    BY <1>b DEF Kept, HealthyPair
  <2>2. ASSUME NEW m \in Pods, NEW v \in Pods, HealthyPair(m, v)', Untouched(m, v)'
        PROVE  Spared(m, v, ps, bs)
    <3>1. HealthyPair(m, v) /\ Untouched(m, v)
      BY <1>b, <2>2 DEF HealthyPair, Untouched
    <3>. QED BY <1>0, <1>b, <3>1 DEF PlanSpares, Spared
  <2>3. KeepNew'
    BY <1>0, <1>b, <2>2, ContinueKeeps DEF BindsDistinct
  <2>. QED BY <2>1, <2>3
<1>4. ASSUME NEW p \in Pods, PruneFails(p) PROVE KeepNew' /\ Kept
  <2>1. /\ pc = "prune" /\ touched' = touched \cup {p} /\ UNCHANGED phase
        /\ Continue(prunes \ {p}, binds) /\ \A q \in Pods \ {p} : label'[q] = label[q]
    BY <1>0, <1>4 DEF PruneFails, TypeOK
  <2>. QED BY <1>b, <2>1
<1>5. ASSUME NEW b \in binds, BindManagedFails(b) PROVE KeepNew' /\ Kept
  <2>1. /\ pc = "bindM" /\ touched' = touched \cup {b.m} /\ UNCHANGED phase /\ b.m \in Pods
        /\ Continue({}, binds \ {b}) /\ \A q \in Pods \ {b.m} : label'[q] = label[q]
    BY <1>0, <1>5 DEF BindManagedFails, TypeOK
  <2>. QED BY <1>b, <2>1
<1>6. ASSUME NEW b \in binds, BindVLLMFails(b) PROVE KeepNew' /\ Kept
  <2>1. /\ pc = "bindV" /\ touched' = touched \cup {b.v} /\ UNCHANGED phase /\ b.v \in Pods
        /\ Continue({}, binds \ {b}) /\ \A q \in Pods \ {b.v} : label'[q] = label[q]
    BY <1>0, <1>6 DEF BindVLLMFails, TypeOK
  <2>. QED BY <1>b, <2>1
<1>. QED BY <1>1, <1>2, <1>3, <1>4, <1>5, <1>6 DEF Fault

LEMMA KeepEnvironment ==
    ASSUME KeepInv, Kubernetes \/ Disturbance PROVE KeepNew' /\ UNCHANGED local
<1>0. /\ TypeOK /\ BindsDistinct /\ SnapshotSound /\ PlanSpares /\ HalfBoundIsNext
  BY DEF KeepInv, OneToOneInv
\* the others change nothing the plan relies on but what they touch
<1>1. ASSUME UNCHANGED local,
             NEW x \in Pods,
             InPass => touched' \in {touched, touched \cup {x}},
             \A p \in Pods : p # x => phase'[p] = phase[p] /\ label'[p] = label[p],
             InPass /\ x \notin touched' => phase'[x] # "ready" \/ (phase'[x] = phase[x] /\ label'[x] = label[x]),
             label'[x] \in {label[x], NoId}
      PROVE  KeepNew'
  <2>1. BindsDistinct' /\ (pc' = pc /\ cur' = cur /\ mPods' = mPods /\ prunes' = prunes /\ binds' = binds /\ uuid' = uuid)
    BY <1>0, <1>1 DEF local, plan, BindsDistinct
  <2>2. SnapshotSound'
    BY <1>0, <1>1, <2>1 DEF SnapshotSound, PodsOf, InPass
  <2>3. PlanSpares'
    <3> SUFFICES ASSUME pc \in {"prune", "bindM", "bindV"},
                        NEW m \in Pods, NEW v \in Pods, HealthyPair(m, v)', Untouched(m, v)'
                 PROVE  Spared(m, v, prunes, binds)
      BY <2>1 DEF PlanSpares
    <3>1. InPass
      BY DEF InPass
    <3>2. HealthyPair(m, v) /\ Untouched(m, v)
      BY <1>1, <3>1 DEF HealthyPair, Untouched
    <3>. QED BY <1>0, <3>2 DEF PlanSpares
  <2>4. HalfBoundIsNext'
    <3> SUFFICES ASSUME pc = "bindV", NEW p \in Pods, NEW b \in binds, label'[p] = uuid,
                        IsNextBinding(b)
                 PROVE  p = b.m
      BY <2>1 DEF HalfBoundIsNext, IsNextBinding
    <3>1. uuid # NoId
      BY DEF KeepInv, OneToOneInv, UuidHalfBound
    <3>2. label[p] = uuid
      BY <1>1, <3>1
    <3>. QED BY <1>0, <3>2 DEF HalfBoundIsNext
  <2>. QED BY <2>1, <2>2, <2>3, <2>4 DEF KeepNew
<1>2. ASSUME NEW p \in Pods, CreatePod(p) PROVE KeepNew' /\ UNCHANGED local
  <2>1. UNCHANGED <<local, label, touched>> /\ phase' = [phase EXCEPT ![p] = "notReady"]
    BY <1>2 DEF CreatePod
  <2>2. phase'[p] # "ready" /\ \A q \in Pods : q # p => phase'[q] = phase[q]
    BY <1>0, <2>1 DEF TypeOK
  <2>. QED BY <1>1, <2>1, <2>2
<1>3. ASSUME NEW p \in Pods, BecomeReady(p) \/ LoseReady(p) PROVE KeepNew' /\ UNCHANGED local
  <2>1. /\ UNCHANGED <<local, label>>
        /\ InPass => touched' = touched \cup {p}
        /\ \A q \in Pods : q # p => phase'[q] = phase[q]
    BY <1>0, <1>3 DEF BecomeReady, LoseReady, Touch, TypeOK
  <2>. QED BY <1>1, <2>1
<1>4. ASSUME NEW p \in Pods, DeletePod(p) \/ StripLabel(p) PROVE KeepNew' /\ UNCHANGED local
  <2>1. /\ UNCHANGED local
        /\ InPass => touched' = touched \cup {p}
        /\ \A q \in Pods : q # p => phase'[q] = phase[q] /\ label'[q] = label[q]
        /\ label'[p] = NoId
    BY <1>0, <1>4 DEF DeletePod, StripLabel, Touch, TypeOK
  <2>. QED BY <1>1, <2>1
<1>5. ASSUME NEW d \in Deployments, NEW n \in 0..MaxReplicas, Rescale(d, n)
      PROVE  KeepNew' /\ UNCHANGED local
  BY <1>0, <1>5 DEF Rescale, local, plan, KeepNew, BindsDistinct, SnapshotSound, PlanSpares,
                    HalfBoundIsNext, IsNextBinding, HealthyPair, Untouched, PodsOf
<1>. QED BY <1>2, <1>3, <1>4, <1>5 DEF Kubernetes, Disturbance, ScaleDown

\* If every managed Deployment has a vLLM Deployment of its own, the reconciler breaks
\* a healthy pair only when one of its pods was changed behind its back.
THEOREM HealthyPairsAreKept ==
    ASSUME TargetsDistinct PROVE Spec => HealthyPairsKept
<1>1. Init => KeepNew
  <2> SUFFICES ASSUME Init PROVE KeepNew
    OBVIOUS
  <2>1. DOMAIN mPods = {} /\ binds = {} /\ pc = "idle"
    BY DEF Init
  <2>. QED BY <2>1 DEF KeepNew, BindsDistinct, SnapshotSound, PlanSpares, HalfBoundIsNext
<1>2. KeepInv /\ OneToOneInv' /\ [Next]_vars => KeepNew' /\ (local' # local => Kept)
  <2> SUFFICES ASSUME KeepInv, OneToOneInv', [Next]_vars PROVE KeepNew' /\ (local' # local => Kept)
    OBVIOUS
  <2>1. CASE UNCHANGED vars
    BY <2>1 DEF KeepInv, KeepNew, vars, cluster, local, plan, BindsDistinct, SnapshotSound,
                PlanSpares, HalfBoundIsNext, IsNextBinding, HealthyPair, Untouched, PodsOf
  <2>2. CASE Reconcile
    BY <2>2, KeepReconcile
  <2>3. CASE Fault
    BY <2>3, KeepFault
  <2>4. CASE Kubernetes \/ Disturbance
    BY <2>4, KeepEnvironment
  <2>. QED BY <2>1, <2>2, <2>3, <2>4 DEF Next
<1>3. KeepInv <=> OneToOneInv /\ KeepNew
  BY DEF KeepInv, KeepNew
<1>4. [local' # local => Kept]_vars <=>
      [local' # local => \A m, v \in Pods :
           HealthyPair(m, v) /\ ~ HealthyPair(m, v)' => touched' \cap {m, v} # {}]_vars
  BY DEF Kept
<1>. QED BY <1>1, <1>2, <1>3, <1>4, OneToOneInvariant, PTL DEF Spec, HealthyPairsKept, Kept

-----------------------------------------------------------------------------
(***************************************************************************)
(* One undisturbed pass repairs                                            *)
(***************************************************************************)

\* The positions in the sorted list of the n unpaired pods are 0 to n - 1, all of them.
LEMMA RanksFill ==
    ASSUME NEW view, IsFiniteSet(DOMAIN view), DOMAIN view \subseteq Nat, NEW pruned
    PROVE  LET U == EffectivelyUnpaired(view, pruned)
           IN  /\ Cardinality(U) \in Nat
               /\ \A p \in U : Rank(view, pruned, p) \in 0..(Cardinality(U) - 1)
               /\ \A i \in 0..(Cardinality(U) - 1) : \E p \in U : Rank(view, pruned, p) = i
<1> DEFINE U == EffectivelyUnpaired(view, pruned)
           n == Cardinality(U)
           rank == [p \in U |-> Rank(view, pruned, p)]
<1>1. U \subseteq DOMAIN view
  BY DEF EffectivelyUnpaired
<1>2. IsFiniteSet(U) /\ n \in Nat
  BY <1>1, FS_Subset, FS_CardinalityType
<1>3. ASSUME NEW p \in U PROVE Rank(view, pruned, p) \in 0..(n - 1)
  <2> DEFINE Below == {q \in U : SortsBefore(view, q, p)}
  <2>1. Below \subseteq U /\ p \notin Below
    BY <1>1 DEF SortsBefore
  <2>2. IsFiniteSet(Below) /\ Cardinality(Below) \in Nat /\ Cardinality(Below) <= n
    BY <1>2, <2>1, FS_Subset, FS_CardinalityType
  <2>3. Cardinality(Below) # n
    BY <1>2, <1>3, <2>1, FS_Subset
  <2>4. Rank(view, pruned, p) = Cardinality(Below)
    BY DEF Rank
  <2> HIDE DEF Below, n
  <2>. QED BY <1>2, <2>2, <2>3, <2>4
<1>4. rank \in [U -> 0..(n - 1)]
  BY <1>3
<1>5. \A p, q \in U : rank[p] = rank[q] => p = q
  BY RankInjective
<1>6. rank \in Injection(U, 0..(n - 1))
  BY <1>4, <1>5 DEF Injection, IsInjective
<1>7. IsFiniteSet(0..(n - 1)) /\ Cardinality(0..(n - 1)) = n
  <2> HIDE DEF n
  <2>1. 0 \in Int /\ n - 1 \in Int
    BY <1>2
  <2>2. /\ IsFiniteSet(0..(n - 1))
        /\ Cardinality(0..(n - 1)) = IF 0 > n - 1 THEN 0 ELSE n - 1 - 0 + 1
    BY <2>1, FS_Interval
  <2>. QED BY <1>2, <2>2
<1>8. rank \in Surjection(U, 0..(n - 1))
  BY <1>2, <1>6, <1>7, FS_Injection
<1>9. \A i \in 0..(n - 1) : \E p \in U : Rank(view, pruned, p) = i
  BY <1>8 DEF Surjection
<1>. QED BY <1>2, <1>3, <1>9

\* So the planner binds all unpaired pods of one of the two sides.
LEMMA BindingsCover ==
    ASSUME NEW mView, NEW vView,
           IsFiniteSet(DOMAIN mView), DOMAIN mView \subseteq Nat,
           IsFiniteSet(DOMAIN vView), DOMAIN vView \subseteq Nat
    PROVE  LET pruned == Prunes(mView, vView)
               bs == Bindings(mView, vView)
           IN  \/ \A m \in EffectivelyUnpaired(mView, pruned) : \E b \in bs : b.m = m
               \/ \A v \in EffectivelyUnpaired(vView, pruned) : \E b \in bs : b.v = v
<1> DEFINE pruned == Prunes(mView, vView)
           bs == Bindings(mView, vView)
           mU == EffectivelyUnpaired(mView, pruned)
           vU == EffectivelyUnpaired(vView, pruned)
<1>1. ASSUME NEW m \in mU, NEW v \in vU, Rank(mView, pruned, m) = Rank(vView, pruned, v)
      PROVE  \E b \in bs : b.m = m /\ b.v = v
  <2> DEFINE bind == [pos |-> Rank(mView, pruned, m), m |-> m, v |-> v]
  <2>1. <<m, v>> \in {c \in mU \X vU : Rank(mView, pruned, c[1]) = Rank(vView, pruned, c[2])}
    BY <1>1
  <2>2. bind \in bs
    BY <2>1 DEF Bindings
  <2>. QED BY <2>2
<1> HIDE DEF bs
<1>2. /\ Cardinality(mU) \in Nat
      /\ \A p \in mU : Rank(mView, pruned, p) \in 0..(Cardinality(mU) - 1)
      /\ \A i \in 0..(Cardinality(mU) - 1) : \E p \in mU : Rank(mView, pruned, p) = i
  BY RanksFill
<1>3. /\ Cardinality(vU) \in Nat
      /\ \A p \in vU : Rank(vView, pruned, p) \in 0..(Cardinality(vU) - 1)
      /\ \A i \in 0..(Cardinality(vU) - 1) : \E p \in vU : Rank(vView, pruned, p) = i
  BY RanksFill
<1> HIDE DEF mU, vU, pruned
<1>4. CASE Cardinality(mU) <= Cardinality(vU)
  <2>1. ASSUME NEW m \in mU PROVE \E b \in bs : b.m = m
    <3>1. Rank(mView, pruned, m) \in 0..(Cardinality(vU) - 1)
      BY <1>2, <1>3, <1>4
    <3>. QED BY <1>1, <1>3, <3>1
  <2>. QED BY <2>1 DEF mU, vU, bs, pruned
<1>5. CASE Cardinality(vU) <= Cardinality(mU)
  <2>1. ASSUME NEW v \in vU PROVE \E b \in bs : b.v = v
    <3>1. Rank(vView, pruned, v) \in 0..(Cardinality(mU) - 1)
      BY <1>2, <1>3, <1>5
    <3>. QED BY <1>1, <1>2, <3>1
  <2>. QED BY <2>1 DEF mU, vU, bs, pruned
<1>. QED BY <1>2, <1>3, <1>4, <1>5

\* the Ready pods of d in the phases ph
Ready(ph, d) == {p \in Pods : Owner[p] = d /\ ph[p] = "ready"}

\* p is in a pair: a managed pod of R and a vLLM pod of W with the same id
InPair(lb, R, W, p) ==
    lb[p] # NoId /\ \E m \in R, v \in W : p \in {m, v} /\ lb[m] = lb[v]

\* What is left of a plan mends the labels lb of the Ready pods R and W: the pods
\* ps to prune are in no pair, every other labelled one is, the bindings bs are of
\* pods that are or will be unlabelled, and cover one of the two sides.  The pods
\* of half are half-bound.
Mends(lb, R, W, ps, bs, half) ==
    /\ ps \subseteq R \cup W
    /\ bs \subseteq [pos : Nat, m : R, v : W]
    /\ \A b, c \in bs : b # c => b.m # c.m /\ b.v # c.v /\ b.pos # c.pos
    /\ \A p \in ps : ~ InPair(lb, R, W, p)
    /\ \A p \in R \cup W : lb[p] = NoId \/ p \in ps \cup half \/ InPair(lb, R, W, p)
    /\ \A b \in bs : /\ lb[b.m] = NoId \/ b.m \in ps \cup half
                     /\ lb[b.v] = NoId \/ b.v \in ps
    /\ \/ \A m \in R : InPair(lb, R, W, m) \/ \E b \in bs : b.m = m
       \/ \A v \in W : InPair(lb, R, W, v) \/ \E b \in bs : b.v = v

\* A fresh plan mends.
LEMMA PlanMends ==
    ASSUME TypeOK, OneToOne, cur \in Managed, Target[cur] \in VLLM,
           mPods = ListOwnedReadyPods(cur)
    PROVE  LET vPods == ListOwnedReadyPods(Target[cur])
           IN  Mends(label, Ready(phase, cur), Ready(phase, Target[cur]),
                     Prunes(mPods, vPods), Bindings(mPods, vPods), {})
<1> DEFINE vPods == ListOwnedReadyPods(Target[cur])
           R == Ready(phase, cur)
           W == Ready(phase, Target[cur])
           ps == Prunes(mPods, vPods)
           bs == Bindings(mPods, vPods)
<1>1. /\ R = ReadyPods(cur) /\ W = ReadyPods(Target[cur])
      /\ R \subseteq Pods /\ W \subseteq Pods /\ R \cap W = {}
  BY PairingAssumption DEF Ready, ReadyPods, PodsOf
<1>2. /\ DOMAIN mPods = R /\ \A p \in R : mPods[p] = [ready |-> TRUE, id |-> label[p]]
      /\ DOMAIN vPods = W /\ \A p \in W : vPods[p] = [ready |-> TRUE, id |-> label[p]]
  BY <1>1 DEF ListOwnedReadyPods
<1>3. /\ IsFiniteSet(DOMAIN mPods) /\ DOMAIN mPods \subseteq Nat
      /\ IsFiniteSet(DOMAIN vPods) /\ DOMAIN vPods \subseteq Nat
  BY <1>1, <1>2, PairingAssumption, FS_Subset
<1> HIDE DEF vPods
\* no two pods of a listing carry one id, so that all labelled ones are indexed
<1>4. \A p, q \in R : label[p] # NoId /\ label[p] = label[q] => p = q
  BY PairingAssumption DEF OneToOne, Ready
<1>5. \A p, q \in W : label[p] # NoId /\ label[p] = label[q] => p = q
  BY PairingAssumption DEF OneToOne, Ready
<1>6. Indexed(mPods) = {p \in R : label[p] # NoId}
  BY <1>2, <1>3, <1>4 DEF Indexed, Labelled
<1>7. Indexed(vPods) = {p \in W : label[p] # NoId}
  BY <1>2, <1>3, <1>5 DEF Indexed, Labelled
<1> HIDE DEF R, W
<1>8. \A id \in Ids : Healthy(id, mPods, vPods) <=>
          (\E m \in R : label[m] = id) /\ (\E v \in W : label[v] = id)
  <2> SUFFICES ASSUME NEW id \in Ids
               PROVE  Healthy(id, mPods, vPods) <=>
                          (\E m \in R : label[m] = id) /\ (\E v \in W : label[v] = id)
    OBVIOUS
  <2>1. id # NoId
    BY NoIdAssumption
  <2>. QED BY <1>2, <1>6, <1>7, <2>1 DEF Healthy
<1>9. \A p \in R \cup W : label[p] # NoId =>
          (Healthy(label[p], mPods, vPods) <=> InPair(label, R, W, p))
  <2> SUFFICES ASSUME NEW p \in R \cup W, label[p] # NoId
               PROVE  Healthy(label[p], mPods, vPods) <=> InPair(label, R, W, p)
    OBVIOUS
  <2>1. label[p] \in Ids
    BY <1>1 DEF TypeOK
  <2>. QED BY <1>8, <2>1 DEF InPair
<1>10. ps = {p \in R \cup W : label[p] # NoId /\ ~ InPair(label, R, W, p)}
  <2>1. ps = {m \in Indexed(mPods) : ~ Healthy(label[m], mPods, vPods)}
             \cup {v \in Indexed(vPods) : ~ Healthy(label[v], mPods, vPods)}
    BY <1>2, <1>6, <1>7 DEF Prunes
  <2> HIDE DEF ps
  <2>. QED BY <1>6, <1>7, <1>9, <2>1
<1>11. /\ EffectivelyUnpaired(mPods, ps) = {p \in R : label[p] = NoId \/ p \in ps}
       /\ EffectivelyUnpaired(vPods, ps) = {p \in W : label[p] = NoId \/ p \in ps}
  BY <1>2 DEF EffectivelyUnpaired
<1>12. /\ bs \subseteq [pos : Nat, m : EffectivelyUnpaired(mPods, ps),
                                   v : EffectivelyUnpaired(vPods, ps)]
       /\ \A b, c \in bs : b # c => b.m # c.m /\ b.v # c.v /\ b.pos # c.pos
  BY <1>3, BindingsAreAMatching
<1>13. \/ \A m \in EffectivelyUnpaired(mPods, ps) : \E b \in bs : b.m = m
       \/ \A v \in EffectivelyUnpaired(vPods, ps) : \E b \in bs : b.v = v
  BY <1>3, BindingsCover
<1> HIDE DEF ps, bs
<1>14. /\ ps \subseteq R \cup W
       /\ \A p \in ps : ~ InPair(label, R, W, p)
       /\ \A p \in R \cup W : label[p] = NoId \/ p \in ps \/ InPair(label, R, W, p)
  BY <1>10
<1>15. /\ bs \subseteq [pos : Nat, m : R, v : W]
       /\ \A b \in bs : /\ label[b.m] = NoId \/ b.m \in ps
                        /\ label[b.v] = NoId \/ b.v \in ps
  BY <1>11, <1>12
<1>16. \/ \A m \in R : InPair(label, R, W, m) \/ \E b \in bs : b.m = m
       \/ \A v \in W : InPair(label, R, W, v) \/ \E b \in bs : b.v = v
  BY <1>11, <1>13, <1>14
<1>17. Mends(label, R, W, ps, bs, {})
  BY <1>12, <1>14, <1>15, <1>16 DEF Mends
<1>. QED BY <1>17 DEF R, W, ps, bs, vPods

\* A patch of a pod that is in no pair ends no pair.
LEMMA PairsStay ==
    ASSUME NEW R, NEW W, NEW lb, NEW nb, NEW x, ~ InPair(lb, R, W, x),
           \A p \in R \cup W : p # x => nb[p] = lb[p]
    PROVE  \A q : InPair(lb, R, W, q) => InPair(nb, R, W, q)
<1> SUFFICES ASSUME NEW q, InPair(lb, R, W, q) PROVE InPair(nb, R, W, q)
  OBVIOUS
<1>1. PICK m \in R, v \in W : q \in {m, v} /\ lb[m] = lb[v] /\ lb[q] # NoId
  BY DEF InPair
<1>2. lb[m] # NoId /\ InPair(lb, R, W, m) /\ InPair(lb, R, W, v)
  BY <1>1 DEF InPair
<1>3. m # x /\ v # x
  BY <1>2
<1>4. nb[m] = lb[m] /\ nb[v] = lb[v]
  BY <1>3
<1>. QED BY <1>1, <1>4 DEF InPair

\* A prune, the first and the second patch of a binding leave a plan that mends.
LEMMA PruneMends ==
    ASSUME NEW R, NEW W, NEW lb, NEW nb, NEW ps, NEW bs,
           Mends(lb, R, W, ps, bs, {}), NEW x \in ps,
           nb[x] = NoId, \A p \in R \cup W : p # x => nb[p] = lb[p]
    PROVE  Mends(nb, R, W, ps \ {x}, bs, {})
<1>1. /\ ps \subseteq R \cup W /\ bs \subseteq [pos : Nat, m : R, v : W]
      /\ \A b, c \in bs : b # c => b.m # c.m /\ b.v # c.v /\ b.pos # c.pos
      /\ \A p \in ps : ~ InPair(lb, R, W, p)
      /\ \A p \in R \cup W : lb[p] = NoId \/ p \in ps \/ InPair(lb, R, W, p)
      /\ \A b \in bs : /\ lb[b.m] = NoId \/ b.m \in ps
                       /\ lb[b.v] = NoId \/ b.v \in ps
      /\ \/ \A m \in R : InPair(lb, R, W, m) \/ \E b \in bs : b.m = m
         \/ \A v \in W : InPair(lb, R, W, v) \/ \E b \in bs : b.v = v
  BY DEF Mends
<1>2. \A q : InPair(lb, R, W, q) => InPair(nb, R, W, q)
  <2>1. \A p \in R \cup W : p # x => nb[p] = lb[p]
    OBVIOUS
  <2>. QED BY <1>1, <2>1, PairsStay
<1>3. ASSUME NEW q \in ps \ {x} PROVE ~ InPair(nb, R, W, q)
  <2>1. ASSUME NEW m \in R, NEW v \in W, q \in {m, v}, nb[m] = nb[v], nb[q] # NoId
        PROVE  FALSE
    <3>1. m # x /\ v # x
      BY <2>1
    <3>2. lb[m] = nb[m] /\ lb[v] = nb[v]
      BY <3>1
    <3>. QED BY <1>1, <1>3, <2>1, <3>2 DEF InPair
  <2>. QED BY <2>1 DEF InPair
<1>4. \A p \in R \cup W : nb[p] = NoId \/ p \in ps \ {x} \/ InPair(nb, R, W, p)
  BY <1>1, <1>2
<1>5. ASSUME NEW b \in bs
      PROVE  /\ nb[b.m] = NoId \/ b.m \in ps \ {x}
             /\ nb[b.v] = NoId \/ b.v \in ps \ {x}
  <2>1. b.m \in R /\ b.v \in W
    BY <1>1
  <2>. QED BY <1>1, <2>1
<1>6. \/ \A m \in R : InPair(nb, R, W, m) \/ \E b \in bs : b.m = m
      \/ \A v \in W : InPair(nb, R, W, v) \/ \E b \in bs : b.v = v
  BY <1>1, <1>2
<1>. QED BY <1>1, <1>3, <1>4, <1>5, <1>6 DEF Mends

LEMMA FirstHalfMends ==
    ASSUME NEW R, NEW W, R \cap W = {}, NEW lb, NEW nb, NEW bs,
           Mends(lb, R, W, {}, bs, {}), NEW b \in bs,
           \A p \in R \cup W : p # b.m => nb[p] = lb[p]
    PROVE  Mends(nb, R, W, {}, bs, {b.m})
<1>1. /\ bs \subseteq [pos : Nat, m : R, v : W]
      /\ \A c, e \in bs : c # e => c.m # e.m /\ c.v # e.v /\ c.pos # e.pos
      /\ \A p \in R \cup W : lb[p] = NoId \/ InPair(lb, R, W, p)
      /\ \A c \in bs : lb[c.m] = NoId /\ lb[c.v] = NoId
      /\ \/ \A m \in R : InPair(lb, R, W, m) \/ \E c \in bs : c.m = m
         \/ \A v \in W : InPair(lb, R, W, v) \/ \E c \in bs : c.v = v
  BY DEF Mends
<1>2. b.m \in R /\ lb[b.m] = NoId
  BY <1>1
<1>3. \A q : InPair(lb, R, W, q) => InPair(nb, R, W, q)
  <2>1. ~ InPair(lb, R, W, b.m)
    BY <1>2 DEF InPair
  <2>2. \A p \in R \cup W : p # b.m => nb[p] = lb[p]
    OBVIOUS
  <2>. QED BY <2>1, <2>2, PairsStay
<1>4. \A p \in R \cup W : nb[p] = NoId \/ p \in {} \cup {b.m} \/ InPair(nb, R, W, p)
  BY <1>1, <1>3
<1>5. ASSUME NEW c \in bs
      PROVE  /\ nb[c.m] = NoId \/ c.m \in {} \cup {b.m}
             /\ nb[c.v] = NoId \/ c.v \in {}
  <2>1. c.m \in R /\ c.v \in W
    BY <1>1
  <2>. QED BY <1>1, <1>2, <2>1
<1>6. \/ \A m \in R : InPair(nb, R, W, m) \/ \E c \in bs : c.m = m
      \/ \A v \in W : InPair(nb, R, W, v) \/ \E c \in bs : c.v = v
  BY <1>1, <1>3
<1>. QED BY <1>1, <1>4, <1>5, <1>6 DEF Mends

LEMMA SecondHalfMends ==
    ASSUME NEW R, NEW W, R \cap W = {}, NEW lb, NEW nb, NEW bs,
           NEW b \in bs, Mends(lb, R, W, {}, bs, {b.m}), lb[b.m] # NoId,
           nb[b.v] = lb[b.m], \A p \in R \cup W : p # b.v => nb[p] = lb[p]
    PROVE  Mends(nb, R, W, {}, bs \ {b}, {})
<1>1. /\ bs \subseteq [pos : Nat, m : R, v : W]
      /\ \A c, e \in bs : c # e => c.m # e.m /\ c.v # e.v /\ c.pos # e.pos
      /\ \A p \in R \cup W : lb[p] = NoId \/ p = b.m \/ InPair(lb, R, W, p)
      /\ \A c \in bs : (lb[c.m] = NoId \/ c.m = b.m) /\ lb[c.v] = NoId
      /\ \/ \A m \in R : InPair(lb, R, W, m) \/ \E c \in bs : c.m = m
         \/ \A v \in W : InPair(lb, R, W, v) \/ \E c \in bs : c.v = v
  BY DEF Mends
<1>2. b.m \in R /\ b.v \in W /\ lb[b.v] = NoId /\ b.m # b.v
  BY <1>1
<1>3. \A q : InPair(lb, R, W, q) => InPair(nb, R, W, q)
  <2>1. ~ InPair(lb, R, W, b.v)
    BY <1>2 DEF InPair
  <2>2. \A p \in R \cup W : p # b.v => nb[p] = lb[p]
    OBVIOUS
  <2>. QED BY <2>1, <2>2, PairsStay
<1>4. InPair(nb, R, W, b.m) /\ InPair(nb, R, W, b.v)
  <2>1. nb[b.m] = lb[b.m] /\ nb[b.v] = lb[b.m]
    BY <1>2
  <2>. QED BY <1>2, <2>1 DEF InPair
<1>5. \A p \in R \cup W : nb[p] = NoId \/ p \in {} \cup {} \/ InPair(nb, R, W, p)
  BY <1>1, <1>3, <1>4
<1>6. ASSUME NEW c \in bs \ {b}
      PROVE  /\ nb[c.m] = NoId \/ c.m \in {} \cup {}
             /\ nb[c.v] = NoId \/ c.v \in {}
  <2>1. c.m \in R /\ c.v \in W /\ c.m # b.m /\ c.v # b.v
    BY <1>1
  <2>. QED BY <1>1, <1>2, <2>1
<1>7. \/ \A m \in R : InPair(nb, R, W, m) \/ \E c \in bs \ {b} : c.m = m
      \/ \A v \in W : InPair(nb, R, W, v) \/ \E c \in bs \ {b} : c.v = v
  BY <1>1, <1>3, <1>4
<1>8. /\ bs \ {b} \subseteq [pos : Nat, m : R, v : W]
      /\ \A c, e \in bs \ {b} : c # e => c.m # e.m /\ c.v # e.v /\ c.pos # e.pos
      /\ {} \subseteq R \cup W
  BY <1>1
<1>. QED BY <1>5, <1>6, <1>7, <1>8 DEF Mends

\* Where nothing is left of a plan that mends, the Deployment is repaired.
Mended(d) == Mends(label, Ready(phase, d), Ready(phase, Target[d]), {}, {}, {})

LEMMA MendedIsRepaired ==
    OneToOneInv => \A d \in Managed : Target[d] \in VLLM /\ Mended(d) => Repaired(d)
<1> SUFFICES ASSUME OneToOneInv, NEW d \in Managed, Target[d] \in VLLM, Mended(d)
             PROVE  Repaired(d)
  OBVIOUS
<1> DEFINE R == ReadyPods(d)
           W == ReadyPods(Target[d])
<1>1. /\ R = Ready(phase, d) /\ W = Ready(phase, Target[d])
      /\ R \subseteq Pods /\ W \subseteq Pods
      /\ \A p \in R : Owner[p] = d /\ phase[p] = "ready"
      /\ \A p \in W : Owner[p] = Target[d] /\ phase[p] = "ready"
  BY DEF ReadyPods, PodsOf, Ready
<1>2. IsFiniteSet(R) /\ IsFiniteSet(W)
  BY <1>1, PairingAssumption, FS_Subset
<1> HIDE DEF R, W
<1>3. /\ \A p \in R \cup W : label[p] = NoId \/ InPair(label, R, W, p)
      /\ \/ \A m \in R : InPair(label, R, W, m)
         \/ \A v \in W : InPair(label, R, W, v)
  BY <1>1 DEF Mended, Mends
<1>4. \A m \in R, v \in W : HealthyPair(m, v) <=> label[m] # NoId /\ label[m] = label[v]
  BY <1>1 DEF HealthyPair
<1>5. /\ \A p, q \in R : label[p] # NoId /\ label[p] = label[q] => p = q
      /\ \A p, q \in W : label[p] # NoId /\ label[p] = label[q] => p = q
  BY <1>1, PairingAssumption DEF OneToOneInv, OneToOne
<1>6. \A p \in R \cup W : label[p] # NoId => \E q \in Pods : HealthyPair(p, q) \/ HealthyPair(q, p)
  <2> SUFFICES ASSUME NEW p \in R \cup W, label[p] # NoId
               PROVE  \E q \in Pods : HealthyPair(p, q) \/ HealthyPair(q, p)
    OBVIOUS
  <2>1. PICK m \in R, v \in W : p \in {m, v} /\ label[m] = label[v]
    BY <1>3 DEF InPair
  <2>2. HealthyPair(m, v) /\ m \in Pods /\ v \in Pods
    BY <1>1, <1>4, <2>1
  <2>. QED BY <2>1, <2>2
<1>7. Paired(d) = {m \in R : \E v \in W : HealthyPair(m, v)}
  BY DEF Paired, R, W
<1>8. CASE \A m \in R : InPair(label, R, W, m)
  <2>1. ASSUME NEW m \in R PROVE \E v \in W : HealthyPair(m, v)
    <3>1. PICK n \in R, v \in W : m \in {n, v} /\ label[n] = label[v] /\ label[m] # NoId
      BY <1>8 DEF InPair
    <3>2. HealthyPair(n, v) /\ n = m
      BY <1>4, <1>5, <3>1
    <3>. QED BY <3>2
  <2>2. Paired(d) = R
    BY <1>7, <2>1
  <2>. QED BY <1>6, <2>2 DEF Repaired, R, W
<1>9. CASE \A v \in W : InPair(label, R, W, v)
  <2>1. ASSUME NEW v \in W PROVE \E m \in R : HealthyPair(m, v)
    <3>1. PICK m \in R, w \in W : v \in {m, w} /\ label[m] = label[w] /\ label[v] # NoId
      BY <1>9 DEF InPair
    <3>2. HealthyPair(m, w) /\ w = v
      BY <1>4, <1>5, <3>1
    <3>. QED BY <3>2
  <2> DEFINE mate == [v \in W |-> CHOOSE m \in R : HealthyPair(m, v)]
  <2>2. \A v \in W : mate[v] \in R /\ HealthyPair(mate[v], v)
    BY <2>1
  <2>3. mate \in [W -> Paired(d)]
    BY <1>7, <2>2
  <2> HIDE DEF mate
  <2>4. ASSUME NEW v \in W, NEW w \in W, mate[v] = mate[w] PROVE v = w
    BY <1>4, <1>5, <2>2, <2>4
  <2>5. ASSUME NEW m \in Paired(d) PROVE \E v \in W : mate[v] = m
    <3>1. PICK v \in W : m \in R /\ HealthyPair(m, v)
      BY <1>7
    <3>2. label[mate[v]] = label[m] /\ label[m] # NoId /\ mate[v] \in R
      BY <1>4, <2>2, <3>1
    <3>. QED BY <1>5, <3>1, <3>2
  <2>6. mate \in Bijection(W, Paired(d))
    BY <2>3, <2>4, <2>5 DEF Bijection, Injection, Surjection, IsInjective
  <2>7. ExistsBijection(W, Paired(d))
    BY <2>6 DEF ExistsBijection
  <2>8. Cardinality(Paired(d)) = Cardinality(W)
    BY <1>2, <2>7, FS_Bijection
  <2>. QED BY <1>6, <2>8 DEF Repaired, R, W
<1>. QED BY <1>3, <1>8, <1>9

\* While nothing is touched, the listing of the managed pods is still true and the
\* rest of the plan mends what the Ready pods carry.
RepairPlan ==
    touched = {} =>
        /\ pc = "listV" => mPods = ListOwnedReadyPods(cur)
        /\ pc \in {"prune", "bindM"} =>
               Mends(label, Ready(phase, cur), Ready(phase, Target[cur]), prunes, binds, {})
        /\ pc \in {"bindM", "bindV"} => prunes = {}
        /\ pc = "bindV" => \A b \in binds : IsNextBinding(b) =>
               /\ label[b.m] = uuid
               /\ Mends(label, Ready(phase, cur), Ready(phase, Target[cur]), {}, binds, {b.m})

\* the step that ends a pass leaves nothing to mend
PassMends ==
    \A d \in Managed :
        /\ d = cur /\ InPass
        /\ pc' \in {"idle", "next"} /\ touched' = {}
        => Mended(d)'

LEMMA ContinueRepairs ==
    ASSUME NEW ps, NEW bs, Continue(ps, bs),
           touched' = {} =>
               Mends(label', Ready(phase', cur), Ready(phase', Target[cur]), ps, bs, {})
    PROVE  RepairPlan' /\ PassMends
<1>1. CASE ps = {} /\ bs = {}
  <2>1. pc' \in {"idle", "next"}
    BY <1>1 DEF Continue, Return
  <2>. QED BY <1>1, <2>1 DEF RepairPlan, PassMends, Mended
<1>2. CASE ~ (ps = {} /\ bs = {})
  <2>1. /\ pc' = IF ps # {} THEN "prune" ELSE "bindM"
        /\ prunes' = ps /\ binds' = bs /\ cur' = cur
    BY <1>2 DEF Continue
  <2>. QED BY <2>1 DEF RepairPlan, PassMends
<1>. QED BY <1>1, <1>2

LEMMA RepairReconcile ==
    ASSUME OneToOneInv, RepairPlan, Reconcile
    PROVE  RepairPlan' /\ PassMends
<1>0. TypeOK /\ OneToOne /\ PlanAligned /\ UuidHalfBound
  BY DEF OneToOneInv
<1> DEFINE R == Ready(phase, cur)
           W == Ready(phase, Target[cur])
\* in a pass there is a Deployment at hand, and its two sides are apart
<1>a. ASSUME InPass
      PROVE  /\ cur \in Managed /\ Target[cur] \in VLLM
             /\ R \subseteq Pods /\ W \subseteq Pods /\ R \cap W = {}
             /\ \A p \in R \cup W : Alive(p)
  <2>1. cur \in Managed /\ Target[cur] \in VLLM
    BY <1>0, <1>a DEF InPass, PlanAligned, TypeOK
  <2>. QED BY <2>1, PairingAssumption DEF Ready, Alive
<1> HIDE DEF R, W
\* outside a pass there is nothing to show
<1>b. ASSUME ~ InPass, pc' \in {"idle", "next", "get", "scale", "listM"}
      PROVE  RepairPlan' /\ PassMends
  BY <1>b DEF RepairPlan, PassMends
<1>1. CASE ReconcileAll
  BY <1>1, <1>b DEF ReconcileAll, InPass
<1>2. CASE GetVLLM
  BY <1>2, <1>b DEF GetVLLM, InPass
<1>3. CASE SetDeploymentReplicas
  BY <1>3, <1>b DEF SetDeploymentReplicas, Return, InPass
<1>4. CASE ListManaged
  <2>1. pc = "listM" /\ pc' = "listV" /\ mPods' = ListOwnedReadyPods(cur) /\ cur' = cur
        /\ phase' = phase /\ label' = label
    BY <1>4 DEF ListManaged, cluster
  <2>2. mPods' = ListOwnedReadyPods(cur)'
    BY <2>1 DEF ListOwnedReadyPods, ReadyPods, PodsOf
  <2>. QED BY <2>1, <2>2 DEF RepairPlan, PassMends, InPass
<1>5. CASE ListVLLM
  <2> DEFINE vPods == ListOwnedReadyPods(Target[cur])
  <2>1. /\ pc = "listV" /\ UNCHANGED <<phase, label, touched>>
        /\ Continue(Prunes(mPods, vPods), Bindings(mPods, vPods))
    BY <1>5 DEF ListVLLM, cluster
  <2>2. touched = {} => mPods = ListOwnedReadyPods(cur)
    BY <2>1 DEF RepairPlan
  <2>3. touched' = {} => Mends(label', Ready(phase', cur), Ready(phase', Target[cur]),
                               Prunes(mPods, vPods), Bindings(mPods, vPods), {})
    BY <1>0, <1>a, <2>1, <2>2, PlanMends DEF InPass
  <2> HIDE DEF vPods
  <2>. QED BY <2>1, <2>3, ContinueRepairs
<1>6. ASSUME NEW d \in Managed, ReconcileOne(d) PROVE RepairPlan' /\ PassMends
  BY <1>6, <1>b DEF ReconcileOne, InPass
<1>7. ASSUME NEW x \in Pods, RemovePodLabel(x) PROVE RepairPlan' /\ PassMends
  <2>1. /\ pc = "prune" /\ x \in prunes /\ UNCHANGED <<phase, touched>>
        /\ Continue(prunes \ {x}, binds)
        /\ \A p \in Pods : label'[p] = IF p = x THEN NoId ELSE label[p]
    BY <1>0, <1>7 DEF RemovePodLabel, TypeOK
  <2>2. ASSUME touched' = {} PROVE Mends(label', R, W, prunes \ {x}, binds, {})
    <3>1. Mends(label, R, W, prunes, binds, {})
      BY <2>1, <2>2 DEF RepairPlan, R, W
    <3>2. R \cup W \subseteq Pods
      BY <1>a, <2>1 DEF InPass
    <3>3. label'[x] = NoId /\ \A p \in R \cup W : p # x => label'[p] = label[p]
      BY <2>1, <3>2
    <3>. QED BY <2>1, <3>1, <3>3, PruneMends
  <2>. QED BY <2>1, <2>2, ContinueRepairs DEF R, W
<1>8. ASSUME NEW b \in binds, BindManaged(b) PROVE RepairPlan' /\ PassMends
  <2>1. pc = "bindM" /\ UNCHANGED <<phase, touched>> /\ InPass
    BY <1>8 DEF BindManaged, InPass
  <2>2. CASE touched # {}
    BY <2>1, <2>2 DEF RepairPlan, PassMends
  <2>3. CASE touched = {}
    <3>1. Mends(label, R, W, {}, binds, {}) /\ prunes = {}
      BY <2>1, <2>3 DEF RepairPlan, R, W
    <3>2. b.m \in R /\ Alive(b.m)
      BY <1>a, <2>1, <3>1 DEF Mends
    <3>3. /\ pc' = "bindV" /\ UNCHANGED <<cur, prunes, binds>>
          /\ \A p \in Pods : label'[p] = IF p = b.m THEN uuid' ELSE label[p]
      BY <1>0, <1>8, <3>2 DEF BindManaged, TypeOK
    <3>4. R \cup W \subseteq Pods /\ R \cap W = {}
      BY <1>a, <2>1
    <3>5. Mends(label', R, W, {}, binds, {b.m})
      <4>1. \A p \in R \cup W : p # b.m => label'[p] = label[p]
        BY <3>3, <3>4
      <4>. QED BY <3>1, <3>4, <4>1, FirstHalfMends
    <3>6. label'[b.m] = uuid'
      BY <3>2, <3>3, <3>4
    <3>7. \A c \in binds : IsNextBinding(c) => c = b
      <4>1. \A c \in binds : c # b => c.pos # b.pos
        BY <3>1 DEF Mends
      <4>2. \A c \in binds : c.pos \in Nat
        BY <3>1 DEF Mends
      <4>3. IsNextBinding(b)
        BY <1>8 DEF BindManaged
      <4>. QED BY <4>1, <4>2, <4>3 DEF IsNextBinding
    <3>. QED BY <2>1, <3>1, <3>3, <3>5, <3>6, <3>7
             DEF RepairPlan, PassMends, R, W, IsNextBinding
  <2>. QED BY <2>2, <2>3
<1>9. ASSUME NEW b \in binds, BindVLLM(b) PROVE RepairPlan' /\ PassMends
  <2>1. /\ pc = "bindV" /\ UNCHANGED <<phase, touched>> /\ InPass /\ IsNextBinding(b)
        /\ Continue({}, binds \ {b})
    BY <1>9 DEF BindVLLM, InPass
  <2>2. ASSUME touched' = {} PROVE Mends(label', R, W, {}, binds \ {b}, {})
    <3>1. Mends(label, R, W, {}, binds, {b.m}) /\ label[b.m] = uuid /\ uuid # NoId
      BY <1>0, <2>1, <2>2 DEF RepairPlan, R, W, UuidHalfBound
    <3>2. b.v \in W /\ Alive(b.v)
      BY <1>a, <2>1, <3>1 DEF Mends
    <3>3. \A p \in Pods : label'[p] = IF p = b.v THEN label[b.m] ELSE label[p]
      BY <1>0, <1>9, <3>1, <3>2 DEF BindVLLM, TypeOK
    <3>4. R \cup W \subseteq Pods /\ R \cap W = {}
      BY <1>a, <2>1
    <3>5. /\ label'[b.v] = label[b.m]
          /\ \A p \in R \cup W : p # b.v => label'[p] = label[p]
      BY <3>2, <3>3, <3>4
    <3>. QED BY <3>1, <3>4, <3>5, SecondHalfMends
  <2>. QED BY <2>1, <2>2, ContinueRepairs DEF R, W
<1>. QED BY <1>1, <1>2, <1>3, <1>4, <1>5, <1>6, <1>7, <1>8, <1>9 DEF Reconcile

LEMMA RepairFault ==
    ASSUME OneToOneInv, Fault PROVE RepairPlan' /\ PassMends
\* the outcome of a failed patch is unknown
<1>a. ASSUME touched' # {} PROVE RepairPlan' /\ PassMends
  BY <1>a DEF RepairPlan, PassMends
\* a pass that is given up has touched all pods, if there are any
<1>b. ASSUME touched' = Pods, pc' \in {"idle", "next"} PROVE RepairPlan' /\ PassMends
  <2>1. CASE Pods # {}
    BY <1>a, <1>b, <2>1
  <2>2. CASE Pods = {}
    <3>1. \A d : Mended(d)'
      BY <2>2 DEF Mended, Mends, Ready
    <3>. QED BY <1>b, <3>1 DEF RepairPlan, PassMends
  <2>. QED BY <2>1, <2>2
<1>1. CASE ReadFails
  BY <1>1, <1>b DEF ReadFails, Return
<1>2. CASE ScaleFails
  BY <1>2 DEF ScaleFails, Return, RepairPlan, PassMends, InPass
<1>3. CASE Restart
  BY <1>3, <1>b DEF Restart
<1>4. ASSUME NEW p \in Pods, PruneFails(p) PROVE RepairPlan' /\ PassMends
  BY <1>4, <1>a DEF PruneFails
<1>5. ASSUME NEW b \in binds, BindManagedFails(b) PROVE RepairPlan' /\ PassMends
  BY <1>5, <1>a DEF BindManagedFails
<1>6. ASSUME NEW b \in binds, BindVLLMFails(b) PROVE RepairPlan' /\ PassMends
  BY <1>6, <1>a DEF BindVLLMFails
<1>. QED BY <1>1, <1>2, <1>3, <1>4, <1>5, <1>6 DEF Fault

LEMMA RepairUnseen ==
    ASSUME RepairPlan, UNCHANGED <<local, label, touched>>,
           \A d : Ready(phase', d) = Ready(phase, d)
    PROVE  RepairPlan' /\ PassMends
<1>1. UNCHANGED <<pc, cur, mPods, prunes, binds, uuid>>
  BY DEF local, plan
<1>2. ListOwnedReadyPods(cur)' = ListOwnedReadyPods(cur)
  <2>1. ReadyPods(cur)' = ReadyPods(cur)
    BY <1>1 DEF ReadyPods, PodsOf, Ready
  <2>. QED BY <2>1 DEF ListOwnedReadyPods
<1>. QED BY <1>1, <1>2 DEF RepairPlan, PassMends, InPass, IsNextBinding

LEMMA RepairEnvironment ==
    ASSUME TypeOK, RepairPlan, Kubernetes \/ Disturbance
    PROVE  RepairPlan' /\ PassMends
<1>1. ASSUME NEW x \in Pods, UNCHANGED local, Touch(x) PROVE RepairPlan' /\ PassMends
  <2>1. pc' = pc
    BY <1>1 DEF local
  <2>2. CASE InPass
    BY <1>1, <2>2 DEF Touch, RepairPlan, PassMends
  <2>3. CASE ~ InPass
    BY <2>1, <2>3 DEF RepairPlan, PassMends, InPass
  <2>. QED BY <2>2, <2>3
<1>2. ASSUME NEW p \in Pods, CreatePod(p) PROVE RepairPlan' /\ PassMends
  <2>1. phase[p] = "new" /\ phase' = [phase EXCEPT ![p] = "notReady"]
        /\ UNCHANGED <<local, label, touched>>
    BY <1>2 DEF CreatePod
  <2>2. \A d : Ready(phase', d) = Ready(phase, d)
    BY <2>1 DEF Ready, TypeOK
  <2>. QED BY <2>1, <2>2, RepairUnseen
<1>3. ASSUME NEW p \in Pods, BecomeReady(p) \/ LoseReady(p) PROVE RepairPlan' /\ PassMends
  BY <1>1, <1>3 DEF BecomeReady, LoseReady
<1>4. ASSUME NEW p \in Pods, DeletePod(p) \/ StripLabel(p) PROVE RepairPlan' /\ PassMends
  BY <1>1, <1>4 DEF DeletePod, StripLabel
<1>5. ASSUME NEW d \in Deployments, NEW n \in 0..MaxReplicas, Rescale(d, n)
      PROVE  RepairPlan' /\ PassMends
  BY <1>5, RepairUnseen DEF Rescale
<1>. QED BY <1>2, <1>3, <1>4, <1>5 DEF Kubernetes, Disturbance, ScaleDown

\* A pass in which nothing is touched leaves no orphaned id on a Ready pod, and no two
\* Ready pods unpaired that could be paired.
THEOREM UndisturbedPassRepairs == Spec => OnePassRepairs
<1> DEFINE Ends == \A d \in Managed :
                       /\ d = cur /\ InPass
                       /\ pc' \in {"idle", "next"} /\ touched' = {}
                       => Repaired(d)'
           Done == \A d \in Managed : Target[d] \in VLLM /\ Mended(d) => Repaired(d)
<1>1. Init => RepairPlan
  BY DEF Init, RepairPlan
<1>2. OneToOneInv /\ RepairPlan /\ [Next]_vars => RepairPlan' /\ [PassMends]_vars
  <2> SUFFICES ASSUME OneToOneInv, RepairPlan, [Next]_vars PROVE RepairPlan' /\ [PassMends]_vars
    OBVIOUS
  <2>1. CASE UNCHANGED vars
    BY <2>1, RepairUnseen DEF vars, cluster
  <2>2. CASE Next
    BY <2>2, RepairReconcile, RepairFault, RepairEnvironment DEF Next, OneToOneInv
  <2>. QED BY <2>1, <2>2
<1>3. OneToOneInv => Done
  BY MendedIsRepaired
<1>4. OneToOneInv /\ Done' /\ [PassMends]_vars => [Ends]_vars
  <2> SUFFICES ASSUME OneToOneInv, Done', PassMends,
                      NEW d \in Managed, d = cur, InPass, pc' \in {"idle", "next"}, touched' = {}
               PROVE  Repaired(d)'
    OBVIOUS
  <2>1. Target[d] \in VLLM
    BY PairingAssumption DEF OneToOneInv, PlanAligned, InPass
  <2>2. Mended(d)'
    BY DEF PassMends
  <2>. QED BY <2>1, <2>2
<1>5. OnePassRepairs <=> [][Ends]_vars
  BY DEF OnePassRepairs
<1> HIDE DEF Ends, Done
<1>. QED BY <1>1, <1>2, <1>3, <1>4, <1>5, OneToOneInvariant, PTL DEF Spec

-----------------------------------------------------------------------------
(***************************************************************************)
(* Refinement.  The reconciler implements PodMatching: seen through the    *)
(* pair-id labels, each of its steps, of the faults and of the cluster's   *)
(* is a step of a matching or changes nothing.                             *)
(***************************************************************************)

\* x loses its label, or gets one that no pod carries
Unmatched(x) ==
    /\ x \in Pods
    /\ \A p \in Pods \ {x} : label'[p] = label[p]
    /\ label'[x] = NoId \/ \A p \in Pods \ {x} : label[p] # label'[x]

LEMMA UnmatchedIsUnmatch ==
    ASSUME \E x : Unmatched(x)
    PROVE  Matching!Next
<1>1. PICK x : Unmatched(x)
  OBVIOUS
<1>2. x \in ManagedPods \cup EnginePods /\ ManagedPods \cap EnginePods = {}
  BY <1>1 DEF Unmatched, ManagedPods, EnginePods
<1>3. matching' = {b \in matching : b[1] # x /\ b[2] # x}
  <2>1. ASSUME NEW b \in matching', b[1] = x \/ b[2] = x PROVE FALSE
    BY <1>1, <1>2, <2>1 DEF matching, Unmatched, ManagedPods, EnginePods
  <2>2. ASSUME NEW b \in ManagedPods \X EnginePods, b[1] # x, b[2] # x
        PROVE  b \in matching <=> b \in matching'
    BY <1>1, <2>2 DEF matching, Unmatched, ManagedPods, EnginePods
  <2>. QED BY <2>1, <2>2 DEF matching, ManagedPods, EnginePods
<1>. QED BY <1>2, <1>3 DEF Matching!Next, Matching!Unmatch, Matching!Without

\* v is given the id of the half-bound managed pod m
Matched(m, v) ==
    /\ m \in ManagedPods /\ v \in EnginePods /\ Owner[v] = Target[Owner[m]]
    /\ label' = [label EXCEPT ![v] = label[m]] /\ label[m] # NoId
    /\ \A p \in Pods : label[p] = label[m] => p = m

LEMMA MatchedIsMatch ==
    ASSUME TypeOK, \E m, v : Matched(m, v)
    PROVE  Matching!Next
<1>1. PICK m, v : Matched(m, v)
  OBVIOUS
<1>2. m \in Pods /\ v \in Pods /\ m # v
  BY <1>1 DEF Matched, ManagedPods, EnginePods
<1>3. \A p \in Pods : label'[p] = IF p = v THEN label[m] ELSE label[p]
  BY <1>1, <1>2 DEF Matched, TypeOK
<1>4. matching' = {b \in matching : b[1] # m /\ b[2] # m /\ b[1] # v /\ b[2] # v} \cup {<<m, v>>}
  <2>1. <<m, v>> \in matching'
    BY <1>1, <1>2, <1>3 DEF matching, Matched, ManagedPods, EnginePods
  <2>2. ASSUME NEW b \in ManagedPods \X EnginePods, b # <<m, v>>
        PROVE  b \in matching' <=>
                   b \in matching /\ b[1] # m /\ b[2] # m /\ b[1] # v /\ b[2] # v
    <3>1. b[1] \in Pods /\ b[2] \in Pods /\ b[1] # v /\ b[2] # m /\ (b[1] # m \/ b[2] # v)
      BY <1>1, <2>2 DEF Matched, ManagedPods, EnginePods
    <3>. QED BY <1>1, <1>2, <1>3, <2>2, <3>1 DEF matching, Matched
  <2>3. matching' \subseteq ManagedPods \X EnginePods /\ matching \subseteq ManagedPods \X EnginePods
    BY DEF matching, ManagedPods, EnginePods
  <2>. QED BY <2>1, <2>2, <2>3
<1>5. Matching!Match(m, v)
  BY <1>1, <1>4 DEF Matching!Match, Matching!Without, MayMate, Matched
<1>. QED BY <1>1, <1>5 DEF Matching!Next, Matched

\* the steps of the abstract specification, and those that it does not see
MatchingStep == Matching!Next \/ UNCHANGED matching

LEMMA SameLabels == UNCHANGED label => UNCHANGED matching
BY DEF matching, ManagedPods, EnginePods

LEMMA LabelCleared ==
    ASSUME TypeOK, NEW x \in Pods, label' \in {label, [label EXCEPT ![x] = NoId]}
    PROVE  MatchingStep
<1>1. CASE UNCHANGED label
  BY <1>1, SameLabels DEF MatchingStep
<1>2. CASE label' = [label EXCEPT ![x] = NoId]
  <2>1. Unmatched(x)
    BY <1>2 DEF TypeOK, Unmatched
  <2>. QED BY <2>1, UnmatchedIsUnmatch DEF MatchingStep
<1>. QED BY <1>1, <1>2

LEMMA FreshLabel ==
    ASSUME TypeOK, NEW x \in Pods, \E id \in Ids \ UsedIds : label' = [label EXCEPT ![x] = id]
    PROVE  MatchingStep
<1>1. PICK id \in Ids \ UsedIds : label' = [label EXCEPT ![x] = id]
  OBVIOUS
<1>2. \A p \in Pods : label[p] # id
  BY NoIdAssumption DEF UsedIds
<1>3. Unmatched(x)
  BY <1>1, <1>2 DEF TypeOK, Unmatched
<1>. QED BY <1>3, UnmatchedIsUnmatch DEF MatchingStep

\* the second patch of a binding completes the pair, unless its first half is gone
LEMMA SecondPatch ==
    ASSUME OneToOneInv, pc = "bindV", NEW b \in binds,
           label' \in {label, [label EXCEPT ![b.v] = uuid]}
    PROVE  MatchingStep
<1>0. TypeOK /\ PlanAligned /\ UuidHalfBound
  BY DEF OneToOneInv
<1>1. /\ cur \in Managed /\ Target[cur] \in VLLM
      /\ b.v \in Pods /\ Owner[b.v] = Target[cur] /\ b.v \in EnginePods
  BY <1>0, PairingAssumption DEF PlanAligned, TypeOK, EnginePods, ManagedPods
<1>2. CASE UNCHANGED label
  BY <1>2, SameLabels DEF MatchingStep
<1>3. CASE label' = [label EXCEPT ![b.v] = uuid] /\ \A p \in Pods : label[p] # uuid
  <2>1. Unmatched(b.v)
    BY <1>0, <1>1, <1>3 DEF TypeOK, Unmatched
  <2>. QED BY <2>1, UnmatchedIsUnmatch DEF MatchingStep
<1>4. CASE label' = [label EXCEPT ![b.v] = uuid] /\ \E p \in Pods : label[p] = uuid
  <2>1. PICK m \in Pods : label[m] = uuid
    BY <1>4
  <2>2. Owner[m] = cur /\ uuid # NoId /\ \A p \in Pods : label[p] = uuid => p = m
    BY <1>0, <2>1 DEF UuidHalfBound
  <2>3. Matched(m, b.v)
    BY <1>1, <1>4, <2>1, <2>2 DEF Matched, ManagedPods
  <2>. QED BY <1>0, <2>3, MatchedIsMatch DEF MatchingStep
<1>. QED BY <1>2, <1>3, <1>4

LEMMA StepRefines == OneToOneInv /\ [Next]_vars => MatchingStep
<1> SUFFICES ASSUME OneToOneInv, [Next]_vars PROVE MatchingStep
  OBVIOUS
<1>0. TypeOK
  BY DEF OneToOneInv
<1>1. CASE UNCHANGED label
  BY <1>1, SameLabels DEF MatchingStep
<1>2. ASSUME NEW p \in Pods, RemovePodLabel(p) \/ PruneFails(p) \/ DeletePod(p) \/ StripLabel(p)
      PROVE  MatchingStep
  BY <1>0, <1>2, LabelCleared DEF RemovePodLabel, PruneFails, DeletePod, StripLabel
<1>3. ASSUME NEW b \in binds, BindManaged(b) \/ BindManagedFails(b) PROVE MatchingStep
  <2>1. b.m \in Pods
    BY <1>0 DEF TypeOK
  <2>2. CASE UNCHANGED label
    BY <2>2, <1>1
  <2>3. CASE \E id \in Ids \ UsedIds : label' = [label EXCEPT ![b.m] = id]
    BY <1>0, <2>1, <2>3, FreshLabel
  <2>4. BindManaged(b) => UNCHANGED label
                          \/ \E id \in Ids \ UsedIds : label' = [label EXCEPT ![b.m] = id]
    BY DEF BindManaged
  <2>5. BindManagedFails(b) => UNCHANGED label
                          \/ \E id \in Ids \ UsedIds : label' = [label EXCEPT ![b.m] = id]
    BY DEF BindManagedFails
  <2>. QED BY <1>3, <2>2, <2>3, <2>4, <2>5
<1>4. ASSUME NEW b \in binds, BindVLLM(b) \/ BindVLLMFails(b) PROVE MatchingStep
  BY <1>4, SecondPatch DEF BindVLLM, BindVLLMFails
<1>5. CASE UNCHANGED vars
  BY <1>1, <1>5 DEF vars, cluster
<1>6. CASE Reconcile
  BY <1>1, <1>2, <1>3, <1>4, <1>6
     DEF Reconcile, ReconcileAll, ReconcileOne, GetVLLM, SetDeploymentReplicas, ListManaged,
         ListVLLM, cluster
<1>7. CASE Fault
  BY <1>1, <1>2, <1>3, <1>4, <1>7 DEF Fault, ReadFails, ScaleFails, Restart, cluster
<1>8. CASE Kubernetes
  BY <1>1, <1>2, <1>8 DEF Kubernetes, CreatePod, BecomeReady, ScaleDown
<1>9. CASE Disturbance
  BY <1>1, <1>2, <1>9 DEF Disturbance, LoseReady, Rescale
<1>. QED BY <1>5, <1>6, <1>7, <1>8, <1>9 DEF Next

\* The reconciler, with all its faults and whatever the cluster does, implements the
\* abstract matching: evaluators never see an engine shared or a pair half made.
THEOREM ImplementsMatching == Spec => RefinesMatching
<1>1. Init => Matching!Init
  BY DEF Init, Matching!Init, matching, ManagedPods
<1>2. OneToOneInv /\ [Next]_vars => [Matching!Next]_matching
  BY StepRefines DEF MatchingStep
<1>. QED BY <1>1, <1>2, OneToOneInvariant, PTL DEF Spec, RefinesMatching, Matching!Spec

=============================================================================
