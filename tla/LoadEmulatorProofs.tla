------------------------- MODULE LoadEmulatorProofs -------------------------
(***************************************************************************)
(* Type correctness of the Load Emulator and its two safety properties,    *)
(* for any Deployments, pods, allocations, rates and multipliers.          *)
(*                                                                         *)
(* What the emulator read of an object is what the object has, unless it   *)
(* was changed since, so that writing the whole object back undoes         *)
(* nothing; and the nominal rate it read of a Deployment is one that an    *)
(* operator set, because it never writes another.                          *)
(***************************************************************************)
EXTENDS LoadEmulator, TLAPS

Coherent == \A o \in Objects \ stale : read[o].alloc = alloc[o]

Nominal ==
    /\ \A d \in Deps : nominal[d] \in Nominals
    /\ pc # "list" => \A d \in Deps : read[d].nominal \in Nominals

IInv == TypeOK /\ LastPatchStands /\ Coherent /\ Nominal /\ BaselineIsNominal

\* The clamps of the random walk return natural numbers.
LEMMA ClampType ==
    ASSUME NEW x \in Int, NEW n \in Nat
    PROVE  Clamp(x, n) \in Nat /\ ClampTokens(x, n) \in Nat
<1> RangeFactor \in Nat /\ RangeFactor > 0
    BY LoadEmulatorAssumption
<1>1. ASSUME NEW a \in Int, NEW b \in Int
      PROVE  /\ Max({a, b}) \in Int /\ Max({a, b}) >= b
             /\ (a >= 0 /\ b >= 0 => Min({a, b}) \in Nat)
    <2>1. \E m \in {a, b} : \A y \in {a, b} : m >= y
        OBVIOUS
    <2>2. Max({a, b}) \in {a, b} /\ \A y \in {a, b} : Max({a, b}) >= y
        BY <2>1 DEF Max
    <2>3. \E m \in {a, b} : \A y \in {a, b} : m <= y
        OBVIOUS
    <2>4. Min({a, b}) \in {a, b}
        BY <2>3 DEF Min
    <2>5. QED
        BY <2>2, <2>4
<1>2. ASSUME NEW least \in Nat, NEW most \in Nat PROVE Min({Max({x, least}), most}) \in Nat
    <2>1. least \in Int /\ most \in Int /\ least >= 0 /\ most >= 0
        OBVIOUS
    <2>2. Max({x, least}) \in Int /\ Max({x, least}) >= least
        BY <1>1, <2>1, Zenon
    <2>3. Max({x, least}) >= 0
        BY <2>1, <2>2
    <2>4. QED
        BY <1>1, <2>1, <2>2, <2>3, Zenon
<1>3. n * RangeFactor \in Nat /\ n \div RangeFactor \in Nat
    OBVIOUS
<1>4. Clamp(x, n) \in Nat
    BY <1>2, <1>3, Zenon DEF Clamp
<1>5. ClampTokens(x, n) \in Nat
    <2>1. n + RangeFactor - 1 \in Nat
        OBVIOUS
    <2>2. (n + RangeFactor - 1) \div RangeFactor \in Int /\ Floor \in Int /\ Floor >= 0
        BY <2>1 DEF Floor
    <2> DEFINE least == Max({(n + RangeFactor - 1) \div RangeFactor, Floor})
    <2>3. least \in Int /\ least >= Floor
        BY <1>1, <2>2, Zenon
    <2> HIDE DEF least
    <2>4. least \in Nat
        BY <2>2, <2>3
    <2>5. QED
        BY <1>2, <1>3, <2>4, Zenon DEF ClampTokens, least
<1>6. QED
    BY <1>4, <1>5

\* Every step keeps the invariant.
LEMMA Step == IInv /\ [Next]_vars => IInv'
<1> SUFFICES ASSUME IInv, [Next]_vars PROVE IInv'
    OBVIOUS
<1> USE LoadEmulatorAssumption
<1>y. TypeOK /\ LastPatchStands /\ Coherent /\ Nominal /\ BaselineIsNominal
    BY DEF IInv
<1>o. Deps \subseteq Objects /\ Pods \subseteq Objects /\ current \in Deps
    BY <1>y DEF Objects, TypeOK
<1>n. ASSUME NextDeployment
      PROVE  /\ todo' \subseteq Deps /\ current' \in Deps \ todo'
             /\ pc' \in {"list", "update"}
             /\ pc' # "list" => pc = "update" \/ todo # {}
    BY <1>n, <1>y DEF NextDeployment, TypeOK
<1>c. ASSUME pc = "update", Capture(current)
      PROVE  /\ baseline' \in [Deps -> Nat \cup {Unset}] /\ baseline'[current] \in Nat
             /\ BaselineIsNominal'
    <2>1. read[current].nominal \in Nominals /\ Nominals \subseteq Nat
        BY <1>c, <1>y, <1>o DEF Nominal
    <2>2. QED
        BY <1>c, <1>y, <1>o, <2>1 DEF Capture, BaselineIsNominal, TypeOK
<1>s. ASSUME pc = "update", SkipDeployment, churn' \in 0..MaxChurn PROVE IInv'
    <2>1. TypeOK'
        BY <1>s, <1>y, <1>c, <1>n DEF SkipDeployment, TypeOK, api
    <2>2. QED
        BY <1>s, <1>y, <1>c, <2>1 DEF SkipDeployment, IInv, LastPatchStands, Coherent, Nominal, api
<1>w. ASSUME NEW p \in DOMAIN shares, pc = "write", Written(p)
      PROVE  /\ todo' \subseteq Deps /\ current' \in Deps \ todo'
             /\ pc' \in {"list", "update", "write"}
             /\ DOMAIN shares' \subseteq {q \in Pods : Owner[q] = current'}
             /\ \A q \in DOMAIN shares' : shares'[q] \in Nat
             /\ pc' # "write" => DOMAIN shares' = {}
    <2>1. /\ DOMAIN shares' = DOMAIN shares \ {p}
          /\ \A q \in DOMAIN shares' : shares'[q] = shares[q]
        BY <1>w DEF Written, Restrict
    <2>2. CASE DOMAIN shares \ {p} = {} /\ NextDeployment
        BY <2>1, <2>2, <1>n
    <2>3. CASE DOMAIN shares \ {p} # {} /\ UNCHANGED <<pc, todo, current>>
        BY <2>1, <2>3, <1>w, <1>y DEF TypeOK
    <2>4. QED
        BY <1>w, <2>2, <2>3 DEF Written
<1>1. ASSUME List, Calm PROVE IInv'
    <2>1. /\ read' \in [Objects -> [alloc : Allocations, nominal : Nat \cup {Unset}]]
          /\ \A d \in Deps : read'[d].nominal = nominal[d] /\ read'[d].alloc = alloc[d]
          /\ \A q \in Objects \ Deps : read'[q] = read[q]
        BY <1>1, <1>y, <1>o DEF List, TypeOK
    <2>2. TypeOK'
        BY <1>1, <1>y, <2>1 DEF List, Calm, TypeOK, api
    <2>3. Coherent'
        BY <1>1, <1>y, <2>1 DEF List, Coherent, api
    <2>4. QED
        BY <1>1, <1>y, <2>1, <2>2, <2>3 DEF List, IInv, LastPatchStands, Nominal, BaselineIsNominal, api
<1>2. ASSUME UpdateDeployment, Calm PROVE IInv'
    <2>1. pc = "update" /\ current \notin stale /\ Capture(current)
        BY <1>2 DEF UpdateDeployment
    <2>2. baseline'[current] * mult \in Nat
        <3>1. mult \in Nat
            BY <1>y DEF TypeOK
        <3>2. QED
            BY <2>1, <3>1, <1>c
    <2>3. rate' \in [Objects -> Nat] /\ tokens' \in [Objects -> Nat]
        <3>1. \A r \in NewRates(current) : r \in Nat
            BY <2>2, ClampType DEF NewRates
        <3>2. \A n \in NewTokens(current) : n \in Nat
            BY <1>o, ClampType DEF NewTokens
        <3>3. QED
            BY <1>2, <1>y, <3>1, <3>2 DEF UpdateDeployment, TypeOK
    <2>4. alloc' = alloc
        <3>1. read[current].alloc = alloc[current]
            BY <2>1, <1>y, <1>o DEF Coherent
        <3>2. QED
            BY <1>2, <1>y, <3>1 DEF UpdateDeployment, TypeOK
    <2>5. nominal' \in [Deps -> Nat] /\ \A d \in Deps : nominal'[d] \in Nominals
        <3>1. read[current].nominal \in Nominals /\ Nominals \subseteq Nat
            BY <2>1, <1>y, <1>o DEF Nominal
        <3>2. QED
            BY <1>2, <1>y, <1>o, <3>1 DEF UpdateDeployment, Nominal, TypeOK
    <2>6. TypeOK'
        BY <1>2, <1>y, <1>o, <1>c, <2>1, <2>3, <2>4, <2>5 DEF UpdateDeployment, Calm, TypeOK
    <2>7. QED
        BY <1>2, <1>y, <1>c, <2>1, <2>4, <2>5, <2>6
           DEF UpdateDeployment, IInv, LastPatchStands, Coherent, Nominal
<1>3. ASSUME Conflict, Calm PROVE IInv'
    BY <1>3, <1>s, <1>y DEF Conflict, Calm, TypeOK
<1>4. ASSUME ListPods, Calm PROVE IInv'
    <2> USE <1>4
    <2>0. pc = "pods" /\ UNCHANGED <<api, baseline, mult, decided>>
        BY DEF ListPods
    <2>1. CASE NextDeployment /\ UNCHANGED <<shares, read, stale>>
        <3>1. TypeOK'
            BY <1>y, <1>n, <2>0, <2>1 DEF Calm, TypeOK, api
        <3>2. QED
            BY <1>y, <2>0, <2>1, <3>1 DEF IInv, LastPatchStands, Coherent, Nominal, BaselineIsNominal, api
    <2>2. CASE PodsOf(current) # {}
        <3>1. PICK s \in [PodsOf(current) -> 0..rate[current]] : shares' = s
            BY <2>2 DEF ListPods
        <3>2. /\ read' = [o \in Objects |-> IF o \in PodsOf(current)
                                            THEN [alloc |-> alloc[o], nominal |-> Unset]
                                            ELSE read[o]]
              /\ stale' = stale \ PodsOf(current)
              /\ pc' = "write" /\ UNCHANGED <<todo, current>>
            BY <2>2 DEF ListPods
        <3>3. PodsOf(current) \subseteq {q \in Pods : Owner[q] = current}
            BY <1>y DEF PodsOf, TypeOK
        <3>4. read' \in [Objects -> [alloc : Allocations, nominal : Nat \cup {Unset}]]
            BY <3>2, <1>y DEF TypeOK
        <3>5. rate[current] \in Nat
            BY <1>y, <1>o DEF TypeOK
        <3>6. TypeOK'
            BY <1>y, <2>0, <3>1, <3>2, <3>3, <3>4, <3>5 DEF Calm, TypeOK, api
        <3>7. \A d \in Deps : read'[d] = read[d]
            BY <1>o, <3>2, <3>3
        <3>8. Coherent'
            BY <1>y, <2>0, <3>2 DEF Coherent, api
        <3>9. QED
            BY <1>y, <2>0, <3>2, <3>6, <3>7, <3>8
               DEF IInv, LastPatchStands, Nominal, BaselineIsNominal, api
    <2>3. QED
        BY <2>1, <2>2 DEF ListPods
<1>5. ASSUME NEW p \in Pods, UpdatePod(p), Calm PROVE IInv'
    <2>0. pc = "write" /\ p \in DOMAIN shares /\ p \notin stale /\ Written(p)
        BY <1>5 DEF UpdatePod
    <2>1. alloc' = alloc
        <3>1. read[p].alloc = alloc[p]
            BY <2>0, <1>y, <1>o DEF Coherent
        <3>2. QED
            BY <1>5, <1>y, <3>1 DEF UpdatePod, TypeOK
    <2>2. rate' \in [Objects -> Nat] /\ tokens' \in [Objects -> Nat]
        <3>1. tokens[current] \in Nat /\ shares[p] \in Nat
            BY <1>y, <1>o, <2>0 DEF TypeOK
        <3>2. \A n \in PodTokens(tokens[current]) : n \in Nat
            BY <3>1, ClampType DEF PodTokens
        <3>3. QED
            BY <1>5, <1>y, <3>1, <3>2 DEF UpdatePod, TypeOK
    <2>3. TypeOK'
        <3>1. /\ alloc' \in [Objects -> Allocations] /\ stale' \subseteq Objects
              /\ UNCHANGED <<nominal, running, baseline, mult, read, decided, churn>>
            BY <1>5, <1>y, <1>o, <2>1 DEF UpdatePod, Calm, TypeOK
        <3>2. QED
            BY <1>y, <1>w, <2>0, <2>2, <3>1 DEF TypeOK
    <2>4. QED
        BY <1>5, <1>y, <2>0, <2>1, <2>3
           DEF UpdatePod, IInv, LastPatchStands, Coherent, Nominal, BaselineIsNominal
<1>6. ASSUME NEW p \in Pods, SkipPod(p), churn' \in 0..MaxChurn PROVE IInv'
    <2>1. TypeOK'
        BY <1>6, <1>y, <1>w DEF SkipPod, TypeOK, api
    <2>2. QED
        BY <1>6, <1>y, <2>1 DEF SkipPod, IInv, LastPatchStands, Coherent, Nominal, BaselineIsNominal, api
<1>7. ASSUME Others, Disturb PROVE IInv'
    <2>0. churn' \in 0..MaxChurn
        BY <1>7, <1>y DEF Disturb, TypeOK
    <2>1. CASE UpdateFails
        BY <2>0, <2>1, <1>s DEF UpdateFails
    <2>2. CASE ListPodsFails
        <3>1. TypeOK'
            BY <1>y, <1>n, <2>0, <2>2 DEF ListPodsFails, TypeOK, api
        <3>2. QED
            BY <1>y, <2>2, <3>1
               DEF ListPodsFails, IInv, LastPatchStands, Coherent, Nominal, BaselineIsNominal, api
    <2>3. CASE Restart
        <3>0. DOMAIN <<>> = {}
            OBVIOUS
        <3>1. TypeOK'
            BY <1>y, <1>o, <2>0, <2>3, <3>0 DEF Restart, TypeOK, api
        <3>2. QED
            BY <1>y, <2>3, <3>1
               DEF Restart, IInv, LastPatchStands, Coherent, Nominal, BaselineIsNominal, api
    <2>4. ASSUME NEW o \in Objects, NEW a \in Allocations, Allocate(o, a) PROVE IInv'
        <3>1. TypeOK'
            BY <1>y, <2>0, <2>4 DEF Allocate, TypeOK
        <3>2. LastPatchStands'
            BY <1>y, <2>4 DEF Allocate, LastPatchStands
        <3>3. Coherent'
            BY <1>y, <2>4 DEF Allocate, Coherent, TypeOK
        <3>4. QED
            BY <1>y, <2>4, <3>1, <3>2, <3>3 DEF Allocate, IInv, Nominal, BaselineIsNominal
    <2>5. ASSUME NEW d \in Deps, NEW n \in Nominals, SetNominal(d, n) PROVE IInv'
        <3>1. TypeOK'
            BY <1>y, <1>o, <2>0, <2>5 DEF SetNominal, TypeOK
        <3>2. Nominal'
            BY <1>y, <2>5 DEF SetNominal, Nominal, TypeOK
        <3>3. QED
            BY <1>y, <2>5, <3>1, <3>2
               DEF SetNominal, IInv, LastPatchStands, Coherent, BaselineIsNominal
    <2>6. ASSUME NEW p \in Pods, StopPod(p) PROVE IInv'
        <3>1. TypeOK'
            BY <1>y, <1>o, <2>0, <2>6 DEF StopPod, TypeOK
        <3>2. QED
            BY <1>y, <2>6, <3>1
               DEF StopPod, IInv, LastPatchStands, Coherent, Nominal, BaselineIsNominal
    <2>7. ASSUME NEW p \in Pods, StartPod(p) PROVE IInv'
        <3>1. TypeOK'
            BY <1>y, <2>0, <2>7 DEF StartPod, TypeOK, emulator
        <3>2. QED
            BY <1>y, <2>7, <3>1
               DEF StartPod, IInv, LastPatchStands, Coherent, Nominal, BaselineIsNominal, emulator
    <2>8. QED
        BY <1>7, <2>0, <2>1, <2>2, <2>3, <2>4, <2>5, <2>6, <2>7, <1>6 DEF Others
<1>8. ASSUME UNCHANGED vars PROVE IInv'
    BY <1>8, <1>y DEF vars, api, emulator, IInv, TypeOK, LastPatchStands, Coherent, Nominal,
                      BaselineIsNominal
<1>9. QED
    <2>1. ASSUME NEW p \in Pods, PodConflict(p), Calm PROVE IInv'
        BY <2>1, <1>6, <1>y DEF PodConflict, Calm, TypeOK
    <2>2. QED
        BY <1>1, <1>2, <1>3, <1>4, <1>5, <1>7, <1>8, <2>1 DEF Next, Run

\* The invariant holds at the start.
LEMMA Start == Init => IInv
<1> SUFFICES ASSUME Init PROVE IInv
    OBVIOUS
<1> USE LoadEmulatorAssumption
<1>0. DOMAIN <<>> = {}
    OBVIOUS
<1>1. (CHOOSE a \in Allocations : TRUE) \in Allocations /\ (CHOOSE d \in Deps : TRUE) \in Deps
    OBVIOUS
<1>2. alloc \in [Objects -> Allocations]
    BY <1>1 DEF Init
<1>3. TypeOK
    <2>1. rate \in [Objects -> Nat] /\ tokens \in [Objects -> Nat] /\ nominal \in [Deps -> Nat]
        BY DEF Init
    <2>2. read \in [Objects -> [alloc : Allocations, nominal : Nat \cup {Unset}]]
        BY <1>2 DEF Init
    <2>3. baseline \in [Deps -> Nat \cup {Unset}] /\ current \in Deps \ todo
        BY <1>1 DEF Init
    <2>4. DOMAIN shares = {}
        BY <1>0 DEF Init
    <2>5. QED
        BY <1>2, <2>1, <2>2, <2>3, <2>4 DEF Init, TypeOK
<1>4. LastPatchStands /\ Coherent /\ BaselineIsNominal
    BY DEF Init, LastPatchStands, Coherent, BaselineIsNominal
<1>5. Nominal
    BY DEF Init, Nominal
<1>6. QED
    BY <1>3, <1>4, <1>5 DEF IInv

\* What the emulator reads, draws and writes stays well typed.
THEOREM TypeCorrect == Spec => []TypeOK
<1>1. IInv => TypeOK
    BY DEF IInv
<1>2. QED
    BY <1>1, Start, Step, PTL DEF Spec

\* A patch of the Actuator between the emulator's read and its write is never undone.
THEOREM PatchesStand == Spec => []LastPatchStands
<1>1. IInv => LastPatchStands
    BY DEF IInv
<1>2. QED
    BY <1>1, Start, Step, PTL DEF Spec

\* The baseline of the random walk is a rate an operator set, never a multiplied one.
THEOREM BaselinesAreNominal == Spec => []BaselineIsNominal
<1>1. IInv => BaselineIsNominal
    BY DEF IInv
<1>2. QED
    BY <1>1, Start, Step, PTL DEF Spec
=============================================================================
