---------------------------- MODULE LoadEmulator ----------------------------
(***************************************************************************)
(* The Load Emulator (pkg/loademulator/loademulator.go): cycle after cycle *)
(* it draws a new load for every managed Deployment and divides it among   *)
(* the Deployment's running pods.                                          *)
(*                                                                         *)
(* It writes whole objects back that it listed earlier, while the Actuator *)
(* patches the same Deployments and pods, an operator patches the nominal  *)
(* load and pods come and go; the API server accepts a write only if the   *)
(* object was not changed since it was read.  Phases models the multiplier *)
(* of the nominal rate; here each cycle takes one of a set.                *)
(***************************************************************************)
EXTENDS Integers, FiniteSetsExt, Functions

CONSTANTS Deps, Pods,
          Owner,       \* the Deployment of each pod
          Allocations, \* what the Actuator writes: replicas, accelerator, maxbatchsize
          Nominals,    \* nominal rates an operator may set; 0: no label
          Multipliers, \* what the phase tracker may return
          Draws,       \* rates the random walk may lead to before it is clamped
          NomTokens,   \* the nominal token label of each Deployment; 0: no label
          TokenDraws,
          RangeFactor, \* LoadRangeFactor
          MaxChurn     \* bound on patches by others, pods lost, failures and restarts

ASSUME LoadEmulatorAssumption ==
    /\ Deps # {} /\ Owner \in [Pods -> Deps] /\ Deps \cap Pods = {}
    /\ Allocations # {}
    /\ Nominals \subseteq Nat /\ Multipliers \subseteq Nat \ {0} /\ Draws \subseteq Int
    /\ NomTokens \in [Deps -> Nat] /\ TokenDraws \subseteq Int
    /\ RangeFactor \in Nat \ {0} /\ MaxChurn \in Nat

Objects == Deps \cup Pods
Unset == -1

VARIABLES
    \* the API server
    rate,     \* the rpm label of each object
    tokens,   \* its token label, intokens or outtokens
    nominal,  \* the nominal rpm label of each Deployment
    alloc,    \* what the Actuator wrote last on each object, as the object has it
    running,  \* the running pods
    \* the emulator
    pc,       \* list, update, pods or write
    baseline, \* originalNominalRPM, Unset until the Deployment was seen
    mult,     \* this cycle's multiplier
    todo,     \* Deployments of the listing not updated yet
    current,  \* the one being updated
    shares,   \* what is still to be written to its pods
    read,     \* what the emulator read of each object besides the load
    stale,    \* those changed since
    \* for the properties
    decided,  \* what the Actuator decided last for each object
    churn

api == <<rate, tokens, nominal, alloc, running>>
emulator == <<pc, baseline, mult, todo, current, shares, read, stale>>
vars == <<api, emulator, decided, churn>>

PodsOf(d) == {p \in running : Owner[p] = d}

TypeOK ==
    /\ rate \in [Objects -> Nat] /\ tokens \in [Objects -> Nat] /\ nominal \in [Deps -> Nat]
    /\ alloc \in [Objects -> Allocations] /\ decided \in [Objects -> Allocations]
    /\ running \subseteq Pods
    /\ pc \in {"list", "update", "pods", "write"}
    /\ baseline \in [Deps -> Nat \cup {Unset}] /\ mult \in Multipliers
    /\ todo \subseteq Deps /\ current \in Deps \ todo
    /\ DOMAIN shares \subseteq {p \in Pods : Owner[p] = current}
    /\ \A p \in DOMAIN shares : shares[p] \in Nat
    /\ pc # "write" => DOMAIN shares = {}
    /\ read \in [Objects -> [alloc : Allocations, nominal : Nat \cup {Unset}]]
    /\ stale \subseteq Objects /\ churn \in 0..MaxChurn

Init ==
    /\ rate = [o \in Objects |-> 0]
    /\ tokens = [o \in Objects |-> IF o \in Deps THEN NomTokens[o] ELSE 0]
    /\ nominal \in [Deps -> Nominals]
    /\ alloc = [o \in Objects |-> CHOOSE a \in Allocations : TRUE]   \* any: they are alike
    /\ decided = alloc /\ running = Pods
    /\ pc = "list" /\ baseline = [d \in Deps |-> Unset] /\ mult \in Multipliers
    /\ todo = {} /\ current = (CHOOSE d \in Deps : TRUE) /\ shares = <<>>
    /\ read = [o \in Objects |-> [alloc |-> alloc[o], nominal |-> Unset]]
    /\ stale = {} /\ churn = 0

Disturb == churn < MaxChurn /\ churn' = churn + 1
Calm == UNCHANGED churn

-----------------------------------------------------------------------------
(***************************************************************************)
(* The emulator.                                                           *)
(***************************************************************************)

\* Run lists the managed Deployments and asks for the multiplier.
List ==
    /\ pc = "list"
    /\ mult' \in Multipliers
    /\ read' = [o \in Objects |-> IF o \in Deps
                                  THEN [alloc |-> alloc[o], nominal |-> nominal[o]]
                                  ELSE read[o]]
    /\ stale' = stale \ Deps
    /\ current' \in Deps /\ todo' = Deps \ {current'}
    /\ pc' = "update"
    /\ UNCHANGED <<api, baseline, shares, decided>>

\* the rest of the Deployments, or the end of the cycle
NextDeployment ==
    \/ /\ todo # {} /\ current' \in todo
       /\ todo' = todo \ {current'} /\ pc' = "update"
    \/ /\ todo = {} /\ pc' = "list" /\ UNCHANGED <<todo, current>>

Clamp(x, nom) == Min({Max({x, nom \div RangeFactor}), nom * RangeFactor})

\* The baseline is captured at first sight, before anything can fail.
Capture(d) ==
    baseline' = IF baseline[d] = Unset
                THEN [baseline EXCEPT ![d] = read[d].nominal] ELSE baseline

Floor == 1   \* LoadRangeTokensFloor

ClampTokens(x, nom) ==
    LET least == Max({(nom + RangeFactor - 1) \div RangeFactor, Floor})
    IN  Min({Max({x, least}), nom * RangeFactor})

\* perturbLoad: the walk around the nominal rate of the phase
NewRates(d) == {Clamp(x, baseline'[d] * mult) : x \in Draws}
NewTokens(d) == {ClampTokens(x, NomTokens[d]) : x \in TokenDraws}

\* Mutant: the rate is written whatever became of the object, with all that was read.
UpdateUnconditionally ==
    /\ pc = "update"
    /\ Capture(current)
    /\ \E r \in NewRates(current) : rate' = [rate EXCEPT ![current] = r]
    /\ \E n \in NewTokens(current) : tokens' = [tokens EXCEPT ![current] = n]
    /\ nominal' = [nominal EXCEPT ![current] = read[current].nominal]
    /\ alloc' = [alloc EXCEPT ![current] = read[current].alloc]
    /\ stale' = stale \cup {current}
    /\ pc' = "pods"
    /\ UNCHANGED <<running, mult, todo, current, shares, read, decided>>

\* Mutant: the nominal rate of the phase is written back (issue #29).
UpdateNominal ==
    /\ pc = "update" /\ current \notin stale
    /\ Capture(current)
    /\ \E r \in NewRates(current) : rate' = [rate EXCEPT ![current] = r]
    /\ \E n \in NewTokens(current) : tokens' = [tokens EXCEPT ![current] = n]
    /\ nominal' = [nominal EXCEPT ![current] = baseline'[current] * mult]
    /\ alloc' = [alloc EXCEPT ![current] = read[current].alloc]
    /\ stale' = stale \cup {current}
    /\ pc' = "pods"
    /\ UNCHANGED <<running, mult, todo, current, shares, read, decided>>

\* The whole Deployment is written back with its new rate.
UpdateDeployment ==
    /\ pc = "update" /\ current \notin stale
    /\ Capture(current)
    /\ \E r \in NewRates(current) : rate' = [rate EXCEPT ![current] = r]
    /\ \E n \in NewTokens(current) : tokens' = [tokens EXCEPT ![current] = n]
    /\ nominal' = [nominal EXCEPT ![current] = read[current].nominal]
    /\ alloc' = [alloc EXCEPT ![current] = read[current].alloc]
    /\ stale' = stale \cup {current}
    /\ pc' = "pods"
    /\ UNCHANGED <<running, mult, todo, current, shares, read, decided>>

\* The Deployment was changed since the listing, or the call fails: it waits for the next
\* cycle, its pods too.
SkipDeployment ==
    /\ Capture(current) /\ NextDeployment
    /\ UNCHANGED <<api, mult, shares, read, stale, decided>>

Conflict == pc = "update" /\ current \in stale /\ SkipDeployment
UpdateFails == pc = "update" /\ SkipDeployment

Total(s) == FoldFunctionOnSet(+, 0, s, DOMAIN s)

\* Mutant: the weights are not normalised.
SplitUnnormalised(d, s) == \A p \in DOMAIN s : s[p] <= rate[d]

\* splitLoad: random weights, normalised
Split(d, s) == Total(s) = rate[d]

\* updatePodLabels lists the running pods and divides the rate among them
ListPods ==
    /\ pc = "pods"
    /\ IF PodsOf(current) = {}
       THEN /\ NextDeployment
            /\ UNCHANGED <<shares, read, stale>>
       ELSE /\ \E s \in [PodsOf(current) -> 0..rate[current]] :
                   Split(current, s) /\ shares' = s
            /\ read' = [o \in Objects |-> IF o \in PodsOf(current)
                                          THEN [alloc |-> alloc[o], nominal |-> Unset]
                                          ELSE read[o]]
            /\ stale' = stale \ PodsOf(current)
            /\ pc' = "write" /\ UNCHANGED <<todo, current>>
    /\ UNCHANGED <<api, baseline, mult, decided>>

ListPodsFails ==
    /\ pc = "pods" /\ NextDeployment
    /\ UNCHANGED <<api, baseline, mult, shares, read, stale, decided>>

\* Mutant: the last share is not taken off.
WrittenKeepsLast(p) ==
    LET rest == DOMAIN shares \ {p} IN
    IF rest = {} THEN NextDeployment /\ UNCHANGED shares
    ELSE shares' = Restrict(shares, rest) /\ UNCHANGED <<pc, todo, current>>

\* the next pod, or the next Deployment
Written(p) ==
    LET rest == DOMAIN shares \ {p} IN
    /\ shares' = Restrict(shares, rest)
    /\ IF rest = {} THEN NextDeployment ELSE UNCHANGED <<pc, todo, current>>

\* perturbReplicaToken
PodTokens(n) == {n} \cup IF n <= Floor THEN {} ELSE {ClampTokens(x, n) : x \in TokenDraws}

UpdatePod(p) ==
    /\ pc = "write" /\ p \in DOMAIN shares /\ p \in running /\ p \notin stale
    /\ rate' = [rate EXCEPT ![p] = shares[p]]
    /\ \E n \in PodTokens(tokens[current]) : tokens' = [tokens EXCEPT ![p] = n]
    /\ alloc' = [alloc EXCEPT ![p] = read[p].alloc]
    /\ stale' = stale \cup {p}
    /\ Written(p)
    /\ UNCHANGED <<nominal, running, baseline, mult, read, decided>>

\* the pod was changed or deleted since the listing, or the call fails: its share is lost
SkipPod(p) ==
    /\ pc = "write" /\ p \in DOMAIN shares /\ Written(p)
    /\ UNCHANGED <<api, baseline, mult, read, stale, decided>>

PodConflict(p) == (p \in stale \/ p \notin running) /\ SkipPod(p)

Restart ==
    /\ pc' = "list" /\ baseline' = [d \in Deps |-> Unset]
    /\ todo' = {} /\ shares' = <<>>
    /\ UNCHANGED <<api, mult, current, read, stale, decided>>

-----------------------------------------------------------------------------
(***************************************************************************)
(* The others.                                                             *)
(***************************************************************************)

\* the Actuator patches a Deployment or a pod, without reading it
Allocate(o, a) ==
    /\ alloc[o] # a /\ (o \in Deps \/ o \in running)
    /\ alloc' = [alloc EXCEPT ![o] = a] /\ decided' = [decided EXCEPT ![o] = a]
    /\ stale' = stale \cup {o}
    /\ UNCHANGED <<rate, tokens, nominal, running>>
    /\ UNCHANGED <<pc, baseline, mult, todo, current, shares, read>>

SetNominal(d, n) ==
    /\ nominal[d] # n
    /\ nominal' = [nominal EXCEPT ![d] = n] /\ stale' = stale \cup {d}
    /\ UNCHANGED <<rate, tokens, alloc, running, decided>>
    /\ UNCHANGED <<pc, baseline, mult, todo, current, shares, read>>

\* a pod is deleted; a new one has the labels of the template
StopPod(p) ==
    /\ p \in running
    /\ running' = running \ {p} /\ stale' = stale \cup {p}
    /\ rate' = [rate EXCEPT ![p] = 0] /\ tokens' = [tokens EXCEPT ![p] = 0]
    /\ UNCHANGED <<nominal, alloc, decided>>
    /\ UNCHANGED <<pc, baseline, mult, todo, current, shares, read>>

StartPod(p) ==
    /\ p \notin running
    /\ running' = running \cup {p}
    /\ UNCHANGED <<rate, tokens, nominal, alloc, decided>>
    /\ UNCHANGED <<emulator>>

Run ==
    \/ List \/ UpdateDeployment \/ Conflict \/ ListPods
    \/ \E p \in Pods : UpdatePod(p) \/ PodConflict(p)

Others ==
    \/ UpdateFails \/ ListPodsFails \/ Restart
    \/ \E o \in Objects, a \in Allocations : Allocate(o, a)
    \/ \E d \in Deps, n \in Nominals : SetNominal(d, n)
    \/ \E p \in Pods : SkipPod(p) \/ StopPod(p) \/ StartPod(p)

Next ==
    \/ Run /\ Calm
    \/ Others /\ Disturb

\* the emulator's loop goes on and its calls return
Spec == Init /\ [][Next]_vars
FairSpec == Spec /\ WF_vars(Run /\ Calm)

-----------------------------------------------------------------------------
(***************************************************************************)
(* Properties                                                              *)
(***************************************************************************)

\* Whatever the emulator writes back, a Deployment and a pod have the allocation that the
\* Actuator decided last: a patch between the emulator's read and its write is not undone.
LastPatchStands == alloc = decided

\* The rates are drawn around a nominal rate an operator set, never around one that was
\* already multiplied, however often the emulator restarts in the middle of a phase.
BaselineIsNominal == \A d \in Deps : baseline[d] \in Nominals \cup {Unset}

\* Between two cycles the rates of the running pods add up to the one of their Deployment,
\* once pods and calls are stable: conflicts never leave load undistributed for good.
LoadReachesPods ==
    <>[](pc = "list" => \A d \in Deps : PodsOf(d) # {} =>
             FoldFunctionOnSet(+, 0, rate, PodsOf(d)) = rate[d])
=============================================================================
