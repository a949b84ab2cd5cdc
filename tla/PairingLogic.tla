---------------------------- MODULE PairingLogic ----------------------------
(***************************************************************************)
(* The pure planner of the Actuator's pairing reconciler,                  *)
(* ComputePairingPatches (pkg/actuator/pairing_logic.go).  It takes the    *)
(* snapshots of the managed and of the vLLM pods and returns the pods      *)
(* whose pair-id label is to be cleared and the pairs that are to be       *)
(* bound.                                                                  *)
(*                                                                         *)
(* A snapshot list is a function from the listed pods to their fields.     *)
(* Pods are numbered in the order of their names, which is the order in    *)
(* which the API server lists them and in which the planner sorts them.    *)
(***************************************************************************)
EXTENDS Naturals, FiniteSets

CONSTANTS Ids,    \* the values a pair-id label can have (UUIDs)
          NoId    \* the label is absent

ASSUME NoIdAssumption == NoId \notin Ids

PodSnapshot == [ready : BOOLEAN, id : Ids \cup {NoId}]

Labelled(view) == {p \in DOMAIN view : view[p].id # NoId}

\* idx: the pods a pair-id is indexed under.  A later pod of the list
\* overwrites an earlier one that carries the same id.
Indexed(view) ==
    {p \in Labelled(view) : \A q \in DOMAIN view : view[q].id = view[p].id => q <= p}

Healthy(id, managed, vllm) ==
    /\ \E m \in Indexed(managed) : managed[m].id = id /\ managed[m].ready
    /\ \E v \in Indexed(vllm) : vllm[v].id = id /\ vllm[v].ready

\* Mutant: only the managed side is pruned.
PrunesManagedOnly(managed, vllm) ==
    {m \in Indexed(managed) : ~ Healthy(managed[m].id, managed, vllm)}

Prunes(managed, vllm) ==
    {m \in Indexed(managed) : ~ Healthy(managed[m].id, managed, vllm)} \cup
    {v \in Indexed(vllm) : ~ Healthy(vllm[v].id, managed, vllm)}

\* Mutant: every Ready pod is up for binding.
EffectivelyUnpairedAll(view, pruned) == {p \in DOMAIN view : view[p].ready}

EffectivelyUnpaired(view, pruned) ==
    {p \in DOMAIN view : view[p].ready /\ (view[p].id = NoId \/ p \in pruned)}

\* Never-labelled pods come before prune-released ones, then by name.
SortsBefore(view, p, q) ==
    \/ view[p].id = NoId /\ view[q].id # NoId
    \/ (view[p].id = NoId <=> view[q].id = NoId) /\ p < q

Rank(view, pruned, p) ==
    Cardinality({q \in EffectivelyUnpaired(view, pruned) : SortsBefore(view, q, p)})

\* The i-th unpaired managed pod with the i-th unpaired vLLM pod, at position i.
Bindings(managed, vllm) ==
    LET pruned == Prunes(managed, vllm)
        mUnpaired == EffectivelyUnpaired(managed, pruned)
        vUnpaired == EffectivelyUnpaired(vllm, pruned)
    IN {[pos |-> Rank(managed, pruned, b[1]), m |-> b[1], v |-> b[2]] :
            b \in {c \in mUnpaired \X vUnpaired :
                       Rank(managed, pruned, c[1]) = Rank(vllm, pruned, c[2])}}
=============================================================================
