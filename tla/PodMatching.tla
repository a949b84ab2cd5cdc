---------------------------- MODULE PodMatching ----------------------------
(***************************************************************************)
(* What the pairing reconciler promises to the evaluators: a matching      *)
(* between managed pods and vLLM pods.  At any time a managed pod has at   *)
(* most one engine and an engine serves at most one managed pod; a pair    *)
(* comes into being in one step, at the expense of the pairs its two pods  *)
(* were in, and disappears with either of its pods.                        *)
(***************************************************************************)
CONSTANTS Left, Right,  \* managed pods and vLLM pods
          Mates(_, _)   \* may this managed pod be matched with this vLLM pod

VARIABLE matching

Without(p) == {b \in matching : b[1] # p /\ b[2] # p}

Init == matching = {}

\* the pair of a pod that is lost, relabelled or pruned disappears
Unmatch(p) == matching' = Without(p)

Match(m, v) ==
    /\ Mates(m, v)
    /\ matching' = (Without(m) \cap Without(v)) \cup {<<m, v>>}

Next == (\E p \in Left \cup Right : Unmatch(p)) \/ (\E m \in Left, v \in Right : Match(m, v))

Spec == Init /\ [][Next]_matching
=============================================================================
