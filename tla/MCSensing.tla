----------------------------- MODULE MCSensing -----------------------------
(***************************************************************************)
(* For TLC: a Deployment with two pods whose template names an M*, so that *)
(* they start at an old one, and a Deployment with one pod and no label.   *)
(***************************************************************************)
EXTENDS Sensing, TLC

CONSTANTS s, u, p1, p2, p3, a1, a2, r1, r2

MCOwner == (p1 :> s) @@ (p2 :> s) @@ (p3 :> u)
MCSettings == {<<a1, 8>>, <<a2, 8>>}
MCChoices == (s :> [n : 1..2, setting : MCSettings]) @@ (u :> [n : {1}, setting : MCSettings])
MCTemplate == (s :> <<a1, 4>>) @@ (u :> <<a1, 0>>)
MCFirst == (s :> [n |-> 2, setting |-> <<a1, 8>>]) @@ (u :> [n |-> 1, setting |-> <<a1, 8>>])
\* it takes two failures to sense nothing of two llm-d Deployments
MCMaxChurn == [b \in Backends |-> IF b = "llmd" THEN 2 ELSE 1]
=============================================================================
