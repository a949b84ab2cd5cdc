--------------------------- MODULE MCLoadEmulator ---------------------------
(***************************************************************************)
(* For TLC: two Deployments, one of which has two pods.                    *)
(***************************************************************************)
EXTENDS LoadEmulator

CONSTANTS d, e, p, q

MCOwner == [x \in {p, q} |-> d]
MCNomTokens == [x \in {d, e} |-> 2]
=============================================================================
