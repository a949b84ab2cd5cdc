---------------------------- MODULE MCActuation ----------------------------
(***************************************************************************)
(* Two Deployments whose selectors match each other's pods.  The first has *)
(* a pod of an old revision that still runs.                               *)
(***************************************************************************)
EXTENDS Actuation, TLC

CONSTANTS a, b, old,      \* ReplicaSets
          p, w, drained,    \* pods
          none, u

MCRSOwner == (a :> 1) @@ (old :> 1) @@ (b :> 2)
MCSelected == [s \in {1, 2} |-> {a, b, old}]
MCOwner == [x \in {p, w, drained} |->
               CASE x = p -> a [] x = w -> b [] OTHER -> old]
MCDecisions == [s \in {1, 2} |->
                   IF s = 1 THEN {[setting |-> <<"H100", 8>>, n |-> 1],
                                  [setting |-> <<"H100", 16>>, n |-> 2]}
                   ELSE {[setting |-> <<"L40", 8>>, n |-> 1]}]
MCFirst == [s \in {1, 2} |-> [setting |-> <<IF s = 1 THEN "H100" ELSE "L40", 8>>, n |-> 1]]
=============================================================================
