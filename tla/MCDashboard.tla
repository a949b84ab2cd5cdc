---------------------------- MODULE MCDashboard -----------------------------
(***************************************************************************)
(* Values for Dashboard: two servers, two accelerators.  The solutions     *)
(* move server s from g to h and have u without an allocation.             *)
(***************************************************************************)
EXTENDS Dashboard, TLC

CONSTANTS s, u, g, h, none

MCPlans == {s :> [acc |-> g, n |-> 1],
            (s :> [acc |-> h, n |-> 1]) @@ (u :> [acc |-> none, n |-> 0])}

MCPerfPairs == {g, h}

=============================================================================
