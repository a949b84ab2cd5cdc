--------------------------- MODULE MCControlCycle ---------------------------
(***************************************************************************)
(* Values for ControlCycle: model data without perfParms, as the           *)
(* blis/from-scratch deployments have it.                                  *)
(***************************************************************************)
EXTENDS ControlCycle

CONSTANTS t, u, nobody, p, q

=============================================================================
