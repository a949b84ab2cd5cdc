----------------------------- MODULE MCPairing -----------------------------
(***************************************************************************)
(* Instances of Pairing for TLC: one managed Deployment "m" with the vLLM  *)
(* Deployment "v", with pods 1.. on the managed side and 11.. on the other.*)
(***************************************************************************)
EXTENDS Pairing

CONSTANTS ManagedPool, VLLMPool   \* sizes of the two pod pools

MCManaged == {"m"}
MCVLLM == {"v"}
MCTarget == [d \in MCManaged |-> "v"]
MCPods == 1..ManagedPool \cup 11..(10 + VLLMPool)
MCOwner == [p \in MCPods |-> IF p < 10 THEN "m" ELSE "v"]
=============================================================================
