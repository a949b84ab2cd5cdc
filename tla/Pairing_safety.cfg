CONSTANTS
    Ids = {1, 2, 3, 4, 5}
    NoId = 0
    NoTarget = "none"
    Managed <- MCManaged
    VLLM <- MCVLLM
    Target <- MCTarget
    Pods <- MCPods
    Owner <- MCOwner
    ManagedPool = 2
    VLLMPool = 2
    MaxReplicas = 2
    MaxChurn = 2
SPECIFICATION Spec
INVARIANTS TypeOK OneToOne
PROPERTIES HealthyPairsKept OnePassRepairs RefinesMatching
