\* Safety of create/destroy across crashes, lost writes and restarts.
CONSTANTS
    Policies <- MCPolicies
    MaxRuns <- MCMaxRuns
SPECIFICATION Spec
INVARIANTS
    FlagBeforeCreate
    FlagInv
    DestroyOkMeansGone
    CreateOkIsDestroyable
    RefInv
PROPERTIES
    ForeignClusterKept
    MemoMonotonic
    ContractSpec
\* After MaxRuns processes the control plane starts no more: the agent stops.
CHECK_DEADLOCK FALSE
