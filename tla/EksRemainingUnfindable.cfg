\* Spec section 3: a create failure classified Remaining can be destroyed.
CONSTANTS
    Policies <- MCPolicies
    MaxRuns <- MCMaxRuns
SPECIFICATION Spec
INVARIANT RemainingIsDestroyable
CHECK_DEADLOCK FALSE
