\* Spec section 3: a failure classified Clear leaves nothing to clean up.
CONSTANTS
    Policies <- MCPolicies
    MaxRuns <- MCMaxRuns
SPECIFICATION Spec
INVARIANT ClearMeansNothingToClean
CHECK_DEADLOCK FALSE
