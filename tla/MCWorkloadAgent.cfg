\* The agent lifecycle around run_workload, every call failing or not.
CONSTANTS
    NumTests <- MCNumTests
SPECIFICATION AgentSpec
INVARIANTS
    TypeOK
    WorkloadTypeOK
    ReturnedErrorReported
    TerminatedOnce
    OkMeansDoneDelivered
    StartingFirst
    RunHasAllPlugins
    DoneOnlyAfterFinished
    AgentInv
PROPERTIES
    LifecycleSpec
\* The process exits once new/run returned.
CHECK_DEADLOCK FALSE
