\* cluster.rs 127: the controller wait times out only if the controller never ran.
CONSTANTS
    Pods <- MCPods
    ListOrder <- MCListOrder
    Deadline <- MCDeadline
    Target = "controller"
SPECIFICATION Spec
INVARIANT TimeoutMeansNeverRunning
\* The wait has ended and the pods no longer change.
CHECK_DEADLOCK FALSE
