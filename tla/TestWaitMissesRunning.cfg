\* cluster.rs 134: the test-pod wait times out only if the test pod never ran.
CONSTANTS
    Pods <- MCPods
    ListOrder <- MCListOrder
    Deadline <- MCDeadline
    Target = "test"
SPECIFICATION Spec
INVARIANT TimeoutMeansNeverRunning
\* The wait has ended and the pods no longer change.
CHECK_DEADLOCK FALSE
