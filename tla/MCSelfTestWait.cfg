\* wait_for_controller under its timeout, the controller's pods changing.
CONSTANTS
    Pods <- MCPods
    ListOrder <- MCListOrder
    Deadline <- MCDeadline
    Target = "controller"
SPECIFICATION Spec
INVARIANTS WaitTypeOK OkMeansSawRunning
PROPERTY WaitEnds
\* The wait has ended and the pods no longer change.
CHECK_DEADLOCK FALSE
