\* Spec section 8: at most one best-effort notification.
SPECIFICATION Spec
INVARIANT AtMostOneBestEffort
CHECK_DEADLOCK FALSE
