\* Spec section 8: never both the test results and an error.
SPECIFICATION Spec
INVARIANT NoConflictingOutcomes
CHECK_DEADLOCK FALSE
