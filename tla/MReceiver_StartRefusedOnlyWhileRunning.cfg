SPECIFICATION Spec
INVARIANT StartRefusedOnlyWhileRunning
CHECK_DEADLOCK FALSE
