SPECIFICATION Spec
INVARIANT ReceiverNotSilentlyDead
CHECK_DEADLOCK FALSE
