SPECIFICATION Spec
INVARIANT ErrorReported
