SPECIFICATION Spec
INVARIANT ConnectedWhenReported
