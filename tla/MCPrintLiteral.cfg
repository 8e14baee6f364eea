\* Both versions; the call returns, so the final state has no successor.
CONSTANT Impls = {"word", "byte"}
SPECIFICATION MCSpec
INVARIANT SendsLen
CHECK_DEADLOCK FALSE
