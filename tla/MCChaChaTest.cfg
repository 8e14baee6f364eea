\* main returns: the final state has no successor.
CONSTANT AssertEnabled = TRUE
CONSTANT chacha20_test_vectors <- MCVectors
SPECIFICATION MCSpec
INVARIANT HarnessVerdict
CHECK_DEADLOCK FALSE
