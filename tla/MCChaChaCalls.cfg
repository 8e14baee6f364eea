\* The caller stops when every chunk has been processed.
CONSTANT AssertEnabled = TRUE
SPECIFICATION Spec
INVARIANT ChaCha20TypeOK
INVARIANT CallsMatchRFC
CHECK_DEADLOCK FALSE
PROPERTY XorImplementsStream
