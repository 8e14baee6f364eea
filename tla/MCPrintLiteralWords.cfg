\* The word-reversing version; the call returns.
CONSTANT Impls = {"word"}
SPECIFICATION MCSpec
INVARIANT SendsEachCharacter
CHECK_DEADLOCK FALSE
