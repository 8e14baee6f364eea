\* A run of main (or a call of fib) ends: the final state has no successor.
SPECIFICATION MCSpec
INVARIANT FibTypeOK
INVARIANT CacheSound
 
INVARIANT HarnessVerdict
INVARIANT StackDepth
CHECK_DEADLOCK FALSE
PROPERTY FibImplementsSpec
