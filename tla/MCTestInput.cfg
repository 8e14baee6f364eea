\* main returns and the program stops (Terminating stutters).
SPECIFICATION MCSpec
INVARIANT InputVerdict
