SPECIFICATION MCSpec
INVARIANT GeneratorsMatchReference
INVARIANT HarnessVerdict
