\* One call of a named variant per behaviour; it returns, so the final state
\* has no successor.
SPECIFICATION Spec
INVARIANT KnownAnswer
INVARIANT KnownAnswerHex
INVARIANT HarnessVerdict
CHECK_DEADLOCK FALSE
