\* One call of KeccakF1600 per input state; the call returns, so the final
\* state has no successor.
SPECIFICATION MCSpec
INVARIANT LoopTypeOK
INVARIANT RoundMatchesFIPS
INVARIANT RotationDefined
CHECK_DEADLOCK FALSE
