\* Keccak() returns after its squeeze loop: the final state of each call has
\* no successor.
SPECIFICATION MCSpec
INVARIANT SpongeTypeOK
INVARIANT MatchesFIPSSponge
PROPERTY Termination
CHECK_DEADLOCK FALSE
