CONSTANT AssertEnabled = TRUE
SPECIFICATION Spec
INVARIANT NonceFixed
