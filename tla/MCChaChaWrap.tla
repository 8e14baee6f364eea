----------------------------- MODULE MCChaChaWrap -----------------------------
(***************************************************************************)
(* ChaCha20_init with the largest 32-bit block count, 0xffffffff, and one  *)
(* ChaCha20_xor over 70 bytes, which needs a second block.  Two nonces:    *)
(* first word 0, and first word 0xffffffff (where the carry wraps that     *)
(* word to 0 and the assert fails).                                        *)
(***************************************************************************)
EXTENDS ChaCha20

VARIABLES
    called,   \* the caller has made its ChaCha20_xor call
    nonce     \* the nonce passed to ChaCha20_init

vars == << ctxVars, called, nonce >>

Key == [k \in 1..32 |-> k - 1]
Nonces == { << 0, 0, 0, 0, 0, 0, 0, 74, 0, 0, 0, 0 >>,
            << 255, 255, 255, 255, 0, 0, 0, 74, 0, 0, 0, 0 >> }
MaxCount == Word(Half - 1, Half - 1)
MessageLen == 70

\* The nonce words ChaCha20_init stores in state[13..15].
NonceWords(n) == [w \in 13..15 |-> pack4(Bytes4(n, 4 * (w - 13)))]

Init ==
    /\ nonce \in Nonces
    /\ state = InitState(Key, nonce, MaxCount) /\ idx = 0
    /\ keystream = [w \in 0..15 |-> ZeroWord] /\ out = [w \in 0..15 |-> ZeroWord]
    /\ round = 0 /\ buf = [k \in 1..MessageLen |-> 0]
    /\ pos = 0 /\ i = 0 /\ bufflen = 0 /\ pc = "idle" /\ called = FALSE

Next ==
    \/ ~called /\ ChaCha20_xor(0, MessageLen) /\ called' = TRUE /\ UNCHANGED nonce
    \/ XorStep /\ UNCHANGED << called, nonce >>

Spec == Init /\ [][Next]_vars

(***************************************************************************)
(* The nonce is fixed for the whole message: ChaCha20_init documents a     *)
(* 96-bit nonce and a 32-bit block count (RFC 8439 2.4), so state[13..15]  *)
(* keep the nonce's words.  ChaCha20_xor, when state[12]++ wraps to 0,     *)
(* increments state[13], the nonce's first word.                           *)
(***************************************************************************)
NonceFixed == [w \in 13..15 |-> state[w]] = NonceWords(nonce)

=============================================================================
