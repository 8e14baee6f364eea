----------------------------- MODULE ChaChaStream -----------------------------
(***************************************************************************)
(* What ChaCha20_xor (src/_coin/reference_tests/chacha/ChaCha20.h) does    *)
(* for its caller, with blocks, rounds and the 64-byte keystream buffer    *)
(* hidden: a context is a position off in one keystream KS, and a call     *)
(* ChaCha20_xor(ctx, buffer, bufflen) XORs the next bufflen bytes of KS    *)
(* into buffer[0 .. bufflen-1], one byte after the other, and leaves the   *)
(* context just past them.                                                 *)
(***************************************************************************)
EXTENDS Integers, Sequences, Bitwise

CONSTANT KS   \* the keystream as bytes, KS[1] the first

VARIABLES
    buf, pos, bufflen, i, pc,   \* as in ChaCha20
    off                         \* keystream bytes the context has used

streamVars == << buf, pos, bufflen, i, pc, off >>

\* ChaCha20_init: the context is at the start of its keystream.
Init == pc = "idle" /\ i = 0 /\ off = 0

\* ChaCha20_xor(ctx, buf + p, len) on a buffer inside buf.
Call ==
    /\ pc = "idle"
    /\ pos' \in Nat /\ bufflen' \in Nat /\ pos' + bufflen' <= Len(buf)
    /\ i' = 0 /\ pc' = "xor"
    /\ UNCHANGED << buf, off >>

\* buffer[i] ^= the next keystream byte; i++
XorByte ==
    /\ pc = "xor" /\ i < bufflen
    /\ buf' = [buf EXCEPT ![pos + i + 1] = @ ^^ KS[off + 1]]
    /\ i' = i + 1 /\ off' = off + 1
    /\ UNCHANGED << pos, bufflen, pc >>

Return ==
    /\ pc = "xor" /\ i >= bufflen
    /\ pc' = "idle"
    /\ UNCHANGED << buf, pos, bufflen, i, off >>

Next == Call \/ XorByte \/ Return

Spec == Init /\ [][Next]_streamVars

=============================================================================
