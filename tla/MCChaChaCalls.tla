---------------------------- MODULE MCChaChaCalls ----------------------------
(***************************************************************************)
(* A caller that encrypts one 130-byte message (three blocks) with one     *)
(* ChaCha20_init and then several ChaCha20_xor calls over consecutive      *)
(* chunks of it, with RFC 8439's key and nonce and block counter 1.  The   *)
(* splits put call boundaries at every position of a block, at block     *)
(* edges, on empty calls, and one byte before the end.                    *)
(***************************************************************************)
EXTENDS ChaCha20

VARIABLE calls   \* the lengths of the ChaCha20_xor calls still to make

vars == << ctxVars, calls >>

Key == [k \in 1..32 |-> k - 1]
Nonce == << 0, 0, 0, 0, 0, 0, 0, 74, 0, 0, 0, 0 >>
Count == 1
Plaintext ==
    << 76, 97, 100, 105, 101, 115, 32, 97, 110, 100, 32, 71, 101, 110, 116, 108,
    101, 109, 101, 110, 32, 111, 102, 32, 116, 104, 101, 32, 99, 108, 97, 115,
    115, 32, 111, 102, 32, 39, 57, 57, 58, 32, 73, 102, 32, 73, 32, 99,
    111, 117, 108, 100, 32, 111, 102, 102, 101, 114, 32, 121, 111, 117, 32, 111,
    110, 108, 121, 32, 111, 110, 101, 32, 116, 105, 112, 32, 102, 111, 114, 32,
    116, 104, 101, 32, 102, 117, 116, 117, 114, 101, 44, 32, 115, 117, 110, 115,
    99, 114, 101, 101, 110, 32, 119, 111, 117, 108, 100, 32, 98, 101, 32, 105,
    116, 46, 0, 1, 2, 3, 4, 5, 6, 7, 8, 9, 10, 11, 12, 13,
    14, 15 >>

\* RFC 8439 2.4's encryption of Plaintext under Key, Nonce and Count (an
\* implementation of the RFC that reproduces its test vectors).
Ciphertext ==
    << 110, 46, 53, 154, 37, 104, 249, 128, 65, 186, 7, 40, 221, 13, 105, 129,
    233, 126, 122, 236, 29, 67, 96, 194, 10, 39, 175, 204, 253, 159, 174, 11,
    249, 27, 101, 197, 82, 71, 51, 171, 143, 89, 61, 171, 205, 98, 179, 87,
    22, 57, 214, 36, 230, 81, 82, 171, 143, 83, 12, 53, 159, 8, 97, 216,
    7, 202, 13, 191, 80, 13, 106, 97, 86, 163, 142, 8, 138, 34, 182, 94,
    82, 188, 81, 77, 22, 204, 248, 6, 129, 140, 233, 26, 183, 121, 55, 54,
    90, 249, 11, 191, 116, 163, 91, 230, 180, 11, 142, 237, 242, 120, 94, 66,
    135, 77, 116, 2, 113, 35, 30, 164, 142, 252, 180, 225, 51, 154, 200, 224,
    198, 226 >>

\* Every split into two calls (so every position of a call boundary inside
\* a block), and three-call splits with an empty call and with two
\* boundaries in one block.
Splits ==
    { << k, 130 - k >> : k \in 0..130 }
    \cup { << 130 >>, << 1, 63, 66 >>, << 63, 2, 65 >>, << 64, 64, 2 >>, << 65, 0, 65 >> }

(***************************************************************************)
(* ChaCha20_init(&ctx, key, nonce, count) has run.  It does not write      *)
(* ctx.keystream, whose bytes are whatever the stack held: two different   *)
(* contents stand for them, so a read of the unwritten keystream shows.    *)
(***************************************************************************)
Garbage == { [w \in 0..15 |-> ZeroWord], [w \in 0..15 |-> Word(w, 255 - w)] }

Init ==
    /\ \E sp \in Splits : calls = sp
    /\ state = InitState(Key, Nonce, Word(Count \div Half, Count % Half))
    /\ idx = 0
    /\ keystream \in Garbage /\ out = [w \in 0..15 |-> ZeroWord]
    /\ round = 0 /\ buf = Plaintext /\ pos = 0 /\ i = 0 /\ bufflen = 0 /\ pc = "idle"

\* ChaCha20_xor(&ctx, message + done, len) for the next chunk.
Call ==
    /\ calls # << >>
    /\ ChaCha20_xor(pos + bufflen, Head(calls))
    /\ calls' = Tail(calls)

Next == Call \/ (XorStep /\ UNCHANGED calls)

Spec == Init /\ [][Next]_vars

(***************************************************************************)
(* Between calls, the bytes processed so far are the RFC's ciphertext and  *)
(* the rest is untouched plaintext, whatever the chunk lengths: ctx->idx   *)
(* carries the position inside the current block from one ChaCha20_xor    *)
(* call to the next, so the restriction stated in the header's doc         *)
(* comment (all calls but the last a multiple of 64 bytes) is not needed.  *)
(***************************************************************************)
CallsMatchRFC ==
    pc = "idle" =>
        buf = SubSeq(Ciphertext, 1, pos + bufflen)
              \o SubSeq(Plaintext, pos + bufflen + 1, Len(Plaintext))

(***************************************************************************)
(* The refinement mapping.  The context's position in the keystream is     *)
(* the blocks generated before the current one times 64 plus ctx->idx;     *)
(* state[12] counts the blocks from Count (no wrap happens here).  Inside  *)
(* ChaCha20_block_next the call is still in its loop.                      *)
(***************************************************************************)
StreamOffset ==
    IF state[12][2] = Count THEN 0 ELSE (state[12][2] - Count - 1) * 64 + idx

\* RFC 8439's keystream for Key, Nonce and Count: ciphertext XOR plaintext.
RFCKeystream == [k \in 1..Len(Plaintext) |-> Ciphertext[k] ^^ Plaintext[k]]

Stream == INSTANCE ChaChaStream
            WITH KS <- RFCKeystream, off <- StreamOffset,
                 pc <- IF pc = "block" THEN "xor" ELSE pc

(***************************************************************************)
(* ChaCha20_xor implements the keystream: each step of every call either   *)
(* leaves the caller's bytes and the stream position alone (generating a   *)
(* block, running its rounds) or XORs the byte buffer[i] with the RFC      *)
(* keystream byte at the context's position and advances both by one.     *)
(* No byte is skipped, repeated or taken from a stale or unwritten block,  *)
(* at any step, across calls that end inside a block.                      *)
(***************************************************************************)
XorImplementsStream == Stream!Spec

=============================================================================
