------------------------------- MODULE ChaCha20 -------------------------------
(***************************************************************************)
(* src/_coin/reference_tests/chacha/ChaCha20.h: the context ChaCha20_Ctx,  *)
(* ChaCha20_init, the block function ChaCha20_block_next and ChaCha20_xor, *)
(* one iteration of its byte loop per action.                              *)
(*                                                                         *)
(* A uint32_t is a pair << hi, lo >> of 16-bit halves (its value is        *)
(* hi * 2^16 + lo): TLC's integers stop at 2^31 - 1, and the wrap of the   *)
(* block counter at 2^32 is what one run is about.  The target is          *)
(* little-endian (RISC-V), so byte k of the uint32_t array keystream is    *)
(* byte k % 4 of word k \div 4, least significant first.                   *)
(***************************************************************************)
EXTENDS Integers, Sequences, Bitwise

CONSTANT AssertEnabled   \* the build keeps assert() (no NDEBUG)

VARIABLES
    state,      \* ctx->state[16]
    keystream,  \* ctx->keystream[16]
    idx,        \* ctx->idx
    buf,        \* the caller's bytes; each call works on buf[pos+1 ..]
    pos,        \* where the current call's buffer starts in buf
    i,          \* size_t i of the loop of ChaCha20_xor
    bufflen,    \* the current call's bufflen
    out,        \* ChaCha20_block_next's working array out[16]
    round,      \* the rounds of ChaCha20_block_next done so far
    pc          \* "idle", "xor" (ChaCha20_xor's loop), "block" (inside
                \* ChaCha20_block_next) or "abort"

ctxVars == << state, keystream, idx, buf, pos, i, bufflen, out, round, pc >>

Half == 65536
Word(hi, lo) == << hi, lo >>
ZeroWord == << 0, 0 >>
\* Mutant of Add32: the sum kept in a wider type, not wrapped to 32 bits.
Add32Wide(a, b) ==
    LET lo == a[2] + b[2]
    IN  << a[1] + b[1] + lo \div Half, lo % Half >>
\* a + b and a ^ b on uint32_t.
Add32(a, b) ==
    LET lo == a[2] + b[2]
    IN  << (a[1] + b[1] + lo \div Half) % Half, lo % Half >>
Xor32(a, b) == << a[1] ^^ b[1], a[2] ^^ b[2] >>

\* CHACHA20_ROTL(x, n) = (x << n) | (x >> (32 - n)), for n in 1..16.
ROTL(x, n) ==
    << (x[1] % 2^(16 - n)) * 2^n + x[2] \div 2^(16 - n),
       (x[2] % 2^(16 - n)) * 2^n + x[1] \div 2^(16 - n) >>

\* pack4(a): a[0] | a[1] << 8 | a[2] << 16 | a[3] << 24
pack4(a) == << a[3] + 256 * a[4], a[1] + 256 * a[2] >>

\* CHACHA20_CONSTANT "expand 32-byte k", as bytes.
CHACHA20_CONSTANT ==
    << 101, 120, 112, 97, 110, 100, 32, 51, 50, 45, 98, 121, 116, 101, 32, 107 >>

\* The four bytes of bs starting at offset k (a + k in the code).
Bytes4(bs, k) == SubSeq(bs, k + 1, k + 4)

(***************************************************************************)
(* CHACHA20_QR(a, b, c, d) on the words o of out:                        *)
(*   a += b; d ^= a; d = ROTL(d,16);  c += d; b ^= c; b = ROTL(b,12);      *)
(*   a += b; d ^= a; d = ROTL(d, 8);  c += d; b ^= c; b = ROTL(b, 7)       *)
(***************************************************************************)
CHACHA20_QR(o, a, b, c, d) ==
    LET a1 == Add32(o[a], o[b])
        d1 == ROTL(Xor32(o[d], a1), 16)
        c1 == Add32(o[c], d1)
        b1 == ROTL(Xor32(o[b], c1), 12)
        a2 == Add32(a1, b1)
        d2 == ROTL(Xor32(d1, a2), 8)
        c2 == Add32(c1, d2)
        b2 == ROTL(Xor32(b1, c2), 7)
    IN  [o EXCEPT ![a] = a2, ![b] = b2, ![c] = c2, ![d] = d2]

\* Mutant of RoundQRs: a typo in Diagonal 3, out[9] for out[8].
RoundQRsDiagonalTypo ==
    << << 0, 4, 8, 12 >>, << 1, 5, 9, 13 >>, << 2, 6, 10, 14 >>, << 3, 7, 11, 15 >>,
       << 0, 5, 10, 15 >>, << 1, 6, 11, 12 >>, << 2, 7, 9, 13 >>, << 3, 4, 9, 14 >> >>
\* The eight CHACHA20_QR calls of each "Round k/10": columns 0-3, diagonals.
RoundQRs ==
    << << 0, 4, 8, 12 >>, << 1, 5, 9, 13 >>, << 2, 6, 10, 14 >>, << 3, 7, 11, 15 >>,
       << 0, 5, 10, 15 >>, << 1, 6, 11, 12 >>, << 2, 7, 8, 13 >>, << 3, 4, 9, 14 >> >>
NumRounds == 10

RECURSIVE ApplyQRs(_, _)
ApplyQRs(o, k) ==
    IF k > Len(RoundQRs) THEN o
    ELSE LET q == RoundQRs[k]
         IN  ApplyQRs(CHACHA20_QR(o, q[1], q[2], q[3], q[4]), k + 1)

\* Byte k of the uint32_t array ks, read through a uint8_t pointer.
KeystreamByte(ks, k) ==
    LET w == ks[k \div 4]  b == k % 4
    IN  IF b < 2 THEN (w[2] \div 256^b) % 256 ELSE (w[1] \div 256^(b - 2)) % 256

(***************************************************************************)
(* ChaCha20_init(ctx, key, nonce, count): the constant, the eight key      *)
(* words, the counter and the three nonce words; ctx->idx = 0.  The        *)
(* keystream array is not written; it is never read before the first      *)
(* block is generated, because idx starts at 0.                            *)
(***************************************************************************)
InitState(key, nonce, count) ==
    [w \in 0..15 |->
        IF w < 4 THEN pack4(Bytes4(CHACHA20_CONSTANT, 4 * w))
        ELSE IF w < 12 THEN pack4(Bytes4(key, 4 * (w - 4)))
        ELSE IF w = 12 THEN count
        ELSE pack4(Bytes4(nonce, 4 * (w - 13)))]

ChaCha20_init(key, nonce, count) ==
    /\ state' = InitState(key, nonce, count)
    /\ idx' = 0

-----------------------------------------------------------------------------
(* ChaCha20_xor(ctx, buffer, bufflen), buffer = buf + pos *)

\* Mutant of ChaCha20_xor: each call restarts at a block boundary.
ChaCha20_xorResetIdx(p, len) ==
    /\ pc = "idle"
    /\ pos' = p /\ bufflen' = len /\ i' = 0 /\ pc' = "xor" /\ idx' = 0
    /\ UNCHANGED << state, keystream, buf, out, round >>

ChaCha20_xor(p, len) ==
    /\ pc = "idle"
    /\ pos' = p /\ bufflen' = len /\ i' = 0 /\ pc' = "xor"
    /\ UNCHANGED << state, keystream, idx, buf, out, round >>

\* buffer[i] = buffer[i] ^ keystream[ctx->idx++]; i++
XorByte(ks, k) ==
    /\ buf' = [buf EXCEPT ![pos + i + 1] = @ ^^ KeystreamByte(ks, k)]
    /\ i' = i + 1

\* An iteration with ctx->idx % 64 == 0 calls
\* ChaCha20_block_next(ctx->state, ctx->keystream, &keystream): out = in.
XorNewBlock ==
    /\ pc = "xor" /\ i < bufflen /\ idx % 64 = 0
    /\ out' = state /\ round' = 0 /\ pc' = "block"
    /\ UNCHANGED << state, keystream, idx, buf, pos, i, bufflen >>

\* One of "Round 1/10" .. "Round 10/10": the eight CHACHA20_QR calls.
BlockRound ==
    /\ pc = "block" /\ round < NumRounds
    /\ out' = ApplyQRs(out, 1) /\ round' = round + 1
    /\ UNCHANGED << state, keystream, idx, buf, pos, i, bufflen, pc >>

(***************************************************************************)
(* The rest of the call and of the iteration: out[i] += in[i] for all i    *)
(* (out is ctx->keystream; the pointer stored in *keystream is out, where  *)
(* ChaCha20_xor's local pointer already points); then ctx->state[12]++;    *)
(* ctx->idx = 0; if (ctx->state[12] == 0) { ctx->state[13]++;              *)
(* assert(ctx->state[13] != 0); } and the byte, after which ctx->idx = 1.  *)
(* A failing assert aborts.                                                *)
(***************************************************************************)
\* ChaCha20_block_next's last loop: out[i] += in[i] for i in 0..15.
BlockFinal(o, in) == [w \in 0..15 |-> Add32(o[w], in[w])]

BlockDone ==
    /\ pc = "block" /\ round = NumRounds
    /\ LET ks   == BlockFinal(out, state)
           ctr  == Add32(state[12], Word(0, 1))
           wrap == ctr = ZeroWord
           n13  == IF wrap THEN Add32(state[13], Word(0, 1)) ELSE state[13]
       IN  /\ keystream' = ks
           /\ state' = [state EXCEPT ![12] = ctr, ![13] = n13]
           /\ IF wrap /\ n13 = ZeroWord /\ AssertEnabled
                THEN pc' = "abort" /\ UNCHANGED << buf, i, idx >>
                ELSE XorByte(ks, 0) /\ idx' = 1 /\ pc' = "xor"
    /\ UNCHANGED << pos, bufflen, out, round >>

\* An iteration inside the current block.
XorNextByte ==
    /\ pc = "xor" /\ i < bufflen /\ idx % 64 # 0
    /\ XorByte(keystream, idx)
    /\ idx' = idx + 1
    /\ UNCHANGED << state, keystream, pos, bufflen, out, round, pc >>

\* i == bufflen: the loop exits and ChaCha20_xor returns.
XorReturn ==
    /\ pc = "xor" /\ i >= bufflen
    /\ pc' = "idle"
    /\ UNCHANGED << state, keystream, idx, buf, pos, i, bufflen, out, round >>

XorStep == XorNewBlock \/ BlockRound \/ BlockDone \/ XorNextByte \/ XorReturn

Word32 == (0..(Half - 1)) \X (0..(Half - 1))

(***************************************************************************)
(* The context's arrays hold uint32_t values, the buffer bytes, and the    *)
(* loop and round counters stay within their loops' bounds.                *)
(***************************************************************************)
ChaCha20TypeOK ==
    /\ state \in [0..15 -> Word32] /\ keystream \in [0..15 -> Word32]
    /\ out \in [0..15 -> Word32] /\ round \in 0..NumRounds
    /\ idx \in 0..64 /\ i \in 0..bufflen
    /\ buf \in Seq(0..255) /\ pos + bufflen <= Len(buf)
    /\ pc \in {"idle", "xor", "block", "abort"}

=============================================================================
