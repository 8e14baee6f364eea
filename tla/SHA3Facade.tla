------------------------------ MODULE SHA3Facade ------------------------------
(***************************************************************************)
(* The named variants of sha3.c (FIPS202_SHAKE128 ... FIPS202_SHA3_512 and *)
(* sha3_256_easy_hash): each fixes r, c, the suffix byte and, for the      *)
(* digests, the output length, and calls Keccak.  Keccak ignores c.        *)
(* sha3_256_easy_hash_hex computes SHA3-256 and then renders the digest in *)
(* lowercase hex with sha3_256_to_hex into the caller's buffer hex.        *)
(***************************************************************************)
EXTENDS Sponge

VARIABLES
    hexReq,  \* the caller entered through sha3_256_easy_hash_hex
    hex      \* the chars written to the caller's hex buffer, as ASCII codes

\* Mutant of Params: the SHA3 and SHAKE suffix bytes exchanged.
ParamsSwappedSuffix ==
    [SHAKE128 |-> [r |-> 1344, c |-> 256,  sfx |-> 6,  len |-> 0],
     SHAKE256 |-> [r |-> 1088, c |-> 512,  sfx |-> 6,  len |-> 0],
     SHA3_224 |-> [r |-> 1152, c |-> 448,  sfx |-> 31, len |-> 28],
     SHA3_256 |-> [r |-> 1088, c |-> 512,  sfx |-> 31, len |-> 32],
     SHA3_384 |-> [r |-> 832,  c |-> 768,  sfx |-> 31, len |-> 48],
     SHA3_512 |-> [r |-> 576,  c |-> 1024, sfx |-> 31, len |-> 64]]

\* Keccak(r, c, in, inLen, sfx, out, outLen) arguments; len 0 = caller's outLen
Params ==
    [SHAKE128 |-> [r |-> 1344, c |-> 256,  sfx |-> 31, len |-> 0],
     SHAKE256 |-> [r |-> 1088, c |-> 512,  sfx |-> 31, len |-> 0],
     SHA3_224 |-> [r |-> 1152, c |-> 448,  sfx |-> 6,  len |-> 28],
     SHA3_256 |-> [r |-> 1088, c |-> 512,  sfx |-> 6,  len |-> 32],
     SHA3_384 |-> [r |-> 832,  c |-> 768,  sfx |-> 6,  len |-> 48],
     SHA3_512 |-> [r |-> 576,  c |-> 1024, sfx |-> 6,  len |-> 64]]

Variants == DOMAIN Params
XOFs     == {"SHAKE128", "SHAKE256"}

\* The output length Keccak is called with: the caller's for SHAKE, fixed
\* for SHA3.
OutLenOf(v, ol) == IF v \in XOFs THEN ol ELSE Params[v].len

\* FIPS202_<v>(in, inLen, out[, outLen]): Keccak(r, c, in, inLen, sfx, out, ...)
FacadeCall(v, m, ol) == KeccakEntry(Params[v].r, Params[v].sfx, m, OutLenOf(v, ol))

\* sha3_256_easy_hash(data, size, hash): FIPS202_SHA3_256(data, size, hash)
EasyHashCall(m) == FacadeCall("SHA3_256", m, 0)

\* The same two calls as steps of a running caller (SHA3Test's main).
FacadeStep(v, m, ol) == KeccakCall(Params[v].r, Params[v].sfx, m, OutLenOf(v, ol))
EasyHashStep(m) == FacadeStep("SHA3_256", m, 0)

\* const char hex_chars[] = "0123456789abcdef";  (ASCII codes)
HexChars == << 48, 49, 50, 51, 52, 53, 54, 55, 56, 57, 97, 98, 99, 100, 101, 102 >>

(***************************************************************************)
(* sha3_256_to_hex(hash, hex): for (i = 0; i < 32; i++) {                  *)
(*   hex[i*2]   = hex_chars[(hash[i] >> 4) & 0xF];                         *)
(*   hex[i*2+1] = hex_chars[hash[i] & 0xF]; }                              *)
(* Exactly 64 chars; no terminating NUL is written.                        *)
(***************************************************************************)
HexDigits == 64
HighNibble(v) == (v \div 16) % 16
LowNibble(v)  == v % 16
\* Mutant of ToHex: the low nibble written first.
ToHexLowFirst(h) ==
    [k \in 1..HexDigits |->
        LET byte == h[(k + 1) \div 2]
        IN  HexChars[1 + (IF k % 2 = 1 THEN LowNibble(byte) ELSE HighNibble(byte))]]
ToHex(h) ==
    [k \in 1..HexDigits |->
        LET byte == h[(k + 1) \div 2]
        IN  HexChars[1 + (IF k % 2 = 1 THEN HighNibble(byte) ELSE LowNibble(byte))]]

(***************************************************************************)
(* sha3_256_easy_hash_hex(data, size, hex): the hash into uint8_t hash[32] *)
(* (the Keccak call), then sha3_256_to_hex(hash, hex) once it returned.    *)
(***************************************************************************)
EasyHashHexCall(m) == EasyHashCall(m) /\ hexReq = TRUE /\ hex = << >>
PlainCall(v, m, ol) == FacadeCall(v, m, ol) /\ hexReq = FALSE /\ hex = << >>

WriteHex ==
    /\ Returned /\ hexReq /\ hex = << >>
    /\ hex' = ToHex(outBuf)
    /\ UNCHANGED << spongeVars, hexReq >>

\* The call has returned to the caller of the variant or of the hex helper.
CallDone == Returned /\ (hexReq => hex # << >>)

=============================================================================
