------------------------------- MODULE FIPS202 -------------------------------
(***************************************************************************)
(* Reference definitions from the SHA-3 standard (FIPS 202), written from  *)
(* the standard and not from sha3.c: the step mappings of Keccak-p[1600]   *)
(* (Section 3.2) with the rotation offsets of its Table 2 and the round    *)
(* constants RC[i] of the Keccak reference.  The properties of the models  *)
(* compare the code against these.                                         *)
(*                                                                         *)
(* A state is a function from bit index to {0,1}; A[x,y,z] is bit          *)
(* 64*(5*y+x)+z (FIPS 202, 3.1.2).                                         *)
(***************************************************************************)
EXTENDS Integers, Sequences

Bits1600 == 0..1599
A(S, x, y, z) == S[64 * (5 * y + x) + z]
XCoord(n) == (n \div 64) % 5
YCoord(n) == n \div 320
ZCoord(n) == n % 64

\* theta: D[x,z] = C[x-1,z] xor C[x+1,z-1], C[x,z] the column parity.
ColumnParity(S, x, z) == (A(S,x,0,z) + A(S,x,1,z) + A(S,x,2,z) + A(S,x,3,z) + A(S,x,4,z)) % 2
RefTheta(S) ==
    [n \in Bits1600 |->
        LET x == XCoord(n)  z == ZCoord(n)
        IN  (S[n] + ColumnParity(S, (x - 1) % 5, z)
                  + ColumnParity(S, (x + 1) % 5, (z - 1) % 64)) % 2]

\* rho: lane (x,y) rotated towards higher z by RhoOffset[x][y] (Table 2).
RhoOffset ==
    << <<  0, 36,  3, 41, 18 >>,      \* x = 0, y = 0..4
       <<  1, 44, 10, 45,  2 >>,      \* x = 1
       << 62,  6, 43, 15, 61 >>,      \* x = 2
       << 28, 55, 25, 21, 56 >>,      \* x = 3
       << 27, 20, 39,  8, 14 >> >>    \* x = 4
Offset(x, y) == RhoOffset[x + 1][y + 1]
RefRho(S) ==
    [n \in Bits1600 |->
        LET x == XCoord(n)  y == YCoord(n)
        IN  A(S, x, y, (ZCoord(n) - Offset(x, y)) % 64)]

\* pi: A'[x,y] = A[(x+3y) mod 5, x].
RefPi(S) ==
    [n \in Bits1600 |->
        LET x == XCoord(n)  y == YCoord(n)
        IN  A(S, (x + 3 * y) % 5, x, ZCoord(n))]

\* chi: A'[x,y,z] = A[x,y,z] xor ((A[x+1,y,z] xor 1) and A[x+2,y,z]).
RefChi(S) ==
    [n \in Bits1600 |->
        LET x == XCoord(n)  y == YCoord(n)  z == ZCoord(n)
        IN  (S[n] + ((A(S, (x + 1) % 5, y, z) + 1) % 2) * A(S, (x + 2) % 5, y, z)) % 2]

\* iota: lane (0,0) xor RC[ir]; RoundConstantBits[ir+1] is the set of the
\* bit positions that are 1 in RC[ir] (0x0000000000000001, 0x...8082, ...).
RoundConstantBits ==
    << {0}, {1, 7, 15}, {1, 3, 7, 15, 63}, {15, 31, 63},
       {0, 1, 3, 7, 15}, {0, 31}, {0, 7, 15, 31, 63}, {0, 3, 15, 63},
       {1, 3, 7}, {3, 7}, {0, 3, 15, 31}, {1, 3, 31},
       {0, 1, 3, 7, 15, 31}, {0, 1, 3, 7, 63}, {0, 3, 7, 15, 63}, {0, 1, 15, 63},
       {1, 15, 63}, {7, 63}, {1, 3, 15}, {1, 3, 31, 63},
       {0, 7, 15, 31, 63}, {7, 15, 63}, {0, 31}, {3, 15, 31, 63} >>
RefIota(S, ir) ==
    [n \in Bits1600 |->
        IF n < 64 /\ n \in RoundConstantBits[ir + 1] THEN 1 - S[n] ELSE S[n]]

\* Rnd(A, ir) = iota(chi(pi(rho(theta(A)))), ir)
Rnd(S, ir) == RefIota(RefChi(RefPi(RefRho(RefTheta(S)))), ir)

-----------------------------------------------------------------------------
(***************************************************************************)
(* The sponge construction SPONGE[f, pad10*1, r](N, d) (Algorithm 8) over  *)
(* bit strings, for a permutation F of 1600-bit states.  Bit strings are   *)
(* sequences of 0/1; a byte string is converted with the least significant *)
(* bit of each byte first (Appendix B.1).                                  *)
(***************************************************************************)
BitOf(v, k) == (v \div (2^k)) % 2
BitsOfBytes(m) == [k \in 1..(8 * Len(m)) |-> BitOf(m[(k - 1) \div 8 + 1], (k - 1) % 8)]

\* The delimited suffix byte d: the suffix bits are the bits of d below its
\* highest 1 bit (0x06: "01" for SHA3, 0x1F: "1111" for SHAKE).
HighestBit(d) == CHOOSE k \in 0..7 : BitOf(d, k) = 1 /\ d < 2^(k + 1)
SuffixBits(d) == [k \in 1..HighestBit(d) |-> BitOf(d, k - 1)]

\* pad10*1(x, m) = 1 || 0^j || 1 with j = (-m-2) mod x.
Pad101(xr, m) == << 1 >> \o [k \in 1..((-m - 2) % xr) |-> 0] \o << 1 >>

SpongeBits(F(_), rbits, N, d) ==
    LET P == N \o Pad101(rbits, Len(N))
        nblocks == Len(P) \div rbits
        RECURSIVE Absorb(_, _)
        Absorb(S, blk) ==
            IF blk = nblocks THEN S
            ELSE Absorb(F([n \in Bits1600 |->
                             IF n < rbits THEN (S[n] + P[blk * rbits + n + 1]) % 2
                             ELSE S[n]]), blk + 1)
        RECURSIVE Squeeze(_, _)
        Squeeze(S, Zs) ==
            LET Z2 == Zs \o [k \in 1..rbits |-> S[k - 1]]
            IN  IF d <= Len(Z2) THEN SubSeq(Z2, 1, d) ELSE Squeeze(F(S), Z2)
    IN  Squeeze(Absorb([n \in Bits1600 |-> 0], 0), << >>)

\* KECCAK[c] on the message bytes M followed by the suffix of d, output of
\* outBytes bytes, as bits.
KeccakBits(F(_), rbits, M, d, outBytes) ==
    SpongeBits(F, rbits, BitsOfBytes(M) \o SuffixBits(d), 8 * outBytes)

=============================================================================
