---------------------------- MODULE KeccakF1600 ----------------------------
(***************************************************************************)
(* The Keccak-f[1600] permutation of src/_coin/reference_tests/sha3/sha3.c *)
(* (KeccakF1600, LFSR86540, ROL, load64/store64 and the rL/wL/XL lane      *)
(* accessors), as pure operators over the 200-byte state.                  *)
(*                                                                         *)
(* The state s is the code's u8 s[200] seen bit by bit: s[n] is bit n % 8  *)
(* of byte n \div 8.  load64/store64 are little-endian, so bit z of the    *)
(* lane (x,y) that rL(x,y) reads is bit 64*(x+5*y)+z of the buffer: the    *)
(* byte view used by the sponge and the lane view used here are one        *)
(* buffer, as in the code.                                                 *)
(*                                                                         *)
(* The loop-level state machine that executes these steps, one theta, one *)
(* walk step, one chi and one iota at a time, is KeccakF1600Loop.          *)
(***************************************************************************)
EXTENDS Integers, Sequences, Bitwise

Idx5      == 0..4
Z         == 0..63           \* bit positions of a u64 lane
StateBits == 0..1599         \* u8 s[200], bit by bit
NumRounds == 24              \* for(i=0; i<24; i++)
WalkSteps == 24              \* FOR(j,24) of the rho-pi walk
IotaSteps == 7               \* FOR(j,7) of iota

ZeroLane  == [z \in Z |-> 0]
LaneXor(a, b) == [z \in Z |-> (a[z] + b[z]) % 2]

\* rL/wL/XL: lane (x,y) lives at bytes 8*(x+5*y) .. 8*(x+5*y)+7.
LaneOf(n) == n \div 64
rL(s, x, y) == [z \in Z |-> s[64 * (x + 5 * y) + z]]
wL(s, x, y, l) ==
    [n \in StateBits |-> IF LaneOf(n) = x + 5 * y THEN l[n % 64] ELSE s[n]]
XL(s, x, y, l) == wL(s, x, y, LaneXor(rL(s, x, y), l))

\* The byte view: byte k of the buffer is bits 8k .. 8k+7.
ByteBit(v, k) == (v \div (2^k)) % 2
StateByte(s, k) == LET RECURSIVE Acc(_) Acc(m) == IF m = 8 THEN 0
                                                 ELSE s[8 * k + m] * 2^m + Acc(m + 1)
                   IN  Acc(0)
\* s[k+1-1] ^= blk[k] for the bytes of blk, from byte 0 on.
XorBytes(s, blk) ==
    [n \in StateBits |->
        IF n \div 8 < Len(blk) THEN (s[n] + ByteBit(blk[n \div 8 + 1], n % 8)) % 2
        ELSE s[n]]
\* s[k] ^= v
XorByteAt(s, k, v) ==
    [n \in StateBits |->
        IF n \div 8 = k THEN (s[n] + ByteBit(v, n % 8)) % 2 ELSE s[n]]

(***************************************************************************)
(* ROL(a,o) = (a << o) ^ (a >> (64-o)).  For o in 1..63 this is a left     *)
(* rotation.  For o = 0 the right shift by 64 is undefined behaviour in C; *)
(* the builds produce either a ^ a = 0 (shift masked to 0) or a ^ 0 = a    *)
(* (shift yields 0), or, on a 32-bit target, a with the high word moved    *)
(* into the low word.  ROLOutcomes is the set of values the build may      *)
(* produce.                                                                *)
(***************************************************************************)
ROL(a, o) == [z \in Z |-> a[(z - o) % 64]]
HighWordDown(a) == [z \in Z |-> IF z < 32 THEN a[z + 32] ELSE 0]
ROLOutcomes(a, o) ==
    IF o \in 1..63 THEN {ROL(a, o)}
    ELSE {ZeroLane, a, LaneXor(a, HighWordDown(a))}

(***************************************************************************)
(* theta: C[x] = rL(x,0)^...^rL(x,4);                                      *)
(*        D = C[(x+4)%5] ^ ROL(C[(x+1)%5],1); FOR(y,5) XL(x,y,D).          *)
(***************************************************************************)
Theta(s) ==
    LET C == [x \in Idx5 |-> [z \in Z |->
                  (s[64*x + z] + s[64*(x+5) + z] + s[64*(x+10) + z]
                   + s[64*(x+15) + z] + s[64*(x+20) + z]) % 2]]
        D == [x \in Idx5 |-> LaneXor(C[(x + 4) % 5], ROL(C[(x + 1) % 5], 1))]
    IN  [n \in StateBits |-> (s[n] + D[LaneOf(n) % 5][n % 64]) % 2]

(***************************************************************************)
(* One iteration of the rho-pi walk FOR(j,24):                             *)
(*   r += j+1; Y = (2x+3y)%5; x = y; y = Y;                                *)
(*   C[0] = rL(x,y); wL(x,y, ROL(D, r%64)); D = C[0];                      *)
(* w is the walk's local state [s, x, y, r, D, j]; v is the value the      *)
(* build computes for ROL(D, r%64) (one of ROLOutcomes).                   *)
(***************************************************************************)
\* Mutant of WalkR: "r += j" without the +1.
WalkRNoIncrement(w) == w.r + w.j
\* Mutant of WalkNextY: the coefficients of "Y=(2*x+3*y)%5" swapped.
WalkNextYSwapped(w) == (3 * w.x + 2 * w.y) % 5
WalkR(w)     == w.r + w.j + 1          \* r += j+1
WalkRot(w)   == WalkR(w) % 64           \* r%64
WalkNextX(w) == w.y
WalkNextY(w) == (2 * w.x + 3 * w.y) % 5
RhoPiStep(w, v) ==
    [s |-> wL(w.s, WalkNextX(w), WalkNextY(w), v),
     x |-> WalkNextX(w),
     y |-> WalkNextY(w),
     r |-> WalkR(w),
     D |-> rL(w.s, WalkNextX(w), WalkNextY(w)),
     j |-> w.j + 1]

\* x=1; y=r=0; D=rL(x,y);
RhoPiStart(s) == [s |-> s, x |-> 1, y |-> 0, r |-> 0, D |-> rL(s, 1, 0), j |-> 0]

(***************************************************************************)
(* chi: FOR(y,5) { FOR(x,5) C[x]=rL(x,y);                                  *)
(*                 FOR(x,5) wL(x,y, C[x]^((~C[(x+1)%5])&C[(x+2)%5])); }    *)
(* The row is copied to C before it is written, so every lane of a row is  *)
(* computed from the old row.                                              *)
(***************************************************************************)
Chi(s) ==
    [n \in StateBits |->
        LET l == LaneOf(n)  x == l % 5  yb == l - x  z == n % 64
        IN  (s[n] + (1 - s[64 * (yb + ((x + 1) % 5)) + z])
                        * s[64 * (yb + ((x + 2) % 5)) + z]) % 2]

(***************************************************************************)
(* LFSR86540: R = (R << 1) ^ ((R & 0x80) ? 0x71 : 0), through the u8    *)
(* pointer, so the result is taken mod 256; the output is bit 1 of the    *)
(* new value.                                                              *)
(***************************************************************************)
\* Mutant of LFSRNext: R held in an int, the result not truncated to a u8.
LFSRNextUntruncated(R) == (2 * R) ^^ (IF R >= 128 THEN 113 ELSE 0)
LFSRNext(R) == ((2 * R) ^^ (IF R >= 128 THEN 113 ELSE 0)) % 256
LFSROut(R)  == (LFSRNext(R) \div 2) % 2

(***************************************************************************)
(* LFSRAfter(R, k): the LFSR state after k calls of LFSR86540 from R.       *)
(***************************************************************************)
LFSRAfter(R, k) ==
    LET st[m \in 0..k] == IF m = 0 THEN R ELSE LFSRNext(st[m - 1])
    IN  st[k]

(***************************************************************************)
(* iota: FOR(j,7) if (LFSR86540(&R)) XL(0,0,(u64)1<<((1<<j)-1));          *)
(* Iteration j flips bit 2^j-1 of lane (0,0) when the LFSR outputs 1; the  *)
(* seven bits are distinct, so the loop XORs lane (0,0) with the lane      *)
(* IotaLane(R) holding all of them.  R is the LFSR state before the loop.  *)
(***************************************************************************)
IotaLane(R) ==
    [z \in Z |-> IF \E j \in 0..(IotaSteps - 1) :
                     z = 2^j - 1 /\ LFSROut(LFSRAfter(R, j)) = 1
                 THEN 1 ELSE 0]
Iota(s, R) == XL(s, 0, 0, IotaLane(R))

=============================================================================
