-------------------------------- MODULE Sponge --------------------------------
(***************************************************************************)
(* The sponge of sha3.c: the function                                      *)
(*   Keccak(ui r, ui c, const u8 *in, u64 inLen, u8 sfx,                   *)
(*          u8 *out, u64 outLen)                                           *)
(* with its initialize, absorb, pad and squeeze statements.  One action    *)
(* per iteration of the absorb and squeeze loops and one per half of the  *)
(* pad line; each ends with the call KeccakF1600(s) the code makes there,  *)
(* if it makes one.                                                        *)
(*                                                                         *)
(* The call is the shared variable perm: the sponge sets it to "call" and  *)
(* takes its next step only when the permutation has set it back to       *)
(* "idle".  The callee is KeccakF1600Loop in the composition (MCSHA3), and *)
(* a stand-in one-step permutation where only the sponge's control is      *)
(* checked (MCSponge).                                                     *)
(*                                                                         *)
(* The caller's buffers: msg is the message in[0..inLen-1] at the call,   *)
(* which the code reads through the advancing pointer in, i.e. from       *)
(* offset Len(msg) - inLen; outBuf is what has been written through the    *)
(* advancing pointer out.                                                  *)
(***************************************************************************)
EXTENDS KeccakF1600

VARIABLES
    s,          \* u8 s[200], bit by bit
    perm,       \* call interface to KeccakF1600: "idle", "call" or "busy"
    rateBytes,  \* ui R = r/8 (named so apart from KeccakF1600's LFSR R)
    sfx,        \* u8 sfx, the domain-separation suffix byte
    msg,        \* the caller's message
    inLen,      \* u64 inLen, bytes of msg not absorbed yet
    b,          \* ui b
    outBuf,     \* the bytes written to out so far
    outLen,     \* u64 outLen, bytes still to be written
    pc          \* "absorb", "padEnd" or "squeeze"

spongeVars == << s, perm, rateBytes, sfx, msg, inLen, b, outBuf, outLen, pc >>

Min2(p, q) == IF p < q THEN p ELSE q

(***************************************************************************)
(* Entry of Keccak(r, c, in, inLen, sfx, out, outLen):                     *)
(*   u8 s[200]; ui R=r/8; ui i,b=0; FOR(i,200) s[i]=0;                     *)
(***************************************************************************)
\* Mutant of KeccakEntry: "ui R=r" - the rate taken in bits, not bytes.
KeccakEntryRateInBits(r, sfx0, m, ol) ==
    /\ s = [n \in StateBits |-> 0]
    /\ perm = "idle"
    /\ rateBytes = r
    /\ sfx = sfx0 /\ msg = m /\ inLen = Len(m) /\ b = 0
    /\ outBuf = << >> /\ outLen = ol /\ pc = "absorb"

KeccakEntry(r, sfx0, m, ol) ==
    /\ s = [n \in StateBits |-> 0]
    /\ perm = "idle"
    /\ rateBytes = r \div 8
    /\ sfx = sfx0
    /\ msg = m
    /\ inLen = Len(m)
    /\ b = 0
    /\ outBuf = << >>
    /\ outLen = ol
    /\ pc = "absorb"

(***************************************************************************)
(* The same entry as a step of a caller that is running (SHA3Test's main): *)
(* from SpongeIdle, where Keccak has not been called, to the state above.  *)
(***************************************************************************)
SpongeIdle ==
    /\ s = [n \in StateBits |-> 0] /\ perm = "idle" /\ rateBytes = 1 /\ sfx = 0
    /\ msg = << >> /\ inLen = 0 /\ b = 0 /\ outBuf = << >> /\ outLen = 0
    /\ pc = "idle"

KeccakCall(r, sfx0, m, ol) ==
    /\ pc = "idle"
    /\ s' = [n \in StateBits |-> 0] /\ perm' = "idle" /\ rateBytes' = r \div 8
    /\ sfx' = sfx0 /\ msg' = m /\ inLen' = Len(m) /\ b' = 0
    /\ outBuf' = << >> /\ outLen' = ol /\ pc' = "absorb"

\* The next bytes the absorb loop reads: in[0..blen-1].
InBlock(blen) == SubSeq(msg, Len(msg) - inLen + 1, Len(msg) - inLen + blen)

(***************************************************************************)
(* One iteration of                                                        *)
(*   while(inLen>0) { b=(inLen<R)?inLen:R; FOR(i,b) s[i]^=in[i];           *)
(*                    in+=b; inLen-=b;                                     *)
(*                    if (b==R) { KeccakF1600(s); b=0; } }                 *)
(* AbsorbBlock takes a full block (b == R) and calls the permutation;      *)
(* AbsorbTail takes the last, partial block and leaves b at its length.   *)
(***************************************************************************)
AbsorbBlock ==
    /\ pc = "absorb" /\ perm = "idle" /\ inLen > 0
    /\ Min2(inLen, rateBytes) = rateBytes
    /\ s' = XorBytes(s, InBlock(rateBytes))
    /\ inLen' = inLen - rateBytes
    /\ perm' = "call"
    /\ b' = 0
    /\ UNCHANGED << rateBytes, sfx, msg, outBuf, outLen, pc >>

\* Mutant of AbsorbTail: the partial block without "in+=b; inLen-=b;".
AbsorbTailNoAdvance ==
    /\ pc = "absorb" /\ perm = "idle" /\ inLen > 0
    /\ Min2(inLen, rateBytes) # rateBytes
    /\ s' = XorBytes(s, InBlock(inLen))
    /\ b' = inLen
    /\ UNCHANGED << perm, rateBytes, sfx, msg, inLen, outBuf, outLen, pc >>

AbsorbTail ==
    /\ pc = "absorb" /\ perm = "idle" /\ inLen > 0
    /\ Min2(inLen, rateBytes) # rateBytes
    /\ s' = XorBytes(s, InBlock(inLen))
    /\ b' = inLen
    /\ inLen' = 0
    /\ UNCHANGED << perm, rateBytes, sfx, msg, outBuf, outLen, pc >>

(***************************************************************************)
(* The first half of the pad line, once the absorb loop has exited:        *)
(*   s[b]^=sfx; if((sfx&0x80)&&(b==(R-1))) KeccakF1600(s);                 *)
(***************************************************************************)
\* Mutant of PadEdge: "b==R" instead of "b==(R-1)".
PadEdgeOffByOne(b0, sfx0, rb) == sfx0 >= 128 /\ b0 = rb
PadEdge(b0, sfx0, rb) == sfx0 >= 128 /\ b0 = rb - 1

PadSuffix ==
    /\ pc = "absorb" /\ perm = "idle" /\ inLen = 0
    /\ ~PadEdge(b, sfx, rateBytes)
    /\ s' = XorByteAt(s, b, sfx)
    /\ pc' = "padEnd"
    /\ UNCHANGED << perm, rateBytes, sfx, msg, inLen, b, outBuf, outLen >>

PadSuffixEdge ==
    /\ pc = "absorb" /\ perm = "idle" /\ inLen = 0
    /\ PadEdge(b, sfx, rateBytes)
    /\ s' = XorByteAt(s, b, sfx)
    /\ perm' = "call"
    /\ pc' = "padEnd"
    /\ UNCHANGED << rateBytes, sfx, msg, inLen, b, outBuf, outLen >>

\* The second half:  s[R-1]^=0x80; KeccakF1600(s);
PadEnd ==
    /\ pc = "padEnd" /\ perm = "idle"
    /\ s' = XorByteAt(s, rateBytes - 1, 128)
    /\ perm' = "call"
    /\ pc' = "squeeze"
    /\ UNCHANGED << rateBytes, sfx, msg, inLen, b, outBuf, outLen >>

(***************************************************************************)
(* One iteration of                                                        *)
(*   while(outLen>0) { b=(outLen<R)?outLen:R; FOR(i,b) out[i]=s[i];        *)
(*                     out+=b; outLen-=b; if(outLen>0) KeccakF1600(s); }   *)
(***************************************************************************)
OutBlock(blen) == [k \in 1..blen |-> StateByte(s, k - 1)]

\* More output is required after this block: the loop calls KeccakF1600.
SqueezeBlock ==
    /\ pc = "squeeze" /\ perm = "idle" /\ outLen > 0
    /\ LET blen == Min2(outLen, rateBytes)
       IN  /\ outLen - blen > 0
           /\ b' = blen
           /\ outBuf' = outBuf \o OutBlock(blen)
           /\ outLen' = outLen - blen
    /\ perm' = "call"
    /\ UNCHANGED << s, rateBytes, sfx, msg, inLen, pc >>

\* The last block: outLen reaches 0 and the loop exits without a call.
SqueezeLast ==
    /\ pc = "squeeze" /\ perm = "idle" /\ outLen > 0
    /\ LET blen == Min2(outLen, rateBytes)
       IN  /\ outLen - blen = 0
           /\ b' = blen
           /\ outBuf' = outBuf \o OutBlock(blen)
           /\ outLen' = 0
    /\ UNCHANGED << s, perm, rateBytes, sfx, msg, inLen, pc >>

SpongeNext ==
    \/ AbsorbBlock \/ AbsorbTail \/ PadSuffix \/ PadSuffixEdge \/ PadEnd
    \/ SqueezeBlock \/ SqueezeLast

\* Keccak has returned: the squeeze loop has exited.
Returned == pc = "squeeze" /\ outLen = 0 /\ perm = "idle"

SpongeTypeOK ==
    /\ s \in [StateBits -> {0, 1}]
    /\ perm \in {"idle", "call", "busy"}
    /\ rateBytes \in 1..200
    /\ sfx \in 0..255
    /\ inLen \in 0..Len(msg)
    /\ b \in 0..rateBytes
    /\ outBuf \in Seq(0..255)
    /\ outLen \in Nat
    /\ pc \in {"idle", "absorb", "padEnd", "squeeze"}

=============================================================================
