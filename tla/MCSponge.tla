------------------------------- MODULE MCSponge -------------------------------
(***************************************************************************)
(* The control of Keccak() - block boundaries, the suffix and padding      *)
(* bytes, the conditional permutation of the pad line, the squeeze loop -  *)
(* checked against the standard's sponge.  The permutation is replaced by  *)
(* a cheap stand-in (ToyPermute, a bit rotation plus a constant): the      *)
(* control does not depend on what the permutation computes, and both the  *)
(* code and the reference apply the same function, so every missing,      *)
(* extra or misplaced call or byte shows in the output.                    *)
(*                                                                         *)
(* Calls: every named variant with message lengths around one and two     *)
(* blocks of its rate, SHAKE with output lengths around one block, and     *)
(* direct calls of Keccak with suffix bytes that have the high bit set     *)
(* (the only inputs that reach the pad line's conditional permutation).   *)
(***************************************************************************)
EXTENDS SHA3Facade

VARIABLE call   \* history: the call the caller made

vars == << spongeVars, hexReq, hex, call >>

Ref == INSTANCE FIPS202

ToyPermute(st) ==
    [n \in StateBits |-> (st[(n + 1599) % 1600] + (IF n % 7 = 0 THEN 1 ELSE 0)) % 2]

\* The permutation call, answered in one step.
ToyCallee ==
    /\ perm = "call"
    /\ s' = ToyPermute(s)
    /\ perm' = "idle"
    /\ UNCHANGED << rateBytes, sfx, msg, inLen, b, outBuf, outLen, pc, hexReq, hex, call >>

\* A message of len bytes; the byte values differ from position to position.
Msg(len) == [k \in 1..len |-> (37 * k + 11) % 256]
AroundBlocks(rb) == {0, 1, rb - 1, rb, rb + 1, 2 * rb - 1, 2 * rb, 2 * rb + 1}

OutLens(rb) == {1, rb - 1, rb, rb + 1, 2 * rb + 1}
CallsOf(v) ==
    LET rb == Params[v].r \div 8
    IN  { [r |-> Params[v].r, sfx |-> Params[v].sfx, len |-> len, ol |-> OutLenOf(v, ol)] :
            len \in AroundBlocks(rb), ol \in OutLens(rb) }
FacadeCalls == UNION { CallsOf(v) : v \in Variants }
EdgeSuffixes == {128, 135}
DirectCalls ==
    { [r |-> 1088, sfx |-> d, len |-> len, ol |-> ol] :
        d \in EdgeSuffixes, len \in AroundBlocks(136), ol \in {32, 137} }

MCInit ==
    /\ call \in FacadeCalls \cup DirectCalls
    /\ KeccakEntry(call.r, call.sfx, Msg(call.len), call.ol)
    /\ hexReq = FALSE /\ hex = << >>

MCNext == (SpongeNext /\ UNCHANGED << hexReq, hex, call >>) \/ ToyCallee

\* One thread runs the call; whenever it has a next statement it executes
\* it, and the permutation it calls returns.
MCSpec == MCInit /\ [][MCNext]_vars /\ WF_vars(MCNext)

(***************************************************************************)
(* When Keccak returns, out holds exactly the first outLen bytes of        *)
(* SPONGE[f, pad10*1, r](M || suffix, 8*outLen) for the r, suffix byte and *)
(* message of the call: every block boundary, the placement of the suffix  *)
(* and of the final 0x80, the extra permutation when both padding bits     *)
(* fall in the last byte of a block, and the squeeze loop's partial last   *)
(* block agree with the standard.                                          *)
(***************************************************************************)
MatchesFIPSSponge ==
    Returned =>
        Ref!BitsOfBytes(outBuf)
            = Ref!KeccakBits(ToyPermute, call.r, Msg(call.len), call.sfx, call.ol)

(***************************************************************************)
(* Every call of Keccak returns: the absorb loop consumes the message, the *)
(* pad line and the squeeze loop run once each, and every KeccakF1600 call *)
(* the sponge makes hands control back.                                    *)
(***************************************************************************)
Termination == <>Returned

=============================================================================
