------------------------- MODULE MCKeccakF1600Loop --------------------------
(***************************************************************************)
(* One call of KeccakF1600 for each of a few states the sponge passes it:  *)
(* the zero state (after absorbing a block of zero bytes), and the padded  *)
(* states of the empty message for SHA3-256 (sfx 0x06, R = 136) and       *)
(* SHAKE128 (sfx 0x1F, R = 168).                                           *)
(***************************************************************************)
EXTENDS KeccakF1600Loop

\* The state after "s[0]^=sfx; s[R-1]^=0x80;" on the zero state.
PaddedEmpty(sfx, rate) ==
    [n \in StateBits |->
        (IF n \div 8 = 0 THEN ByteBit(sfx, n % 8) ELSE 0)
        + (IF n = 8 * (rate - 1) + 7 THEN 1 ELSE 0)]

Inputs == { [n \in StateBits |-> 0], PaddedEmpty(6, 136), PaddedEmpty(31, 168) }

MCInit ==
    /\ s \in Inputs
    /\ sRound = s
    /\ perm = "call"
    /\ phase = "theta"
    /\ i = 0 /\ R = 1
    /\ x = 0 /\ y = 0 /\ r = 0 /\ D = ZeroLane /\ j = 0

MCSpec == MCInit /\ [][LoopNext]_loopVars
=============================================================================
