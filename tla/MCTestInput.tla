----------------------------- MODULE MCTestInput -----------------------------
(***************************************************************************)
(* Every input whose bytes are, one by one, the byte the test expects or   *)
(* that byte with its top bit flipped: the flip of byte 3 or 7 makes the   *)
(* loaded int negative or non-negative.                                    *)
(***************************************************************************)
EXTENDS TestInput

\* 34 12 00 00 ef be ad de: 0x00001234 then 0xdeadbeef, little-endian.
Expected == << 52, 18, 0, 0, 239, 190, 173, 222 >>
FlipTop(b) == IF b >= 128 THEN b - 128 ELSE b + 128

Inputs == { [k \in 0..7 |-> IF k \in s THEN FlipTop(Expected[k + 1]) ELSE Expected[k + 1]]
            : s \in SUBSET (0..7) }

MCSpec == InputInit(Inputs) /\ [][InputNext]_inputVars

(***************************************************************************)
(* test_input passes exactly for the input bytes 34 12 00 00 ef be ad de,  *)
(* and fails with 1 when the first word differs and 2 when only the second *)
(* does: the signed load of *z and the conversion to unsigned in the       *)
(* comparison with 0xdeadbeef accept the bit pattern of 0xdeadbeef, which  *)
(* as an int is negative.                                                  *)
(***************************************************************************)
InputVerdict ==
    pc = "done" =>
        exitCode = CASE [k \in 0..3 |-> mem[k]] # [k \in 0..3 |-> Expected[k + 1]] -> 1
                     [] [k \in 4..7 |-> mem[k]] # [k \in 4..7 |-> Expected[k + 1]] -> 2
                     [] OTHER -> 0

=============================================================================
