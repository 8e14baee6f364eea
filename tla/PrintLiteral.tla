---------------------------- MODULE PrintLiteral ----------------------------
(***************************************************************************)
(* print_literal(char* str, int len), the guest's console output: each     *)
(* character is stored to the last byte of the word at STDOOUT_ADDRESS and *)
(* handed to the host with ecall 116.  Two versions exist:                 *)
(*   "word" - src/docker-riscv32/emulator.h: the characters of each 4-byte *)
(*            word are sent last byte first (str[i+3] .. str[i]);           *)
(*   "byte" - src/docker-riscv32/src/emulator.h: str[0] .. str[len-1].      *)
(* out is the sequence of the indices of str that were read and sent.      *)
(***************************************************************************)
EXTENDS Integers, Sequences

VARIABLES
    impl,   \* "word" or "byte": the version of print_literal called
    len,    \* int len
    i, j,   \* the loop counters
    pc,     \* "outer", "inner" or "done"
    out     \* indices of str sent through ecall 116, in order

printVars == << impl, len, i, j, pc, out >>

PrintInit(impls, lens) ==
    /\ impl \in impls /\ len \in lens
    /\ i = 0 /\ j = 0 /\ pc = "outer" /\ out = << >>

(* "word": for (i = 0; i < len; i += 4) for (j = 3; j >= 0; j--)            *)
(*           if (i + 3-j < len) { *addr = str[i+j]; ecall }                *)

WordOuter ==
    /\ impl = "word" /\ pc = "outer"
    /\ IF i < len THEN pc' = "inner" /\ j' = 3 ELSE pc' = "done" /\ UNCHANGED j
    /\ UNCHANGED << impl, len, i, out >>

\* Mutant of WordSends: "<=" for "<".
WordSendsInclusive(i0, j0, l) == i0 + 3 - j0 <= l
\* The condition of the inner if.
WordSends(i0, j0, l) == i0 + 3 - j0 < l

WordInner ==
    /\ impl = "word" /\ pc = "inner" /\ j >= 0
    /\ out' = IF WordSends(i, j, len) THEN Append(out, i + j) ELSE out
    /\ j' = j - 1
    /\ UNCHANGED << impl, len, i, pc >>

WordNextWord ==
    /\ impl = "word" /\ pc = "inner" /\ j < 0
    /\ i' = i + 4 /\ pc' = "outer"
    /\ UNCHANGED << impl, len, j, out >>

(* "byte": for (int i = 0; i < len; i++) { *addr = str[i]; ecall }          *)

\* The loop condition.
ByteLoops(i0, l) == i0 < l

ByteSend ==
    /\ impl = "byte" /\ pc = "outer" /\ ByteLoops(i, len)
    /\ out' = Append(out, i) /\ i' = i + 1
    /\ UNCHANGED << impl, len, j, pc >>

ByteDone ==
    /\ impl = "byte" /\ pc = "outer" /\ ~ByteLoops(i, len)
    /\ pc' = "done"
    /\ UNCHANGED << impl, len, i, j, out >>

PrintNext == WordOuter \/ WordInner \/ WordNextWord \/ ByteSend \/ ByteDone

(***************************************************************************)
(* print_literal sends exactly len characters (none for len <= 0), so the  *)
(* host's output has the length of the literal.                            *)
(***************************************************************************)
SendsLen ==
    pc = "done" => Len(out) = IF len > 0 THEN len ELSE 0

(***************************************************************************)
(* When print_literal returns, the characters it has sent are exactly      *)
(* str[0] .. str[len-1], each of them (in whatever order): it neither      *)
(* omits a character of the literal nor sends a byte at or past str[len].  *)
(***************************************************************************)
SendsEachCharacter ==
    pc = "done" => {out[k] : k \in DOMAIN out} = 0..(len - 1)

=============================================================================
