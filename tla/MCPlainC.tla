------------------------------- MODULE MCPlainC -------------------------------
(***************************************************************************)
(* plainc.c's main over memory whose cells are the bytes it stores to,     *)
(* the bytes next to each store and the console word.  The input is        *)
(* unknown: the cells next to a store start as 0 or 255, the others as     *)
(* 0xEE, a value none of the stores writes.                                *)
(***************************************************************************)
EXTENDS PlainC

Written == {4092, 4093, 4094, 4095, 5, 6, 7, 8, 13, 14, 19, 20, 24, 25, 26, 27}
Neighbours == {4, 9, 12, 15, 18, 21, 23, 28, 4091}
Console == {4096, 4097, 4098, 4099}
Cells == Written \cup Neighbours \cup Console

Inputs ==
    { [o \in Cells |-> IF o \in Neighbours THEN f[o] ELSE 238] : f \in [Neighbours -> {0, 255}] }

MCSpec == PlainInit(Inputs) /\ [][PlainNext]_plainVars

\* The cells a step changes.
Changed == {o \in DOMAIN mem' : o \notin DOMAIN mem \/ mem'[o] # mem[o]}

(***************************************************************************)
(* main's own stores stay inside the input section ("testing section      *)
(* limits": the last one is the section's last word, next to the console   *)
(* word STDOOUT_ADDRESS), and print_literal's steps write only the console *)
(* byte.                                                                   *)
(***************************************************************************)
StoresStayInSection ==
    [][Changed \subseteq (IF mainPc = "print" THEN {CONSOLE_BYTE} ELSE 0..(INPUT_SIZE - 1))]_plainVars

=============================================================================
