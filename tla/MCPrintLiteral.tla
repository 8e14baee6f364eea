--------------------------- MODULE MCPrintLiteral ---------------------------
(***************************************************************************)
(* One call of print_literal of the versions Impls, with every length of   *)
(* up to three words and a quarter, and a negative length.               *)
(***************************************************************************)
EXTENDS PrintLiteral

CONSTANT Impls

Lens == -1..13

MCSpec == PrintInit(Impls, Lens) /\ [][PrintNext]_printVars

=============================================================================
