------------------------------ MODULE TestInput ------------------------------
(***************************************************************************)
(* src/docker-riscv32/src/test_input.c: main reads the first two int words *)
(* of the input section and returns 1 or 2 at the first that differs from  *)
(* its constant, else 0.  mem holds the section's first eight bytes.       *)
(*                                                                         *)
(* *z is an int (two's complement, little-endian).  0x00001234 is an int,  *)
(* so the first test compares signed values; 0xdeadbeef does not fit an   *)
(* int and is an unsigned int, so in the second test *z is converted to    *)
(* unsigned int and the comparison is of the 32-bit patterns.             *)
(***************************************************************************)
EXTENDS Integers, Sequences

VARIABLES
    pc,        \* "first", "second" or "done"
    mem,       \* the input bytes at offsets 0 .. 7
    z,         \* int* z, as an offset
    exitCode   \* main's return value

inputVars == << pc, mem, z, exitCode >>

\* The int at offset off: two's complement over four little-endian bytes.
LoadInt(m, off) ==
    LET lo == m[off] + 256 * m[off + 1]
        hi == m[off + 2] + 256 * m[off + 3]
    IN  IF hi >= 32768 THEN (hi - 65536) * 65536 + lo ELSE hi * 65536 + lo

\* Mutant of ToUnsigned: the int's value split without the conversion.
ToUnsignedKeepSign(v) == << v \div 65536, v % 65536 >>
\* (unsigned int)v, as << hi, lo >> 16-bit halves.
ToUnsigned(v) == << (v \div 65536) % 65536, v % 65536 >>

\* if (*z != 0x00001234) return 0x1;
FirstMismatch ==
    /\ pc = "first" /\ LoadInt(mem, z) # 4660
    /\ exitCode' = 1 /\ pc' = "done"
    /\ UNCHANGED << mem, z >>

\* z++;
FirstMatch ==
    /\ pc = "first" /\ LoadInt(mem, z) = 4660
    /\ z' = z + 4 /\ pc' = "second"
    /\ UNCHANGED << mem, exitCode >>

\* if (*z != 0xdeadbeef) return 0x2;
SecondMismatch ==
    /\ pc = "second" /\ ToUnsigned(LoadInt(mem, z)) # << 57005, 48879 >>
    /\ exitCode' = 2 /\ pc' = "done"
    /\ UNCHANGED << mem, z >>

\* return 0x0;
SecondMatch ==
    /\ pc = "second" /\ ToUnsigned(LoadInt(mem, z)) = << 57005, 48879 >>
    /\ exitCode' = 0 /\ pc' = "done"
    /\ UNCHANGED << mem, z >>

\* main has returned: the program stops.
Terminating == pc = "done" /\ UNCHANGED inputVars

InputNext == FirstMismatch \/ FirstMatch \/ SecondMismatch \/ SecondMatch \/ Terminating

InputInit(inputs) ==
    /\ mem \in inputs /\ pc = "first" /\ z = 0 /\ exitCode = 0

=============================================================================
