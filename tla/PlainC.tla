-------------------------------- MODULE PlainC --------------------------------
(***************************************************************************)
(* src/docker-riscv32/plainc.c: main's stores into the input section, its  *)
(* dead early returns, and the call print_literal("Hello world\n", 12) of  *)
(* docker-riscv32/emulator.h, the word version, composed through INSTANCE  *)
(* PrintLiteral.                                                           *)
(*                                                                         *)
(* mem maps offsets from INPUT_ADDRESS (0xA0000000) to bytes; the console  *)
(* word STDOOUT_ADDRESS is the offset INPUT_SIZE = 0x1000 and print_literal *)
(* stores each character to its last byte.  RV32 is little-endian and     *)
(* takes the misaligned stores the code makes.  The arithmetic of main     *)
(* (c .. g1, div, mod) is computed into unused locals and left out, except *)
(* the product that guards an early return.                                *)
(***************************************************************************)
EXTENDS Integers, Sequences, TLC

VARIABLES
    mainPc,    \* "start", "arith", "sw", "sh", "sh2", "bytes", "print", "done"
    mem,       \* the bytes of the input section and of the console word
    input,     \* mem as it was when main started (never changes)
    y3,        \* char* y3, as an offset
    exitCode,  \* main's return value, as << hi, lo >> 16-bit halves
    impl, len, i, j, pc, out   \* print_literal's, see PrintLiteral

plainVars == << mainPc, mem, input, y3, exitCode, impl, len, i, j, pc, out >>

P == INSTANCE PrintLiteral

\* #define INPUT_SIZE 0x1000; STDOOUT_ADDRESS = INPUT_ADDRESS + INPUT_SIZE
INPUT_SIZE == 4096
CONSOLE_BYTE == INPUT_SIZE + 3   \* addr = STDOOUT_ADDRESS; addr += 3

\* The w bytes of v in memory order on a little-endian target.
LE(v, w) == [k \in 1..w |-> (v \div 256^(k - 1)) % 256]

\* A store of the bytes bs at offset off.
Store(m, off, bs) ==
    [o \in DOMAIN m \cup {off + k : k \in 0..(Len(bs) - 1)} |->
        IF off <= o /\ o < off + Len(bs) THEN bs[o - off + 1] ELSE m[o]]

\* "Hello world\n"
HelloWorld == << 72, 101, 108, 108, 111, 32, 119, 111, 114, 108, 100, 10 >>

\* *y3 = 0x11; y3++; ... *y3 = 0x44; y3++;
ByteValues == << 17, 34, 51, 68 >>

-----------------------------------------------------------------------------
\* Mutant of SectionLimit: z += 0x1000 / 4 without the z--.
SectionLimitNoDecrement ==
    /\ mainPc = "start"
    /\ mem' = Store(mem, 4 * (INPUT_SIZE \div 4), LE(10, 4))
    /\ mainPc' = "arith"
    /\ UNCHANGED << input, y3, exitCode, impl, len, i, j, pc, out >>

\* x++; int* z = INPUT_ADDRESS; z += 0x1000 / 4; z--; *z = 10;
SectionLimit ==
    /\ mainPc = "start"
    /\ mem' = Store(mem, 4 * (INPUT_SIZE \div 4 - 1), LE(10, 4))
    /\ mainPc' = "arith"
    /\ UNCHANGED << input, y3, exitCode, impl, len, i, j, pc, out >>

\* int a = 10, b = 20; ...; if (a * b != 200) return 0xeeee;
Arith ==
    /\ mainPc = "arith"
    /\ IF 10 * 20 # 200 THEN mainPc' = "done" /\ exitCode' = << 0, 61166 >>
                       ELSE mainPc' = "sw" /\ UNCHANGED exitCode
    /\ UNCHANGED << mem, input, y3, impl, len, i, j, pc, out >>

\* int* z2 = INPUT_ADDRESS + 5; *z2 = 0x01020304;
StoreWordMisaligned ==
    /\ mainPc = "sw"
    /\ mem' = Store(mem, 5, LE(16909060, 4))
    /\ mainPc' = "sh"
    /\ UNCHANGED << input, y3, exitCode, impl, len, i, j, pc, out >>

\* short* y = INPUT_ADDRESS + 0xd; *y = 0x1234;
StoreHalfMiddle ==
    /\ mainPc = "sh"
    /\ mem' = Store(mem, 13, LE(4660, 2))
    /\ mainPc' = "sh2"
    /\ UNCHANGED << input, y3, exitCode, impl, len, i, j, pc, out >>

\* short* y2 = INPUT_ADDRESS + 0x13; *y2 = 0xAABB;  char* y3 = ... + 0x18;
StoreHalfTwoWords ==
    /\ mainPc = "sh2"
    /\ mem' = Store(mem, 19, LE(43707, 2))
    /\ y3' = 24 /\ mainPc' = "bytes"
    /\ UNCHANGED << input, exitCode, impl, len, i, j, pc, out >>

\* One of the four statements *y3 = 0x11 * k; y3++;
StoreByte ==
    /\ mainPc = "bytes" /\ y3 < 28
    /\ mem' = Store(mem, y3, << ByteValues[y3 - 23] >>)
    /\ y3' = y3 + 1
    /\ UNCHANGED << mainPc, input, exitCode, impl, len, i, j, pc, out >>

\* char a1 = *(INPUT_ADDRESS + 0x20) (unused); print_literal("Hello world\n", 12);
CallPrint ==
    /\ mainPc = "bytes" /\ y3 = 28
    /\ impl' = "word" /\ len' = 12 /\ i' = 0 /\ j' = 0 /\ pc' = "outer" /\ out' = << >>
    /\ mainPc' = "print"
    /\ UNCHANGED << mem, input, y3, exitCode >>

\* A step of print_literal; a character sent is *addr = str[i+j] and ecall 116.
PrintStep ==
    /\ mainPc = "print"
    /\ P!PrintNext
    /\ IF Len(out') > Len(out)
         THEN LET ch == HelloWorld[out'[Len(out')] + 1]
              IN  mem' = [mem EXCEPT ![CONSOLE_BYTE] = ch]
         ELSE UNCHANGED mem
    /\ UNCHANGED << mainPc, input, y3, exitCode >>

\* char bxxx = 0, cxxx = 1; if (bxxx > cxxx) return 0x12345678; return 0x87654321;
Return ==
    /\ mainPc = "print" /\ pc = "done"
    /\ exitCode' = IF 0 > 1 THEN << 4660, 22136 >> ELSE << 34661, 17185 >>
    /\ mainPc' = "done"
    /\ UNCHANGED << mem, input, y3, impl, len, i, j, pc, out >>

\* main has returned: the program stops.
Terminating == mainPc = "done" /\ UNCHANGED plainVars

PlainNext ==
    \/ SectionLimit \/ Arith \/ StoreWordMisaligned \/ StoreHalfMiddle
    \/ StoreHalfTwoWords \/ StoreByte \/ CallPrint \/ PrintStep \/ Return
    \/ Terminating

PlainInit(inputs) ==
    /\ input \in inputs /\ mem = input
    /\ mainPc = "start" /\ y3 = 0 /\ exitCode = << 0, 0 >>
    /\ impl = "word" /\ len = 0 /\ i = 0 /\ j = 0 /\ pc = "outer" /\ out = << >>

=============================================================================
