------------------------------- MODULE FibSpec -------------------------------
(***************************************************************************)
(* What src/_coin/reference_tests/fibonacci/fibonacci.c promises, with the *)
(* recursion and the cache hidden: fib(n) is one step that returns the     *)
(* n-th Fibonacci number for 1 <= n <= MAX_FIB_N and 0 otherwise (lines    *)
(* 4-5 and 42-44), and main compares it with the selected vector.  The     *)
(* call of fib eventually returns.                                         *)
(***************************************************************************)
EXTENDS Integers, Sequences

CONSTANTS
    MaxN,      \* MAX_FIB_N
    F(_),      \* F(k), the k-th Fibonacci number, as << hi, lo >> halves
    Vectors    \* test_vectors

VARIABLES pc, viaMain, test_index, n, ret, exitCode

absVars == << pc, viaMain, test_index, n, ret, exitCode >>

\* fib's result: 0 for n == 0 and n > MAX_FIB_N.
FibResult(k) == IF k = 0 \/ k > MaxN THEN << 0, 0 >> ELSE F(k)

Init ==
    /\ pc \in {"main", "fib"} /\ viaMain = (pc = "main")
    /\ test_index \in Nat /\ n \in Nat
    /\ ret = << 0, 0 >> /\ exitCode = 0

OutOfBounds ==
    /\ pc = "main" /\ test_index >= Len(Vectors)
    /\ exitCode' = 42 /\ pc' = "done"
    /\ UNCHANGED << viaMain, test_index, n, ret >>

CallFib ==
    /\ pc = "main" /\ test_index < Len(Vectors)
    /\ n' = Vectors[test_index + 1].n /\ pc' = "fib"
    /\ UNCHANGED << viaMain, test_index, ret, exitCode >>

Fib ==
    /\ pc = "fib"
    /\ ret' = FibResult(n) /\ pc' = "ret"
    /\ UNCHANGED << viaMain, test_index, n, exitCode >>

Compare ==
    /\ pc = "ret" /\ viaMain
    /\ exitCode' = IF ret = Vectors[test_index + 1].expected_result THEN 0 ELSE 1
    /\ pc' = "done"
    /\ UNCHANGED << viaMain, test_index, n, ret >>

Next == OutOfBounds \/ CallFib \/ Fib \/ Compare

Spec == Init /\ [][Next]_absVars /\ WF_absVars(Fib)

=============================================================================
