------------------------------ MODULE Fibonacci ------------------------------
(***************************************************************************)
(* src/_coin/reference_tests/fibonacci/fibonacci.c: the memoised          *)
(* recursion fib_memo with its static cache, the wrapper fib that clears   *)
(* the cache and rejects n = 0 and n > MAX_FIB_N, and the harness main     *)
(* that reads a test index and returns 42 (index out of bounds), 0 (the    *)
(* result equals the vector's expected_result) or 1.                       *)
(*                                                                         *)
(* The recursion is executed frame by frame: stack holds the frames of     *)
(* fib_memo, innermost last; a frame is at "enter", "first" (waiting for    *)
(* fib_memo(n-1)) or "second" (waiting for fib_memo(n-2), the first result *)
(* kept in r1).  ret is the value the last returning call handed back.     *)
(*                                                                         *)
(* An unsigned int is a pair <<hi, lo>> of 16-bit halves: its value is     *)
(* hi * 2^16 + lo, and addition wraps mod 2^32 as in the code.             *)
(***************************************************************************)
EXTENDS Integers, Sequences

VARIABLES
    pc,          \* "main", "fib", "memo", "ret" (fib returned) or "done"
    viaMain,     \* fib was called by main (FALSE: called directly)
    test_index,  \* unsigned int test_index = *INPUT_ADDRESS
    n,           \* the argument of fib
    stack,       \* the fib_memo frames, innermost last
    cache,       \* static unsigned int cache[MAX_FIB_N + 1]
    ret,         \* the value returned by the last call
    exitCode     \* main's return value

fibVars == << pc, viaMain, test_index, n, stack, cache, ret, exitCode >>

Half == 65536
Zero == << 0, 0 >>
One  == << 0, 1 >>
\* a + b of two unsigned ints, wrapping mod 2^32; Carry is the bit lost.
U32Add(a, b) ==
    LET lo == a[2] + b[2]
    IN  << (a[1] + b[1] + lo \div Half) % Half, lo % Half >>
Carry(a, b) == (a[1] + b[1] + (a[2] + b[2]) \div Half) \div Half

\* Mutant of MAX_FIB_N: one lower.
MAX_FIB_N_Low == 46
MAX_FIB_N == 47

\* static const FibonacciTestVector test_vectors[] = { {1, 1}, ... };
test_vectors ==
    << [n |-> 1, expected_result |-> << 0, 1 >>],
       [n |-> 2, expected_result |-> << 0, 1 >>],
       [n |-> 5, expected_result |-> << 0, 5 >>],
       [n |-> 10, expected_result |-> << 0, 55 >>],
       [n |-> 20, expected_result |-> << 0, 6765 >>],
       [n |-> 30, expected_result |-> << 12, 45608 >>],
       [n |-> 40, expected_result |-> << 1561, 32459 >>],
       [n |-> 45, expected_result |-> << 17317, 16258 >>],
       [n |-> 46, expected_result |-> << 28019, 58719 >>],
       [n |-> 47, expected_result |-> << 45337, 9441 >>] >>
NumVectors == Len(test_vectors)   \* sizeof(test_vectors)/sizeof(...)

-----------------------------------------------------------------------------
(* main *)

MainOutOfBounds ==
    /\ pc = "main" /\ test_index >= NumVectors
    /\ exitCode' = 42 /\ pc' = "done"
    /\ UNCHANGED << viaMain, test_index, n, stack, cache, ret >>

\* result = fib(selected_test->n)
MainCallFib ==
    /\ pc = "main" /\ test_index < NumVectors
    /\ n' = test_vectors[test_index + 1].n /\ pc' = "fib"
    /\ UNCHANGED << viaMain, test_index, stack, cache, ret, exitCode >>

\* if (result == selected_test->expected_result) return 0; else return 1;
MainCompare ==
    /\ pc = "ret" /\ viaMain
    /\ exitCode' = IF ret = test_vectors[test_index + 1].expected_result THEN 0 ELSE 1
    /\ pc' = "done"
    /\ UNCHANGED << viaMain, test_index, n, stack, cache, ret >>

(* fib *)

\* if (n == 0) return 0;  if (n > MAX_FIB_N) return 0;
FibReject ==
    /\ pc = "fib" /\ (n = 0 \/ n > MAX_FIB_N)
    /\ ret' = Zero /\ pc' = "ret"
    /\ UNCHANGED << viaMain, test_index, n, stack, cache, exitCode >>

\* Mutant of FibStart: started without the n > MAX_FIB_N check.
FibStartUnbounded ==
    /\ pc = "fib" /\ n # 0
    /\ cache' = [k \in DOMAIN cache |-> IF k \in {1, 2} THEN One ELSE Zero]
    /\ stack' = << [n |-> n, st |-> "enter", r1 |-> Zero] >>
    /\ pc' = "memo"
    /\ UNCHANGED << viaMain, test_index, n, ret, exitCode >>

\* Clear cache[0..MAX_FIB_N]; cache[1] = cache[2] = 1; return fib_memo(n).
FibStart ==
    /\ pc = "fib" /\ n # 0 /\ n <= MAX_FIB_N
    /\ cache' = [k \in DOMAIN cache |-> IF k \in {1, 2} THEN One ELSE Zero]
    /\ stack' = << [n |-> n, st |-> "enter", r1 |-> Zero] >>
    /\ pc' = "memo"
    /\ UNCHANGED << viaMain, test_index, n, ret, exitCode >>

(* fib_memo: the innermost frame top takes a step *)

top == stack[Len(stack)]
SetTop(f) == [stack EXCEPT ![Len(stack)] = f]
Frame(m) == [n |-> m, st |-> "enter", r1 |-> Zero]

\* return v: pop the frame; the outermost one returns to fib's caller.
MemoReturn(v) ==
    /\ stack' = SubSeq(stack, 1, Len(stack) - 1)
    /\ ret' = v
    /\ pc' = IF Len(stack) = 1 THEN "ret" ELSE "memo"

\* if (n <= 2) return 1;
MemoBase ==
    /\ pc = "memo" /\ top.st = "enter" /\ top.n <= 2
    /\ MemoReturn(One)
    /\ UNCHANGED << viaMain, test_index, n, cache, exitCode >>

\* if (cache[n] != 0) return cache[n];
MemoHit ==
    /\ pc = "memo" /\ top.st = "enter" /\ top.n > 2 /\ cache[top.n] # Zero
    /\ MemoReturn(cache[top.n])
    /\ UNCHANGED << viaMain, test_index, n, cache, exitCode >>

\* Mutant of MemoCallFirst: fib_memo(n) for fib_memo(n - 1).
MemoCallFirstSameN ==
    /\ pc = "memo" /\ top.st = "enter" /\ top.n > 2 /\ cache[top.n] = Zero
    /\ stack' = Append(SetTop([top EXCEPT !.st = "first"]), Frame(top.n))
    /\ UNCHANGED << pc, viaMain, test_index, n, cache, ret, exitCode >>

\* The call fib_memo(n - 1).
MemoCallFirst ==
    /\ pc = "memo" /\ top.st = "enter" /\ top.n > 2 /\ cache[top.n] = Zero
    /\ stack' = Append(SetTop([top EXCEPT !.st = "first"]), Frame(top.n - 1))
    /\ UNCHANGED << pc, viaMain, test_index, n, cache, ret, exitCode >>

\* fib_memo(n - 1) returned; the call fib_memo(n - 2).
\* Mutant of MemoCallSecond: the second call is fib_memo(n-1) again.
MemoCallSecondSameArg ==
    /\ pc = "memo" /\ top.st = "first"
    /\ stack' = Append(SetTop([top EXCEPT !.st = "second", !.r1 = ret]), Frame(top.n - 1))
    /\ UNCHANGED << pc, viaMain, test_index, n, cache, ret, exitCode >>

MemoCallSecond ==
    /\ pc = "memo" /\ top.st = "first"
    /\ stack' = Append(SetTop([top EXCEPT !.st = "second", !.r1 = ret]), Frame(top.n - 2))
    /\ UNCHANGED << pc, viaMain, test_index, n, cache, ret, exitCode >>

\* Mutant of MemoCombine: the result cached one slot too low.
MemoCombineSlotBelow ==
    /\ pc = "memo" /\ top.st = "second"
    /\ LET result == U32Add(top.r1, ret)
       IN  /\ cache' = [cache EXCEPT ![top.n - 1] = result]
           /\ MemoReturn(result)
    /\ UNCHANGED << viaMain, test_index, n, exitCode >>

\* result = fib_memo(n - 1) + fib_memo(n - 2); cache[n] = result; return result;
MemoCombine ==
    /\ pc = "memo" /\ top.st = "second"
    /\ LET result == U32Add(top.r1, ret)
       IN  /\ cache' = [cache EXCEPT ![top.n] = result]
           /\ MemoReturn(result)
    /\ UNCHANGED << viaMain, test_index, n, exitCode >>

FibNext ==
    \/ MainOutOfBounds \/ MainCallFib \/ MainCompare
    \/ FibReject \/ FibStart
    \/ MemoBase \/ MemoHit \/ MemoCallFirst \/ MemoCallSecond \/ MemoCombine

-----------------------------------------------------------------------------
\* The static cache is zero before the program's first call.
FibInit(callers) ==
    /\ cache = [k \in 0..MAX_FIB_N |-> Zero]
    /\ stack = << >> /\ ret = Zero /\ exitCode = 0
    /\ \E c \in callers :
         \/ c.main /\ viaMain = TRUE /\ pc = "main" /\ test_index = c.arg /\ n = 0
         \/ ~c.main /\ viaMain = FALSE /\ pc = "fib" /\ test_index = 0 /\ n = c.arg

\* F(0) .. F(47), the Fibonacci numbers that fit in 32 bits (OEIS A000045),
\* as << hi, lo >> halves.
FibTable ==
    << << 0, 0 >>, << 0, 1 >>, << 0, 1 >>, << 0, 2 >>, << 0, 3 >>, << 0, 5 >>,
       << 0, 8 >>, << 0, 13 >>, << 0, 21 >>, << 0, 34 >>, << 0, 55 >>, << 0, 89 >>,
       << 0, 144 >>, << 0, 233 >>, << 0, 377 >>, << 0, 610 >>, << 0, 987 >>, << 0, 1597 >>,
       << 0, 2584 >>, << 0, 4181 >>, << 0, 6765 >>, << 0, 10946 >>, << 0, 17711 >>, << 0, 28657 >>,
       << 0, 46368 >>, << 1, 9489 >>, << 1, 55857 >>, << 2, 65346 >>, << 4, 55667 >>, << 7, 55477 >>,
       << 12, 45608 >>, << 20, 35549 >>, << 33, 15621 >>, << 53, 51170 >>, << 87, 1255 >>, << 140, 52425 >>,
       << 227, 53680 >>, << 368, 40569 >>, << 596, 28713 >>, << 965, 3746 >>, << 1561, 32459 >>, << 2526, 36205 >>,
       << 4088, 3128 >>, << 6614, 39333 >>, << 10702, 42461 >>, << 17317, 16258 >>, << 28019, 58719 >>, << 45337, 9441 >> >>
FibRef(k) == FibTable[k + 1]

FibTypeOK ==
    /\ pc \in {"main", "fib", "memo", "ret", "done"}
    /\ viaMain \in BOOLEAN
    /\ test_index \in Nat /\ n \in Nat
    /\ cache \in [0..MAX_FIB_N -> (0..(Half - 1)) \X (0..(Half - 1))]
    /\ ret \in (0..(Half - 1)) \X (0..(Half - 1))
    /\ stack \in Seq([n : 1..MAX_FIB_N, st : {"enter", "first", "second"},
                      r1 : (0..(Half - 1)) \X (0..(Half - 1))])
    /\ exitCode \in {0, 1, 42}

(***************************************************************************)
(* The memo is sound: at every point of the recursion, a non-zero entry    *)
(* cache[k] holds F(k).  fib_memo trusts any non-zero entry, so one value  *)
(* stored in the wrong slot would be returned by later calls.              *)
(***************************************************************************)
CacheSound ==
    \A k \in 0..47 : (k \in DOMAIN cache /\ cache[k] # Zero) => cache[k] = FibRef(k)

StackDepth ==
    Len(stack) <= IF n > 2 THEN n - 1 ELSE 1

(***************************************************************************)
(* main's verdict: an index past the table returns 42, and every vector of *)
(* the table passes (returns 0): fib, its bound and the expected results   *)
(* agree for all ten vectors.                                              *)
(***************************************************************************)
HarnessVerdict ==
    (pc = "done" /\ viaMain) =>
        exitCode = IF test_index >= NumVectors THEN 42 ELSE 0

=============================================================================
