----------------------------- MODULE QuicksortTest -----------------------------
(***************************************************************************)
(* src/_coin/reference_tests/quicksort/quicksort_test.c: main reads a test *)
(* index, returns 42 past the table, and otherwise runs run_test_case: the *)
(* size check, one of three generators (the random one driven by the LCG   *)
(* simple_rand), copy_array, quicksort when the size exceeds 1, and the    *)
(* check sorted().  One action per loop iteration of the generators and of *)
(* copy_array.                                                             *)
(*                                                                         *)
(* quicksort and sorted come from sortlib (quicksort.c, sorted.c, sort.h), *)
(* which is not in the repository: quicksort is its contract, the array    *)
(* test_array[0..size-1] sorted in place, and sorted() returns whether the *)
(* array is in non-decreasing order.  KEY_T is an integer type; the keys   *)
(* are below 1000.                                                         *)
(***************************************************************************)
EXTENDS Integers, Sequences, TLC

VARIABLES
    test_index,      \* unsigned int test_index = *INPUT_ADDRESS
    pc,              \* "main", "run", "gen", "copy", "check", "done"
    rng_state,       \* static unsigned long rng_state
    original_array,  \* original_array[0 .. Len-1] as written so far
    test_array,      \* test_array[0 .. Len-1] as written so far
    i,               \* the loop counter of the generator or of copy_array
    exitCode         \* main's return value

qsVars == << test_index, pc, rng_state, original_array, test_array, i, exitCode >>

MAX_ARRAY_SIZE == 100
NUM_TEST_CASES == 14

\* {array_size, seed, test_type}: 0 = random, 1 = sorted, 2 = reverse
test_cases ==
    << [array_size |-> 5, seed |-> 42, test_type |-> 0],
       [array_size |-> 10, seed |-> 123, test_type |-> 0],
       [array_size |-> 20, seed |-> 456, test_type |-> 0],
       [array_size |-> 50, seed |-> 789, test_type |-> 0],
       [array_size |-> 5, seed |-> 0, test_type |-> 1],
       [array_size |-> 10, seed |-> 0, test_type |-> 1],
       [array_size |-> 20, seed |-> 0, test_type |-> 1],
       [array_size |-> 5, seed |-> 0, test_type |-> 2],
       [array_size |-> 10, seed |-> 0, test_type |-> 2],
       [array_size |-> 20, seed |-> 0, test_type |-> 2],
       [array_size |-> 1, seed |-> 1, test_type |-> 0],
       [array_size |-> 2, seed |-> 2, test_type |-> 0],
       [array_size |-> 3, seed |-> 3, test_type |-> 0],
       [array_size |-> 100, seed |-> 999, test_type |-> 0] >>

test == test_cases[test_index + 1]
size == test.array_size

(***************************************************************************)
(* simple_rand: rng_state = (rng_state * 1103515245 + 12345) & 0x7fffffff. *)
(* Only the low 31 bits survive the mask, so the product is needed mod     *)
(* 2^31 whatever the width of unsigned long; it is formed from 16-bit      *)
(* halves (1103515245 = 16838 * 2^16 + 20077) so that no intermediate      *)
(* value reaches 2^31.                                                     *)
(***************************************************************************)
\* Mutant of simple_rand: "+ 12345" left out.
simple_rand_NoIncrement(x) ==
    LET lo  == (x % 65536) * 20077
        mid == ((x \div 65536) * 20077 + (x % 65536) * 16838 + lo \div 65536) % 32768
    IN  mid * 65536 + (lo % 65536)
simple_rand(x) ==
    LET lo  == (x % 65536) * 20077 + 12345
        mid == ((x \div 65536) * 20077 + (x % 65536) * 16838 + lo \div 65536) % 32768
    IN  mid * 65536 + (lo % 65536)

-----------------------------------------------------------------------------
\* main: if (test_index >= NUM_TEST_CASES) return 42;
MainOutOfBounds ==
    /\ pc = "main" /\ test_index >= NUM_TEST_CASES
    /\ exitCode' = 42 /\ pc' = "done"
    /\ UNCHANGED << test_index, rng_state, original_array, test_array, i >>

MainRun ==
    /\ pc = "main" /\ test_index < NUM_TEST_CASES
    /\ pc' = "run"
    /\ UNCHANGED << test_index, rng_state, original_array, test_array, i, exitCode >>

(***************************************************************************)
(* run_test_case's early returns (test_index >= NUM_TEST_CASES, and        *)
(* array_size <= 0 or > MAX_ARRAY_SIZE) are guards here with no action of  *)
(* their own: main has checked the index and every size in test_cases is   *)
(* in 1..MAX_ARRAY_SIZE, so neither is taken.  Were one taken, no action    *)
(* would be enabled at pc = "run" and the deadlock check would report it.  *)
(* Then the generator's entry: generate_random_array starts with           *)
(* simple_srand(seed).                                                     *)
(***************************************************************************)
GenStart ==
    /\ pc = "run" /\ test_index < NUM_TEST_CASES
    /\ 0 < size /\ size <= MAX_ARRAY_SIZE
    /\ rng_state' = IF test.test_type \in {1, 2} THEN rng_state ELSE test.seed
    /\ i' = 0 /\ pc' = "gen"
    /\ UNCHANGED << test_index, original_array, test_array, exitCode >>

\* One iteration: array[i] = (KEY_T)(simple_rand() % 1000), = i, or = size-i-1.
GenStep ==
    /\ pc = "gen" /\ i < size
    /\ CASE test.test_type = 1 ->
              original_array' = Append(original_array, i) /\ UNCHANGED rng_state
         [] test.test_type = 2 ->
              original_array' = Append(original_array, size - i - 1) /\ UNCHANGED rng_state
         [] OTHER ->
              /\ rng_state' = simple_rand(rng_state)
              /\ original_array' = Append(original_array, simple_rand(rng_state) % 1000)
    /\ i' = i + 1
    /\ UNCHANGED << test_index, pc, test_array, exitCode >>

\* The generator's loop exits; copy_array(test_array, original_array, size).
GenDone ==
    /\ pc = "gen" /\ i = size
    /\ i' = 0 /\ pc' = "copy"
    /\ UNCHANGED << test_index, rng_state, original_array, test_array, exitCode >>

CopyStep ==
    /\ pc = "copy" /\ i < size
    /\ test_array' = Append(test_array, original_array[i + 1])
    /\ i' = i + 1
    /\ UNCHANGED << test_index, pc, rng_state, original_array, exitCode >>

\* Mutant of Sort: quicksort(test_array, 0, test->array_size - 2).
SortShort ==
    /\ pc = "copy" /\ i = size
    /\ test_array' = IF size > 1
                     THEN SortSeq(SubSeq(test_array, 1, size - 1), LAMBDA p, q : p < q)
                            \o << test_array[size] >>
                     ELSE test_array
    /\ pc' = "check"
    /\ UNCHANGED << test_index, rng_state, original_array, i, exitCode >>

\* if (test->array_size > 1) quicksort(test_array, 0, test->array_size - 1);
Sort ==
    /\ pc = "copy" /\ i = size
    /\ test_array' = IF size > 1 THEN SortSeq(test_array, LAMBDA p, q : p < q)
                     ELSE test_array
    /\ pc' = "check"
    /\ UNCHANGED << test_index, rng_state, original_array, i, exitCode >>

\* if (!sorted(test_array, test->array_size)) return 1; return 0;
Check ==
    /\ pc = "check"
    /\ exitCode' = IF \A k \in 1..(size - 1) : test_array[k] <= test_array[k + 1]
                   THEN 0 ELSE 1
    /\ pc' = "done"
    /\ UNCHANGED << test_index, rng_state, original_array, test_array, i >>

\* main has returned: the program stops (a stuttering step, not a deadlock).
Terminating == pc = "done" /\ UNCHANGED qsVars

QsNext ==
    \/ MainOutOfBounds \/ MainRun \/ GenStart \/ GenStep
    \/ GenDone \/ CopyStep \/ Sort \/ Check \/ Terminating

\* static unsigned long rng_state = 12345; the arrays are uninitialised.
QsInit(indexes) ==
    /\ test_index \in indexes /\ pc = "main" /\ rng_state = 12345
    /\ original_array = << >> /\ test_array = << >> /\ i = 0 /\ exitCode = 0

=============================================================================
