------------------------------ MODULE ChaChaTest ------------------------------
(***************************************************************************)
(* src/_coin/reference_tests/chacha/chacha_test.c: main reads a test index *)
(* from INPUT_ADDRESS, returns 42 past the table, 1 for a plaintext longer *)
(* than MAX_BUFFER_SIZE, and otherwise copies the plaintext into a buffer, *)
(* runs ChaCha20_init and one ChaCha20_xor over it, and returns 0 when the *)
(* buffer equals the expected ciphertext, 1 otherwise.                     *)
(*                                                                         *)
(* The table chacha20_test_vectors comes from a generated header that is   *)
(* not in the repository; it is the constant chacha20_test_vectors, a      *)
(* sequence of records [key, nonce, count, plaintext, expected_ciphertext] *)
(* (count a uint32_t pair as in ChaCha20).                                 *)
(***************************************************************************)
EXTENDS ChaCha20

CONSTANT chacha20_test_vectors

VARIABLES
    test_index,   \* uint32_t test_index = *input_ptr
    hpc,          \* main's position: "main", "xor" (in ChaCha20_xor) or "done"
    exitCode      \* main's return value

testVars == << ctxVars, test_index, hpc, exitCode >>

MAX_BUFFER_SIZE == 1024
num_chacha20_test_vectors == Len(chacha20_test_vectors)
vector == chacha20_test_vectors[test_index + 1]

\* ChaCha20_Ctx ctx; is uninitialised; its keystream is written before it
\* is read, so any fixed value stands for it.
MainInit(indexes) ==
    /\ test_index \in indexes
    /\ hpc = "main" /\ exitCode = 0
    /\ state = [w \in 0..15 |-> ZeroWord] /\ keystream = [w \in 0..15 |-> ZeroWord]
    /\ idx = 0 /\ buf = << >> /\ pos = 0 /\ i = 0 /\ bufflen = 0 /\ pc = "idle"
    /\ out = [w \in 0..15 |-> ZeroWord] /\ round = 0

\* if (test_index >= num_chacha20_test_vectors) return 42;
MainOutOfBounds ==
    /\ hpc = "main" /\ test_index >= num_chacha20_test_vectors
    /\ exitCode' = 42 /\ hpc' = "done"
    /\ UNCHANGED << ctxVars, test_index >>

\* if (vector->plaintext_len > MAX_BUFFER_SIZE) return 1;
MainTooLong ==
    /\ hpc = "main" /\ test_index < num_chacha20_test_vectors
    /\ Len(vector.plaintext) > MAX_BUFFER_SIZE
    /\ exitCode' = 1 /\ hpc' = "done"
    /\ UNCHANGED << ctxVars, test_index >>

\* memcpy(buffer, ...); ChaCha20_init(&ctx, key, nonce, count);
\* ChaCha20_xor(&ctx, buffer, plaintext_len);
MainRun ==
    /\ hpc = "main" /\ test_index < num_chacha20_test_vectors
    /\ Len(vector.plaintext) <= MAX_BUFFER_SIZE
    /\ buf' = vector.plaintext
    /\ ChaCha20_init(vector.key, vector.nonce, vector.count)
    /\ pos' = 0 /\ bufflen' = Len(vector.plaintext) /\ i' = 0 /\ pc' = "xor"
    /\ hpc' = "xor"
    /\ UNCHANGED << keystream, out, round, test_index, exitCode >>

\* ChaCha20_xor has returned: memcmp(buffer, expected_ciphertext, len).
MainCompare ==
    /\ hpc = "xor" /\ pc = "idle"
    /\ exitCode' = IF buf = vector.expected_ciphertext THEN 0 ELSE 1
    /\ hpc' = "done"
    /\ UNCHANGED << ctxVars, test_index >>

MainNext ==
    \/ MainOutOfBounds \/ MainTooLong \/ MainRun \/ MainCompare
    \/ XorStep /\ UNCHANGED << test_index, hpc, exitCode >>

=============================================================================
