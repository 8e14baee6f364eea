------------------------------- MODULE SHA3Test -------------------------------
(***************************************************************************)
(* The harness main of src/_coin/reference_tests/sha3/sha3.c: it reads a   *)
(* test index from INPUT_ADDRESS, returns 42 past the table, and otherwise *)
(* hashes the vector's message with sha3_256_easy_hash into actual_hash[32] *)
(* and returns 0 when memcmp finds it equal to expected_hash, 1 if not.    *)
(*                                                                         *)
(* The table comes from the generated test_vectors.h, which is not in the  *)
(* repository: it is the constant sha3_256_test_vectors, a sequence of     *)
(* records [message, expected_hash].                                       *)
(***************************************************************************)
EXTENDS SHA3Facade

CONSTANT sha3_256_test_vectors

VARIABLES
    test_index,   \* unsigned int test_index = *(unsigned int*)INPUT_ADDRESS
    hpc,          \* main's position: "main", "hash" (in the call) or "done"
    exitCode      \* main's return value

mainVars == << test_index, hpc, exitCode >>

num_sha3_256_test_vectors == Len(sha3_256_test_vectors)
selected_test == sha3_256_test_vectors[test_index + 1]

MainInit(indexes) ==
    /\ test_index \in indexes /\ hpc = "main" /\ exitCode = 0
    /\ SpongeIdle

\* if (test_index >= num_sha3_256_test_vectors) return 42;
MainOutOfBounds ==
    /\ hpc = "main" /\ test_index >= num_sha3_256_test_vectors
    /\ exitCode' = 42 /\ hpc' = "done"
    /\ UNCHANGED << test_index, spongeVars >>

\* Mutant of MainHash: the message hashed without its last byte.
MainHashShort ==
    /\ hpc = "main" /\ test_index < num_sha3_256_test_vectors
    /\ EasyHashStep(SubSeq(selected_test.message, 1, Len(selected_test.message) - 1))
    /\ hpc' = "hash"
    /\ UNCHANGED << test_index, exitCode >>

\* sha3_256_easy_hash(selected_test->message, selected_test->message_len,
\*                    actual_hash);
MainHash ==
    /\ hpc = "main" /\ test_index < num_sha3_256_test_vectors
    /\ EasyHashStep(selected_test.message)
    /\ hpc' = "hash"
    /\ UNCHANGED << test_index, exitCode >>

\* memcmp(actual_hash, selected_test->expected_hash, sizeof(actual_hash))
MainCompare ==
    /\ hpc = "hash" /\ Returned
    /\ exitCode' = IF outBuf = selected_test.expected_hash THEN 0 ELSE 1
    /\ hpc' = "done"
    /\ UNCHANGED << test_index, spongeVars >>

MainTestNext == MainOutOfBounds \/ MainHash \/ MainCompare

=============================================================================
