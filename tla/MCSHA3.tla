-------------------------------- MODULE MCSHA3 --------------------------------
(***************************************************************************)
(* The composition of sha3.c: a named variant (SHA3Facade) calls Keccak    *)
(* (Sponge), which calls KeccakF1600 (KeccakF1600Loop) on the shared state *)
(* through perm.  Each behaviour is one call of a variant; its output is   *)
(* compared with the known answer of the standard for that message.        *)
(***************************************************************************)
EXTENDS Integers, Sequences

VARIABLES
    s, perm,                                              \* shared
    rateBytes, sfx, msg, inLen, b, outBuf, outLen, pc,    \* Keccak
    phase, i, R, x, y, r, D, j, sRound,                   \* KeccakF1600
    hexReq, hex,                                          \* easy_hash_hex
    test_index, hpc, exitCode,                            \* harness main
    call                                                  \* history

spongeOnly == << rateBytes, sfx, msg, inLen, b, outBuf, outLen, pc >>
loopOnly   == << phase, i, R, x, y, r, D, j, sRound >>
hexVars    == << hexReq, hex >>
mainOnly   == << test_index, hpc, exitCode >>
vars       == << s, perm, spongeOnly, loopOnly, hexVars, mainOnly, call >>

F == INSTANCE SHA3Facade
K == INSTANCE KeccakF1600Loop

Msg(len) == [k \in 1..len |-> (37 * k + 11) % 256]

(***************************************************************************)
(* Known answers (FIPS 202 / the SHA-3 test vectors): the empty message    *)
(* for every variant, "abc" for SHA3-256, a message one byte short of a    *)
(* SHA3-512 block and one of exactly a block (the padding then takes a     *)
(* block of its own), and SHAKE128 output longer than one block (two       *)
(* squeezes).  ol is the caller's output length (SHAKE only).              *)
(***************************************************************************)
KnownAnswers ==
  {
    [api |-> "FIPS202", v |-> "SHA3_224", m |-> Msg(0), ol |-> 0,
     digest |-> << 107, 78, 3, 66, 54, 103, 219, 183, 59, 110, 21, 69, 79, 14, 177, 171,
          212, 89, 127, 154, 27, 7, 142, 63, 91, 90, 107, 199 >>],
    [api |-> "FIPS202", v |-> "SHA3_256", m |-> Msg(0), ol |-> 0,
     digest |-> << 167, 255, 198, 248, 191, 30, 215, 102, 81, 193, 71, 86, 160, 97, 214, 98,
          245, 128, 255, 77, 228, 59, 73, 250, 130, 216, 10, 75, 128, 248, 67, 74 >>],
    [api |-> "FIPS202", v |-> "SHA3_384", m |-> Msg(0), ol |-> 0,
     digest |-> << 12, 99, 167, 91, 132, 94, 79, 125, 1, 16, 125, 133, 46, 76, 36, 133,
          197, 26, 80, 170, 170, 148, 252, 97, 153, 94, 113, 187, 238, 152, 58, 42,
          195, 113, 56, 49, 38, 74, 219, 71, 251, 107, 209, 224, 88, 213, 240, 4 >>],
    [api |-> "FIPS202", v |-> "SHA3_512", m |-> Msg(0), ol |-> 0,
     digest |-> << 166, 159, 115, 204, 162, 58, 154, 197, 200, 181, 103, 220, 24, 90, 117, 110,
          151, 201, 130, 22, 79, 226, 88, 89, 224, 209, 220, 193, 71, 92, 128, 166,
          21, 178, 18, 58, 241, 245, 249, 76, 17, 227, 233, 64, 44, 58, 197, 88,
          245, 0, 25, 157, 149, 182, 211, 227, 1, 117, 133, 134, 40, 29, 205, 38 >>],
    [api |-> "FIPS202", v |-> "SHAKE128", m |-> Msg(0), ol |-> 32,
     digest |-> << 127, 156, 43, 164, 232, 143, 130, 125, 97, 96, 69, 80, 118, 5, 133, 62,
          215, 59, 128, 147, 246, 239, 188, 136, 235, 26, 110, 172, 250, 102, 239, 38 >>],
    [api |-> "FIPS202", v |-> "SHAKE256", m |-> Msg(0), ol |-> 32,
     digest |-> << 70, 185, 221, 43, 11, 168, 141, 19, 35, 59, 63, 235, 116, 62, 235, 36,
          63, 205, 82, 234, 98, 184, 27, 130, 181, 12, 39, 100, 110, 213, 118, 47 >>],
    [api |-> "hex", v |-> "SHA3_256", m |-> << 97, 98, 99 >>, ol |-> 0,
     digest |-> << 58, 152, 93, 167, 79, 226, 37, 178, 4, 92, 23, 45, 107, 211, 144, 189,
          133, 95, 8, 110, 62, 157, 82, 91, 70, 191, 226, 69, 17, 67, 21, 50 >>],
    [api |-> "FIPS202", v |-> "SHA3_512", m |-> Msg(71), ol |-> 0,
     digest |-> << 80, 107, 131, 11, 59, 51, 157, 59, 115, 116, 152, 124, 144, 213, 46, 117,
          177, 116, 79, 187, 8, 123, 27, 190, 196, 157, 143, 19, 102, 38, 243, 102,
          98, 195, 95, 117, 172, 106, 49, 27, 43, 11, 15, 164, 140, 161, 179, 219,
          172, 240, 97, 202, 72, 157, 255, 200, 159, 14, 245, 162, 31, 101, 241, 68 >>],
    [api |-> "FIPS202", v |-> "SHA3_512", m |-> Msg(72), ol |-> 0,
     digest |-> << 238, 45, 190, 105, 242, 51, 175, 27, 112, 232, 93, 154, 150, 239, 146, 110,
          188, 243, 190, 34, 135, 157, 141, 145, 136, 137, 112, 180, 132, 246, 117, 156,
          215, 89, 207, 146, 138, 112, 7, 19, 114, 132, 149, 27, 157, 113, 69, 116,
          221, 132, 154, 129, 151, 31, 237, 44, 83, 214, 148, 109, 160, 67, 18, 255 >>],
    [api |-> "FIPS202", v |-> "SHAKE128", m |-> Msg(0), ol |-> 170,
     digest |-> << 127, 156, 43, 164, 232, 143, 130, 125, 97, 96, 69, 80, 118, 5, 133, 62,
          215, 59, 128, 147, 246, 239, 188, 136, 235, 26, 110, 172, 250, 102, 239, 38,
          60, 177, 238, 169, 136, 0, 75, 147, 16, 60, 251, 10, 238, 253, 42, 104,
          110, 1, 250, 74, 88, 232, 163, 99, 156, 168, 161, 227, 249, 174, 87, 226,
          53, 184, 204, 135, 60, 35, 220, 98, 184, 210, 96, 22, 154, 250, 47, 117,
          171, 145, 106, 88, 217, 116, 145, 136, 53, 210, 94, 106, 67, 80, 133, 178,
          186, 223, 214, 223, 170, 195, 89, 165, 239, 187, 123, 204, 75, 89, 213, 56,
          223, 154, 4, 48, 46, 16, 200, 188, 28, 191, 26, 11, 58, 81, 32, 234,
          23, 205, 167, 207, 173, 118, 95, 86, 35, 71, 77, 54, 140, 204, 168, 175,
          0, 7, 205, 159, 94, 76, 132, 159, 22, 122, 88, 11, 20, 170, 189, 239,
          174, 231, 238, 244, 124, 176, 252, 169, 118, 123 >>]
  }

\* "3a985da74fe225b2045c172d6bd390bd855f086e3e9d525b46bfe24511431532", the
\* standard's SHA3-256("abc") as sha3_256_easy_hash_hex must write it.
HexAnswer ==
    << 51, 97, 57, 56, 53, 100, 97, 55, 52, 102, 101, 50, 50, 53, 98, 50, 48, 52, 53, 99, 49, 55, 50, 100, 54, 98, 100, 51, 57, 48, 98, 100,
       56, 53, 53, 102, 48, 56, 54, 101, 51, 101, 57, 100, 53, 50, 53, 98, 52, 54, 98, 102, 101, 50, 52, 53, 49, 49, 52, 51, 49, 53, 51, 50 >>

(***************************************************************************)
(* The harness main's table: SHA3-256 of "abc", of one byte less than a    *)
(* block (136 bytes) and of exactly one block.                             *)
(***************************************************************************)
MainVectors ==
  << [message |-> << 97, 98, 99 >>,
      expected_hash |-> << 58, 152, 93, 167, 79, 226, 37, 178, 4, 92, 23, 45, 107, 211, 144, 189,
          133, 95, 8, 110, 62, 157, 82, 91, 70, 191, 226, 69, 17, 67, 21, 50 >>],
     [message |-> Msg(135),
      expected_hash |-> << 19, 205, 95, 212, 215, 254, 255, 117, 186, 165, 46, 145, 192, 3, 43, 87,
          86, 87, 25, 40, 195, 79, 128, 231, 225, 168, 62, 80, 227, 223, 20, 141 >>],
     [message |-> Msg(136),
      expected_hash |-> << 119, 203, 233, 19, 54, 18, 121, 179, 28, 122, 104, 154, 229, 241, 48, 209,
          110, 246, 156, 246, 179, 176, 197, 89, 98, 162, 100, 209, 61, 241, 42, 69 >>] >>

T == INSTANCE SHA3Test WITH sha3_256_test_vectors <- MainVectors

\* The run of main, with every index of its table and two past it.
MainRun == [api |-> "main", v |-> "SHA3_256", m |-> << >>, ol |-> 0, digest |-> << >>]

Init ==
    /\ call \in KnownAnswers \cup {MainRun}
    /\ IF call.api = "main"
         THEN T!MainInit(0..(Len(MainVectors) + 1)) /\ hexReq = FALSE /\ hex = << >>
         ELSE /\ IF call.api = "hex" THEN F!EasyHashHexCall(call.m)
                                     ELSE F!PlainCall(call.v, call.m, call.ol)
              /\ test_index = 0 /\ hpc = "none" /\ exitCode = 0
    /\ phase = "theta" /\ i = 0 /\ R = 1
    /\ x = 0 /\ y = 0 /\ r = 0 /\ D = K!ZeroLane /\ j = 0
    /\ sRound = s

Next ==
    \/ F!SpongeNext /\ UNCHANGED << loopOnly, hexVars, mainOnly, call >>
    \/ K!LoopNext /\ UNCHANGED << spongeOnly, hexVars, mainOnly, call >>
    \/ F!WriteHex /\ UNCHANGED << loopOnly, mainOnly, call >>
    \/ T!MainTestNext /\ UNCHANGED << loopOnly, hexVars, call >>

Spec == Init /\ [][Next]_vars

(***************************************************************************)
(* When the variant returns, out holds the standard's digest (or SHAKE     *)
(* output) of the message: the façade's parameters, the sponge and the     *)
(* permutation together compute SHA-3.                                     *)
(***************************************************************************)
KnownAnswer == (F!Returned /\ call.api # "main") => outBuf = call.digest

(***************************************************************************)
(* sha3_256_easy_hash_hex writes the standard's SHA3-256 of "abc" as 64    *)
(* lowercase hex characters, high nibble first.                            *)
(***************************************************************************)
KnownAnswerHex == (call.api = "hex" /\ hex # << >>) => hex = HexAnswer

(***************************************************************************)
(* sha3.c's main returns 42 exactly for the indexes past its table and 0   *)
(* for every vector: the message reaches sha3_256_easy_hash whole, and the *)
(* digest is compared over all 32 bytes.                                   *)
(***************************************************************************)
HarnessVerdict ==
    (call.api = "main" /\ hpc = "done") =>
        exitCode = IF test_index >= Len(MainVectors) THEN 42 ELSE 0

=============================================================================
