---------------------------- MODULE MCChaChaTest ----------------------------
(***************************************************************************)
(* chacha_test.c's main over a table of six vectors: RFC 8439's           *)
(* encryption example (114 bytes, two blocks from counter 1), its first   *)
(* block test vector (zero key and nonce), an empty plaintext, 65 bytes   *)
(* (one byte into a second block), exactly MAX_BUFFER_SIZE bytes, each    *)
(* with the ciphertext of RFC 8439's algorithm, and a plaintext one byte  *)
(* longer than the buffer.  Test indexes: every entry and the first two   *)
(* past the table.                                                        *)
(***************************************************************************)
EXTENDS ChaChaTest

MCVectors ==
  <<
    \* RFC 8439 2.4.2
    [key |-> << 0, 1, 2, 3, 4, 5, 6, 7, 8, 9, 10, 11, 12, 13, 14, 15,
              16, 17, 18, 19, 20, 21, 22, 23, 24, 25, 26, 27, 28, 29, 30, 31 >>,
     nonce |-> << 0, 0, 0, 0, 0, 0, 0, 74, 0, 0, 0, 0 >>,
     count |-> << 0, 1 >>,
     plaintext |-> << 76, 97, 100, 105, 101, 115, 32, 97, 110, 100, 32, 71, 101, 110, 116, 108,
                    101, 109, 101, 110, 32, 111, 102, 32, 116, 104, 101, 32, 99, 108, 97, 115,
                    115, 32, 111, 102, 32, 39, 57, 57, 58, 32, 73, 102, 32, 73, 32, 99,
                    111, 117, 108, 100, 32, 111, 102, 102, 101, 114, 32, 121, 111, 117, 32, 111,
                    110, 108, 121, 32, 111, 110, 101, 32, 116, 105, 112, 32, 102, 111, 114, 32,
                    116, 104, 101, 32, 102, 117, 116, 117, 114, 101, 44, 32, 115, 117, 110, 115,
                    99, 114, 101, 101, 110, 32, 119, 111, 117, 108, 100, 32, 98, 101, 32, 105,
                    116, 46 >>,
     expected_ciphertext |-> << 110, 46, 53, 154, 37, 104, 249, 128, 65, 186, 7, 40, 221, 13, 105, 129,
                              233, 126, 122, 236, 29, 67, 96, 194, 10, 39, 175, 204, 253, 159, 174, 11,
                              249, 27, 101, 197, 82, 71, 51, 171, 143, 89, 61, 171, 205, 98, 179, 87,
                              22, 57, 214, 36, 230, 81, 82, 171, 143, 83, 12, 53, 159, 8, 97, 216,
                              7, 202, 13, 191, 80, 13, 106, 97, 86, 163, 142, 8, 138, 34, 182, 94,
                              82, 188, 81, 77, 22, 204, 248, 6, 129, 140, 233, 26, 183, 121, 55, 54,
                              90, 249, 11, 191, 116, 163, 91, 230, 180, 11, 142, 237, 242, 120, 94, 66,
                              135, 77 >>],
    \* RFC 8439 A.1 #1: zero key and nonce, one block
    [key |-> << 0, 0, 0, 0, 0, 0, 0, 0, 0, 0, 0, 0, 0, 0, 0, 0,
              0, 0, 0, 0, 0, 0, 0, 0, 0, 0, 0, 0, 0, 0, 0, 0 >>,
     nonce |-> << 0, 0, 0, 0, 0, 0, 0, 0, 0, 0, 0, 0 >>,
     count |-> << 0, 0 >>,
     plaintext |-> << 0, 0, 0, 0, 0, 0, 0, 0, 0, 0, 0, 0, 0, 0, 0, 0,
                    0, 0, 0, 0, 0, 0, 0, 0, 0, 0, 0, 0, 0, 0, 0, 0,
                    0, 0, 0, 0, 0, 0, 0, 0, 0, 0, 0, 0, 0, 0, 0, 0,
                    0, 0, 0, 0, 0, 0, 0, 0, 0, 0, 0, 0, 0, 0, 0, 0 >>,
     expected_ciphertext |-> << 118, 184, 224, 173, 160, 241, 61, 144, 64, 93, 106, 229, 83, 134, 189, 40,
                              189, 210, 25, 184, 160, 141, 237, 26, 168, 54, 239, 204, 139, 119, 13, 199,
                              218, 65, 89, 124, 81, 87, 72, 141, 119, 36, 224, 63, 184, 216, 74, 55,
                              106, 67, 184, 244, 21, 24, 161, 28, 195, 135, 182, 105, 178, 238, 101, 134 >>],
    \* empty plaintext
    [key |-> << 0, 1, 2, 3, 4, 5, 6, 7, 8, 9, 10, 11, 12, 13, 14, 15,
              16, 17, 18, 19, 20, 21, 22, 23, 24, 25, 26, 27, 28, 29, 30, 31 >>,
     nonce |-> << 0, 0, 0, 0, 0, 0, 0, 74, 0, 0, 0, 0 >>,
     count |-> << 0, 1 >>,
     plaintext |-> << >>,
     expected_ciphertext |-> << >>],
    \* 65 bytes from counter 7
    [key |-> << 3, 8, 13, 18, 23, 28, 33, 38, 43, 48, 53, 58, 63, 68, 73, 78,
              83, 88, 93, 98, 103, 108, 113, 118, 123, 128, 133, 138, 143, 148, 153, 158 >>,
     nonce |-> << 1, 12, 23, 34, 45, 56, 67, 78, 89, 100, 111, 122 >>,
     count |-> << 0, 7 >>,
     plaintext |-> << 9, 10, 13, 18, 25, 34, 45, 58, 73, 90, 109, 130, 153, 178, 205, 234,
                    9, 42, 77, 114, 153, 194, 237, 26, 73, 122, 173, 226, 25, 82, 141, 202,
                    9, 74, 141, 210, 25, 98, 173, 250, 73, 154, 237, 66, 153, 242, 77, 170,
                    9, 106, 205, 50, 153, 2, 109, 218, 73, 186, 45, 162, 25, 146, 13, 138,
                    9 >>,
     expected_ciphertext |-> << 247, 182, 51, 121, 199, 0, 97, 86, 235, 252, 193, 46, 190, 233, 12, 194,
                              135, 64, 188, 52, 73, 220, 159, 40, 221, 95, 178, 97, 203, 38, 16, 190,
                              52, 3, 34, 229, 138, 37, 238, 8, 64, 148, 193, 201, 235, 119, 193, 182,
                              151, 40, 11, 85, 173, 129, 106, 223, 82, 146, 160, 40, 44, 145, 222, 168,
                              141 >>],
    \* exactly MAX_BUFFER_SIZE bytes (16 blocks)
    [key |-> << 1, 8, 15, 22, 29, 36, 43, 50, 57, 64, 71, 78, 85, 92, 99, 106,
              113, 120, 127, 134, 141, 148, 155, 162, 169, 176, 183, 190, 197, 204, 211, 218 >>,
     nonce |-> << 0, 1, 2, 3, 4, 5, 6, 7, 8, 9, 10, 11 >>,
     count |-> << 0, 3 >>,
     plaintext |-> << 7, 38, 69, 100, 131, 162, 193, 224, 255, 30, 61, 92, 123, 154, 185, 216,
                    247, 22, 53, 84, 115, 146, 177, 208, 239, 14, 45, 76, 107, 138, 169, 200,
                    231, 6, 37, 68, 99, 130, 161, 192, 223, 254, 29, 60, 91, 122, 153, 184,
                    215, 246, 21, 52, 83, 114, 145, 176, 207, 238, 13, 44, 75, 106, 137, 168,
                    199, 230, 5, 36, 67, 98, 129, 160, 191, 222, 253, 28, 59, 90, 121, 152,
                    183, 214, 245, 20, 51, 82, 113, 144, 175, 206, 237, 12, 43, 74, 105, 136,
                    167, 198, 229, 4, 35, 66, 97, 128, 159, 190, 221, 252, 27, 58, 89, 120,
                    151, 182, 213, 244, 19, 50, 81, 112, 143, 174, 205, 236, 11, 42, 73, 104,
                    135, 166, 197, 228, 3, 34, 65, 96, 127, 158, 189, 220, 251, 26, 57, 88,
                    119, 150, 181, 212, 243, 18, 49, 80, 111, 142, 173, 204, 235, 10, 41, 72,
                    103, 134, 165, 196, 227, 2, 33, 64, 95, 126, 157, 188, 219, 250, 25, 56,
                    87, 118, 149, 180, 211, 242, 17, 48, 79, 110, 141, 172, 203, 234, 9, 40,
                    71, 102, 133, 164, 195, 226, 1, 32, 63, 94, 125, 156, 187, 218, 249, 24,
                    55, 86, 117, 148, 179, 210, 241, 16, 47, 78, 109, 140, 171, 202, 233, 8,
                    39, 70, 101, 132, 163, 194, 225, 0, 31, 62, 93, 124, 155, 186, 217, 248,
                    23, 54, 85, 116, 147, 178, 209, 240, 15, 46, 77, 108, 139, 170, 201, 232,
                    7, 38, 69, 100, 131, 162, 193, 224, 255, 30, 61, 92, 123, 154, 185, 216,
                    247, 22, 53, 84, 115, 146, 177, 208, 239, 14, 45, 76, 107, 138, 169, 200,
                    231, 6, 37, 68, 99, 130, 161, 192, 223, 254, 29, 60, 91, 122, 153, 184,
                    215, 246, 21, 52, 83, 114, 145, 176, 207, 238, 13, 44, 75, 106, 137, 168,
                    199, 230, 5, 36, 67, 98, 129, 160, 191, 222, 253, 28, 59, 90, 121, 152,
                    183, 214, 245, 20, 51, 82, 113, 144, 175, 206, 237, 12, 43, 74, 105, 136,
                    167, 198, 229, 4, 35, 66, 97, 128, 159, 190, 221, 252, 27, 58, 89, 120,
                    151, 182, 213, 244, 19, 50, 81, 112, 143, 174, 205, 236, 11, 42, 73, 104,
                    135, 166, 197, 228, 3, 34, 65, 96, 127, 158, 189, 220, 251, 26, 57, 88,
                    119, 150, 181, 212, 243, 18, 49, 80, 111, 142, 173, 204, 235, 10, 41, 72,
                    103, 134, 165, 196, 227, 2, 33, 64, 95, 126, 157, 188, 219, 250, 25, 56,
                    87, 118, 149, 180, 211, 242, 17, 48, 79, 110, 141, 172, 203, 234, 9, 40,
                    71, 102, 133, 164, 195, 226, 1, 32, 63, 94, 125, 156, 187, 218, 249, 24,
                    55, 86, 117, 148, 179, 210, 241, 16, 47, 78, 109, 140, 171, 202, 233, 8,
                    39, 70, 101, 132, 163, 194, 225, 0, 31, 62, 93, 124, 155, 186, 217, 248,
                    23, 54, 85, 116, 147, 178, 209, 240, 15, 46, 77, 108, 139, 170, 201, 232,
                    7, 38, 69, 100, 131, 162, 193, 224, 255, 30, 61, 92, 123, 154, 185, 216,
                    247, 22, 53, 84, 115, 146, 177, 208, 239, 14, 45, 76, 107, 138, 169, 200,
                    231, 6, 37, 68, 99, 130, 161, 192, 223, 254, 29, 60, 91, 122, 153, 184,
                    215, 246, 21, 52, 83, 114, 145, 176, 207, 238, 13, 44, 75, 106, 137, 168,
                    199, 230, 5, 36, 67, 98, 129, 160, 191, 222, 253, 28, 59, 90, 121, 152,
                    183, 214, 245, 20, 51, 82, 113, 144, 175, 206, 237, 12, 43, 74, 105, 136,
                    167, 198, 229, 4, 35, 66, 97, 128, 159, 190, 221, 252, 27, 58, 89, 120,
                    151, 182, 213, 244, 19, 50, 81, 112, 143, 174, 205, 236, 11, 42, 73, 104,
                    135, 166, 197, 228, 3, 34, 65, 96, 127, 158, 189, 220, 251, 26, 57, 88,
                    119, 150, 181, 212, 243, 18, 49, 80, 111, 142, 173, 204, 235, 10, 41, 72,
                    103, 134, 165, 196, 227, 2, 33, 64, 95, 126, 157, 188, 219, 250, 25, 56,
                    87, 118, 149, 180, 211, 242, 17, 48, 79, 110, 141, 172, 203, 234, 9, 40,
                    71, 102, 133, 164, 195, 226, 1, 32, 63, 94, 125, 156, 187, 218, 249, 24,
                    55, 86, 117, 148, 179, 210, 241, 16, 47, 78, 109, 140, 171, 202, 233, 8,
                    39, 70, 101, 132, 163, 194, 225, 0, 31, 62, 93, 124, 155, 186, 217, 248,
                    23, 54, 85, 116, 147, 178, 209, 240, 15, 46, 77, 108, 139, 170, 201, 232,
                    7, 38, 69, 100, 131, 162, 193, 224, 255, 30, 61, 92, 123, 154, 185, 216,
                    247, 22, 53, 84, 115, 146, 177, 208, 239, 14, 45, 76, 107, 138, 169, 200,
                    231, 6, 37, 68, 99, 130, 161, 192, 223, 254, 29, 60, 91, 122, 153, 184,
                    215, 246, 21, 52, 83, 114, 145, 176, 207, 238, 13, 44, 75, 106, 137, 168,
                    199, 230, 5, 36, 67, 98, 129, 160, 191, 222, 253, 28, 59, 90, 121, 152,
                    183, 214, 245, 20, 51, 82, 113, 144, 175, 206, 237, 12, 43, 74, 105, 136,
                    167, 198, 229, 4, 35, 66, 97, 128, 159, 190, 221, 252, 27, 58, 89, 120,
                    151, 182, 213, 244, 19, 50, 81, 112, 143, 174, 205, 236, 11, 42, 73, 104,
                    135, 166, 197, 228, 3, 34, 65, 96, 127, 158, 189, 220, 251, 26, 57, 88,
                    119, 150, 181, 212, 243, 18, 49, 80, 111, 142, 173, 204, 235, 10, 41, 72,
                    103, 134, 165, 196, 227, 2, 33, 64, 95, 126, 157, 188, 219, 250, 25, 56,
                    87, 118, 149, 180, 211, 242, 17, 48, 79, 110, 141, 172, 203, 234, 9, 40,
                    71, 102, 133, 164, 195, 226, 1, 32, 63, 94, 125, 156, 187, 218, 249, 24,
                    55, 86, 117, 148, 179, 210, 241, 16, 47, 78, 109, 140, 171, 202, 233, 8,
                    39, 70, 101, 132, 163, 194, 225, 0, 31, 62, 93, 124, 155, 186, 217, 248,
                    23, 54, 85, 116, 147, 178, 209, 240, 15, 46, 77, 108, 139, 170, 201, 232 >>,
     expected_ciphertext |-> << 89, 120, 237, 181, 175, 90, 234, 75, 45, 205, 214, 161, 28, 201, 163, 188,
                              141, 38, 115, 253, 169, 207, 109, 114, 219, 64, 234, 65, 48, 33, 143, 216,
                              46, 121, 69, 43, 130, 229, 18, 116, 95, 162, 196, 14, 188, 196, 248, 0,
                              126, 170, 117, 251, 227, 77, 246, 106, 106, 75, 239, 169, 90, 232, 151, 126,
                              253, 189, 21, 248, 115, 130, 214, 87, 69, 17, 187, 1, 84, 212, 45, 174,
                              105, 163, 10, 224, 180, 234, 39, 204, 190, 84, 207, 149, 212, 189, 194, 114,
                              179, 154, 34, 233, 10, 173, 212, 150, 80, 235, 254, 181, 253, 50, 190, 45,
                              86, 163, 252, 45, 26, 225, 112, 164, 12, 225, 90, 200, 144, 111, 239, 139,
                              222, 237, 93, 220, 236, 133, 27, 170, 125, 19, 47, 181, 246, 110, 225, 128,
                              178, 200, 84, 95, 24, 61, 138, 196, 236, 207, 57, 56, 164, 127, 71, 97,
                              99, 207, 100, 203, 209, 37, 224, 176, 252, 67, 238, 29, 172, 93, 93, 44,
                              232, 45, 24, 83, 30, 1, 253, 202, 225, 178, 54, 193, 125, 171, 98, 207,
                              232, 90, 210, 117, 83, 48, 26, 82, 180, 49, 204, 71, 161, 136, 201, 112,
                              195, 2, 146, 182, 249, 120, 97, 52, 61, 199, 213, 28, 52, 233, 177, 106,
                              221, 80, 46, 211, 205, 97, 164, 132, 201, 117, 223, 153, 143, 165, 246, 154,
                              85, 89, 5, 38, 234, 144, 39, 52, 139, 33, 118, 226, 162, 58, 138, 53,
                              15, 148, 46, 217, 114, 153, 218, 104, 90, 23, 68, 174, 126, 124, 236, 51,
                              46, 177, 130, 156, 11, 98, 197, 121, 250, 113, 80, 50, 25, 74, 158, 25,
                              101, 18, 51, 92, 111, 169, 27, 38, 32, 119, 13, 3, 212, 49, 252, 245,
                              40, 150, 28, 193, 117, 166, 82, 169, 119, 145, 203, 170, 80, 82, 24, 37,
                              240, 247, 103, 49, 10, 3, 165, 123, 36, 28, 180, 222, 137, 239, 214, 17,
                              217, 12, 253, 128, 149, 255, 209, 220, 41, 39, 204, 204, 127, 82, 115, 186,
                              61, 14, 21, 173, 196, 183, 12, 54, 27, 34, 34, 20, 117, 218, 177, 169,
                              179, 106, 208, 63, 31, 73, 189, 115, 111, 251, 100, 51, 106, 49, 116, 30,
                              137, 155, 92, 49, 22, 175, 197, 206, 127, 143, 153, 64, 64, 176, 178, 36,
                              29, 162, 121, 229, 110, 159, 135, 45, 208, 74, 41, 169, 76, 239, 177, 155,
                              7, 216, 205, 76, 16, 185, 88, 26, 208, 78, 251, 117, 104, 167, 240, 116,
                              118, 6, 45, 181, 175, 21, 31, 83, 192, 131, 157, 0, 228, 226, 253, 225,
                              107, 243, 199, 246, 86, 129, 240, 95, 173, 86, 205, 248, 57, 112, 131, 129,
                              97, 70, 101, 19, 185, 193, 105, 146, 38, 50, 214, 146, 220, 28, 54, 217,
                              27, 184, 178, 91, 103, 148, 188, 106, 188, 33, 155, 172, 217, 44, 22, 181,
                              188, 121, 119, 120, 167, 159, 223, 113, 246, 28, 158, 146, 188, 217, 164, 106,
                              151, 80, 96, 169, 172, 49, 41, 227, 216, 53, 32, 228, 249, 146, 60, 140,
                              217, 188, 60, 152, 27, 54, 127, 224, 200, 152, 204, 100, 1, 18, 3, 153,
                              30, 126, 112, 122, 227, 90, 119, 180, 38, 16, 107, 171, 166, 190, 36, 72,
                              162, 7, 15, 252, 59, 136, 116, 12, 217, 124, 167, 189, 92, 136, 125, 187,
                              94, 29, 99, 179, 81, 95, 79, 71, 147, 144, 44, 225, 228, 70, 240, 187,
                              17, 60, 126, 15, 126, 10, 177, 182, 191, 189, 140, 75, 93, 190, 226, 174,
                              46, 219, 168, 36, 12, 102, 17, 59, 119, 214, 0, 123, 29, 199, 176, 205,
                              112, 97, 203, 252, 231, 93, 120, 54, 84, 182, 127, 234, 246, 232, 43, 13,
                              176, 8, 245, 66, 18, 33, 240, 94, 45, 114, 72, 169, 150, 133, 247, 76,
                              92, 240, 130, 252, 41, 35, 102, 142, 76, 134, 104, 102, 38, 23, 112, 217,
                              77, 82, 178, 22, 143, 66, 198, 190, 43, 161, 198, 93, 18, 149, 96, 16,
                              100, 6, 173, 34, 234, 99, 117, 44, 199, 32, 167, 118, 65, 169, 238, 216,
                              114, 56, 178, 87, 190, 123, 60, 176, 238, 178, 152, 31, 75, 173, 35, 250,
                              94, 217, 139, 187, 209, 175, 207, 173, 247, 255, 85, 73, 87, 89, 37, 69,
                              229, 41, 105, 84, 141, 14, 207, 125, 120, 199, 208, 189, 45, 186, 206, 223,
                              226, 41, 1, 215, 89, 104, 48, 75, 110, 96, 55, 68, 249, 115, 129, 66,
                              173, 18, 107, 33, 166, 180, 139, 157, 146, 165, 99, 241, 199, 47, 91, 67,
                              24, 83, 65, 39, 151, 98, 240, 27, 145, 168, 46, 153, 246, 253, 184, 151,
                              115, 133, 249, 208, 127, 54, 196, 88, 18, 253, 196, 58, 31, 230, 52, 162,
                              26, 167, 144, 241, 190, 215, 232, 30, 139, 152, 17, 32, 72, 86, 142, 209,
                              13, 79, 32, 169, 34, 24, 141, 173, 122, 71, 3, 108, 217, 209, 180, 139,
                              18, 199, 92, 41, 221, 173, 11, 182, 51, 246, 83, 48, 146, 87, 89, 69,
                              236, 240, 162, 11, 175, 127, 36, 87, 124, 107, 140, 221, 14, 247, 164, 109,
                              142, 235, 228, 36, 250, 190, 214, 13, 149, 161, 127, 50, 55, 113, 245, 114,
                              220, 120, 227, 121, 103, 226, 68, 238, 39, 243, 80, 59, 218, 8, 238, 187,
                              27, 237, 169, 69, 65, 63, 47, 61, 79, 101, 7, 26, 61, 5, 189, 99,
                              91, 244, 75, 75, 78, 50, 148, 67, 156, 162, 124, 212, 68, 159, 82, 74,
                              177, 213, 81, 109, 23, 82, 197, 144, 155, 83, 198, 116, 224, 71, 128, 178,
                              44, 124, 186, 116, 158, 33, 88, 239, 220, 28, 189, 154, 40, 222, 149, 36,
                              31, 199, 153, 110, 255, 79, 82, 113, 166, 113, 157, 79, 134, 215, 118, 248,
                              232, 212, 68, 43, 98, 8, 141, 2, 204, 205, 190, 123, 220, 160, 123, 86,
                              70, 176, 128, 47, 248, 89, 106, 190, 217, 224, 216, 129, 61, 121, 167, 210 >>],
    \* longer than MAX_BUFFER_SIZE: main rejects it before copying
    [key |-> [k \in 1..32 |-> 0],
     nonce |-> [k \in 1..12 |-> 0],
     count |-> << 0, 0 >>,
     plaintext |-> [k \in 1..(MAX_BUFFER_SIZE + 1) |-> 0],
     expected_ciphertext |-> [k \in 1..(MAX_BUFFER_SIZE + 1) |-> 0]]
  >>

MCSpec == MainInit(0..(Len(MCVectors) + 1)) /\ [][MainNext]_testVars

(***************************************************************************)
(* main's verdict: 42 exactly for the indexes past the table, 1 for the   *)
(* plaintext that does not fit the buffer, and 0 for every other vector,  *)
(* the one that fills the buffer included: ChaCha20_init, the block       *)
(* function, the keystream index and the counter together produce RFC     *)
(* 8439's ciphertexts.                                                    *)
(***************************************************************************)
HarnessVerdict ==
    hpc = "done" =>
        exitCode = CASE test_index >= num_chacha20_test_vectors -> 42
                     [] Len(vector.plaintext) > MAX_BUFFER_SIZE -> 1
                     [] OTHER -> 0

=============================================================================
