---------------------------- MODULE MCQuicksortTest ----------------------------
(***************************************************************************)
(* The quicksort harness for every test_index from 0 to NUM_TEST_CASES + 1 *)
(* (the last two out of range).  RandStates[t + 1] lists the values        *)
(* rng_state takes in test case t, computed apart from the model by the    *)
(* C expression with unsigned long 32 bits wide (RV32) and, with the same  *)
(* result, 64 bits wide.                                                   *)
(***************************************************************************)
EXTENDS QuicksortTest

RandStates ==
    << << 1250496027, 1116302264, 1000676753, 1668674806, 908095735 >>,
       << 440917656, 1476151025, 1668141782, 864299351, 1143491652, 217932077, 1363953250, 750257139, 1551886512, 58450729 >>,
       << 691790433, 92217734, 117197383, 1375171188, 1156793245, 580636690, 900285411, 273891808, 616922265, 191028062, 10631999, 81435660, 1776830805, 721244010, 1376341083, 1822125304, 1496393169, 1142487094, 1241928503, 1167483044 >>,
       << 942663210, 855768091, 713736632, 1886043025, 1170094838, 943341303, 436617572, 1945010125, 1829441666, 323605395, 731385808, 1869630409, 1348317902, 1572083183, 1781946620, 388553605, 1562783194, 467018251, 940443880, 1881189121, 902385062, 1891816423, 1798228884, 1835791933, 1814863410, 870238083, 150408448, 623294777, 1493330814, 1144805599, 1279260972, 1496362997, 466993546, 901227515, 1648983064, 1336497777, 265710678, 869434583, 174473668, 925624493, 1097136098, 911251315, 73905712, 315318953, 811511854, 1670592463, 2043282780, 1775140965, 1797890362, 1018528235 >>,
       << >>,
       << >>,
       << >>,
       << >>,
       << >>,
       << >>,
       << 1103527590 >>,
       << 59559187, 1495354192 >>,
       << 1163074432, 465823161, 679304702 >>,
       << 752630676, 1550100029, 296717874, 834598787, 269188352, 49965369, 1808030590, 2012186847, 137062700, 948920309, 818327946, 695063547, 1232858136, 1044579953, 451304534, 1690023127, 172995012, 1840289965, 92530658, 1151125363, 1903699504, 619385513, 796696622, 1114793935, 2138142044, 1983459429, 1446416698, 1649914347, 1582205768, 395406817, 1970046726, 83722695, 1147474932, 1305872157, 934940050, 2068214627, 1438219104, 1339095065, 1676112094, 933421759, 808119692, 1559231701, 1391836394, 959245275, 241129080, 62951761, 988462518, 210004663, 762274340, 1412166029, 1516044098, 2120940371, 1632795792, 2037586313, 1354747278, 1545599407, 67817916, 2011874629, 795817114, 1568440779, 730942888, 175599809, 259784806, 349138855, 1384225876, 1539921917, 943176946, 7954243, 1602628032, 391673593, 578860606, 440970399, 931406316, 237013429, 1691220042, 9794491, 1183281368, 1797065777, 1408978710, 354259095, 728679044, 864369261, 1691698850, 765501235, 1918337776, 247992425, 442837742, 842791823, 164224540, 306727461, 217909242, 1166459307, 1587855368, 215507873, 1443080646, 1382927751, 1254741172, 234264797, 1820367954, 466598691 >> >>

\* The value the generator of test case test_index writes to array[k - 1].
ExpectedKey(k) ==
    CASE test.test_type = 1 -> k - 1
      [] test.test_type = 2 -> size - k
      [] OTHER -> RandStates[test_index + 1][k] % 1000

MCInit == QsInit(0..(NUM_TEST_CASES + 1))
MCSpec == MCInit /\ [][QsNext]_qsVars

(***************************************************************************)
(* generate_random_array, generate_sorted_array and                        *)
(* generate_reverse_sorted_array write the keys of the reference, and in a *)
(* random test rng_state after i draws is the reference's i-th state: the  *)
(* multiplication in simple_rand, which overflows unsigned long, keeps the *)
(* 31 bits the mask selects.                                               *)
(***************************************************************************)
GeneratorsMatchReference ==
    /\ \A k \in DOMAIN original_array : original_array[k] = ExpectedKey(k)
    /\ (pc = "gen" /\ test.test_type \notin {1, 2} /\ i > 0)
          => rng_state = RandStates[test_index + 1][i]

(***************************************************************************)
(* main returns 42 exactly for an index past the table and 0 for every     *)
(* test case: copy_array hands quicksort the whole generated array, and    *)
(* the sort of test_array[0 .. array_size - 1], skipped for one element,   *)
(* leaves an array sorted() accepts.                                       *)
(***************************************************************************)
HarnessVerdict ==
    pc = "done" => exitCode = IF test_index >= NUM_TEST_CASES THEN 42 ELSE 0

=============================================================================
