---------------------------- MODULE MCFibonacci ----------------------------
(***************************************************************************)
(* main with every test index of the table and the two first indexes past *)
(* it, and direct calls of fib with every n from 0 to MAX_FIB_N + 1.       *)
(***************************************************************************)
EXTENDS Fibonacci

Callers ==
    { [main |-> TRUE, arg |-> k] : k \in 0..(NumVectors + 1) }
    \cup { [main |-> FALSE, arg |-> k] : k \in 0..(MAX_FIB_N + 1) }

MCInit == FibInit(Callers)

(***************************************************************************)
(* The program is one thread and every step of fib is a plain computation *)
(* that cannot block, so a continuously enabled step is eventually taken.  *)
(***************************************************************************)
MCSpec == MCInit /\ [][FibNext]_fibVars /\ WF_fibVars(FibNext)

(***************************************************************************)
(* The refinement mapping: while fib_memo recurses ("memo") the abstract   *)
(* call is still pending, and fib has not yet produced a result.           *)
(***************************************************************************)
Abs == INSTANCE FibSpec
         WITH MaxN <- MAX_FIB_N, F <- FibRef, Vectors <- test_vectors,
              pc <- IF pc = "memo" THEN "fib" ELSE pc,
              ret <- IF pc = "memo" THEN Zero ELSE ret

(***************************************************************************)
(* fib implements its contract: every call of fib(n), from main or direct, *)
(* is one abstract step that returns F(n) (0 for n = 0 or n > MAX_FIB_N),  *)
(* the recursion through the static cache and the explicit frames is       *)
(* invisible, and the call returns.                                        *)
(***************************************************************************)
FibImplementsSpec == Abs!Spec

=============================================================================
