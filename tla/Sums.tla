-------------------------------- MODULE Sums --------------------------------
(***************************************************************************)
(* Sums of integers over finite sets: of balances, shares, tokens.         *)
(***************************************************************************)
EXTENDS Integers, FiniteSets, FiniteSetsExt

Total(f, S) == MapThenSumSet(LAMBDA x : f[x], S)
=============================================================================
