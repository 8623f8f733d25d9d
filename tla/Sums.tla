-------------------------------- MODULE Sums --------------------------------
(***************************************************************************)
(* Sums of the values of a function.                                       *)
(***************************************************************************)
EXTENDS FiniteSetsExt

SumOver(f, S) == MapThenSumSet(LAMBDA a : f[a], S)

Total(f) == SumOver(f, DOMAIN f)

=============================================================================
