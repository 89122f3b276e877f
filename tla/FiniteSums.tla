----------------------------- MODULE FiniteSums -----------------------------
(* Sums of the values of a function.                                        *)
EXTENDS FiniteSetsExt

SumOver(f, S) == MapThenSumSet(LAMBDA x : f[x], S)

Total(f) == SumOver(f, DOMAIN f)
=============================================================================
