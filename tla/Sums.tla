-------------------------------- MODULE Sums --------------------------------
(* The sum of a function over a finite set: chips of a table's seats, pots,  *)
(* payouts.                                                                  *)
EXTENDS FiniteSetsExt

Sum(f, S) == MapThenSumSet(LAMBDA s : f[s], S)

=============================================================================
