-------------------------------- MODULE Sums --------------------------------
(* The sum of a sequence of numbers.                                         *)
EXTENDS Integers, SequencesExt

SumOf(s) == FoldLeft(LAMBDA sum, n : sum + n, 0, s)
=============================================================================
