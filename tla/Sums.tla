---------------------------------- MODULE Sums ----------------------------------
(* The sum of some members of a sequence of numbers.                       *)
EXTENDS Integers, Sequences

\* The sum of those at the places K.
SumOf(numbers, K) ==
  LET sum[n \in 0 .. Len(numbers)] ==
        IF n = 0 THEN 0 ELSE sum[n - 1] + (IF n \in K THEN numbers[n] ELSE 0)
  IN sum[Len(numbers)]
================================================================================
