-------------------------------- MODULE Sums --------------------------------
(* The sum of a sequence of numbers, as a recursive function. *)
EXTENDS Integers, Sequences

Total(counts) ==
    LET upTo[d \in 0 .. Len(counts)] == IF d = 0 THEN 0 ELSE upTo[d - 1] + counts[d]
    IN  upTo[Len(counts)]
=============================================================================
