------------------------------ MODULE MCRecalc ------------------------------
(* Instances of Recalc for TLC: c1 and c3 are of k1, c2 is of k2, and c4, of *)
(* k1, is still to come.  A request names the CDRs of k1, or of a carrier.   *)
(* A price that ends in 50 is halfway between two ten-thousandths; c2's     *)
(* price is a millionth away from none.                                      *)
EXTENDS Recalc, TLC

CONSTANTS c1, c2, c3, c4, k1, k2

P(buy, sell) == [buy |-> buy, sell |-> sell]

MCOwner == [c \in Cdr |-> IF c = c2 THEN k2 ELSE k1]

Known == c1 :> {P(1, 10050), P(1, 30020)} @@ c2 :> {P(1, 1)}
      @@ c3 :> {P(0, 0), P(1, 20050)} @@ c4 :> {P(1, 10050), P(1, 20000)}

MCPricesOf == [c \in Cdr |-> Known[c]]

ClosedScope == {{c1, c3}, {c1, c2, c3}}

OpenScope == {{c1, c2, c4}}

JobSymmetry == Permutations(Job)
=============================================================================
