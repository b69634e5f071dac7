----------------------------- MODULE MCBilling -----------------------------
(***************************************************************************)
(* Instances of Billing for TLC.  c1 and c2 are of one customer and c3 of  *)
(* the other.  The rate of c3 is corrupt, priced only by the carrier, or   *)
(* complete, as it is edited, and its call_id may not fit the ledger's     *)
(* reference.  2050 millionths are halfway between two ten-thousandths,    *)
(* and 45 are less than half of one.  A batch takes up to three CDRs, so   *)
(* that a victim that goes on with its batch can meet another worker's.    *)
(***************************************************************************)
EXTENDS Billing, TLC

CONSTANTS w1, w2, c1, c2, c3, c4, c5, k1, k2

MCOwner == [c \in Cdr |-> IF c \in {c3, c4} THEN k2 ELSE k1]

MCQuote == c1 :> {[buy |-> 1, sell |-> 2050]}
        @@ c2 :> {[buy |-> 0, sell |-> 45]}
        @@ c3 :> {RateError, [buy |-> 1, sell |-> 0], [buy |-> 1, sell |-> 200]}

\* Every CDR can be rated: five of them, so that two batches cross.
RateableQuote == [c \in Cdr |-> {[buy |-> 0, sell |-> 200]}]

MCAdjustment == {-30000}

MCMaxAdjustments == k1 :> 1 @@ k2 :> 0

NoAdjustments == [k \in Customer |-> 0]

Workers == Permutations(Worker)
=============================================================================
