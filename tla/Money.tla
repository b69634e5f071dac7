------------------------------- MODULE Money -------------------------------
(***************************************************************************)
(* The two precisions of money.  What a call costs is rounded to six       *)
(* decimals and kept in DECIMAL(10,6) columns; balances, the ledger and    *)
(* invoices are DECIMAL(12,4).  Prices are whole numbers of millionths     *)
(* here, and what moves a balance is a whole number of ten-thousandths:    *)
(* a price is rounded wherever it meets one of those columns.              *)
(***************************************************************************)
EXTENDS Integers

\* n ten-thousandths are x millionths, to half a ten-thousandth.
Close(n, x) == 100 * n - x \in -50 .. 50

\* What UPDATE ... SET balance = balance + :x may add to a DECIMAL(12,4).  The
\* driver sends a float, so the sum is computed in binary: when x is halfway
\* between two values of the column, either may be the one that is stored.
Nearest(x) == {n \in x \div 100 .. x \div 100 + 1 : Close(n, x)}

\* The value that the column keeps of x alone: half is rounded away from zero.
Stored(x) == IF x >= 0 THEN (x + 50) \div 100 ELSE -((50 - x) \div 100)
=============================================================================
