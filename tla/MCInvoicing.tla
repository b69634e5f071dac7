---------------------------- MODULE MCInvoicing ----------------------------
(* Instances of Invoicing for TLC.  The requests are interchangeable.       *)
EXTENDS Invoicing, TLC

Interchangeable == Permutations(Request)
=============================================================================
