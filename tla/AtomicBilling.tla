--------------------------- MODULE AtomicBilling ---------------------------
(***************************************************************************)
(* What billing promises, without workers, locks or a ledger: a CDR gets   *)
(* its final prices once, and in the same step its customer's balance goes *)
(* down by the sale price, rounded to the balance's four decimals; but for *)
(* a CDR whose debit raised, which keeps its price and is known by it.     *)
(* Billing implements this module.                                         *)
(***************************************************************************)
EXTENDS Integers, Functions, Money

CONSTANTS Cdr, Customer, Owner, Billable, Quote, Adjustment, Absent, RateError

VARIABLES cdrs, balance, half

vars == <<cdrs, balance, half>>

Unrated == [buy |-> 0, sell |-> 0]

Init ==
    /\ cdrs = [c \in Cdr |-> Absent]
    /\ balance = [k \in Customer |-> 0]
    /\ half = {}

\* A call ends and is recorded, without a price yet.
Record(c) ==
    /\ cdrs[c] = Absent
    /\ cdrs' = [cdrs EXCEPT ![c] = Unrated]
    /\ UNCHANGED <<balance, half>>

\* The calls get one of their quotes, and are the only ones that change.
Priced(calls) ==
    /\ cdrs' \in [Cdr -> {cdrs[c] : c \in Cdr} \cup UNION {Quote[c] : c \in calls}]
    /\ \A c \in Cdr : IF c \in calls THEN cdrs'[c] \in Quote[c] \ {RateError}
                                     ELSE cdrs'[c] = cdrs[c]

\* What may be taken from a balance for a call.
Due(c, raised) == Nearest(cdrs'[c].sell) \cup (IF c \in raised THEN {0} ELSE {})

\* Some calls that have no price are priced and charged together, each rounded
\* on its own.
Charge(calls, raised) ==
    /\ \A c \in calls : cdrs[c] \in {Absent, Unrated}
    /\ Priced(calls)
    /\ \E taken \in [calls -> UNION {Due(c, raised) : c \in calls}] :
          /\ \A c \in calls : taken[c] \in Due(c, raised)
          /\ balance' = [k \in Customer |-> balance[k] -
                            SumFunction([c \in {d \in calls : Owner[d] = k} |-> taken[c]])]
    /\ half' = half \cup raised

Adjust(k, amount) ==
    /\ \E given \in Nearest(amount) : balance' = [balance EXCEPT ![k] = @ + given]
    /\ UNCHANGED <<cdrs, half>>

Next ==
    \/ \E c \in Cdr : Record(c)
    \/ \E calls \in SUBSET Billable : \E raised \in SUBSET calls : Charge(calls, raised)
    \/ \E k \in Customer, amount \in Adjustment : Adjust(k, amount)

Spec == Init /\ [][Next]_vars
=============================================================================
