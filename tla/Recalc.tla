------------------------------- MODULE Recalc -------------------------------
(***************************************************************************)
(* The retroactive recalculation of rates (routers/billing_recalc.py).     *)
(*                                                                         *)
(* A job reads its CDRs and the current rates in one snapshot, and keeps   *)
(* the differences in memory; then it updates the CDRs chunk by chunk,     *)
(* committing each, and last it corrects the balances in one more          *)
(* transaction.  Kamailio, the billing workers, the invoices and other     *)
(* jobs go on meanwhile.  A worker's charge is one step here: AtomicBilling*)
(* is what Billing implements.  Prices are in millionths and balances in   *)
(* ten-thousandths, as in Money.                                           *)
(***************************************************************************)
EXTENDS Integers, FiniteSets, Functions, Money

CONSTANTS
    Cdr,          \* answered CDRs with a duration, by primary key
    Customer, Owner,
    Job,          \* recalculation jobs that may run at a time
    Scope,        \* the sets of CDRs a request may name: a customer's or a carrier's
    Closed,       \* CDRs older than the workers' two-day window
    PricesOf,     \* the prices that the rates may give a CDR, as they are edited
    ChunkSize,    \* BATCH_SIZE
    MaxScans,     \* bound: jobs that find something to apply
    Absent

Price == [buy : Nat, sell : Nat]

ASSUME RecalcAssumption ==
    /\ IsFiniteSet(Cdr) /\ IsFiniteSet(Job)
    /\ Owner \in [Cdr -> Customer]
    /\ Closed \subseteq Cdr
    /\ Scope \subseteq SUBSET Cdr
    /\ PricesOf \in [Cdr -> SUBSET Price]
    /\ ChunkSize \in Nat \ {0}
    /\ MaxScans \in Nat
    /\ Absent \notin Price

VARIABLES
    cdrs,     \* committed prices of the CDRs
    rate,     \* what the rate tables now give for each CDR
    balance,  \* customers.balance, less top-ups and payments
    issued,   \* the customers whose invoice over the CDRs' period is sent or paid
    job,      \* the recalculation jobs
    scans,    \* how many have found something to apply
    postings, \* how many amounts have been rounded into each balance
    upset     \* the customers whose books a job has upset (see ApplyChunk, Abort)

vars == <<cdrs, rate, balance, issued, job, scans, postings, upset>>

Unrated == [buy |-> 0, sell |-> 0]

Sell(c) == IF cdrs[c] = Absent THEN 0 ELSE cdrs[c].sell

OwnedBy(k) == {c \in Cdr : Owner[c] = k}

\* The sale prices that a job has read for its CDRs, those it gives them, and
\* the CDRs it has still to write and has written.
Running(pc, todo, written, seen, prices) ==
    [pc |-> pc, todo |-> todo, written |-> written, seen |-> seen, prices |-> prices]

Idle == Running("idle", {}, {}, [c \in Cdr |-> 0], [c \in Cdr |-> Unrated])

Applying(j) == job[j].pc = "apply"

\* Every charge made so far was rounded into the balance on its own.
Init ==
    /\ cdrs \in [Cdr -> UNION {PricesOf[c] : c \in Cdr} \cup {Absent, Unrated}]
    /\ \A c \in Cdr : cdrs[c] \in IF c \in Closed THEN PricesOf[c] \cup {Unrated} ELSE {Absent}
    /\ rate \in [Cdr -> UNION {PricesOf[c] : c \in Cdr}]
    /\ \A c \in Cdr : rate[c] \in PricesOf[c]
    /\ balance = [k \in Customer |-> -SumFunction([c \in OwnedBy(k) |-> Stored(Sell(c))])]
    /\ issued = {}
    /\ job = [j \in Job |-> Idle]
    /\ scans = 0
    /\ postings = [k \in Customer |-> Cardinality({c \in OwnedBy(k) : Sell(c) > 0})]
    /\ upset = {}

----------------------------------------------------------------------------
(* Around the job.                                                         *)

KamailioInsert(c) ==
    /\ cdrs[c] = Absent
    /\ cdrs' = [cdrs EXCEPT ![c] = Unrated]
    /\ UNCHANGED <<rate, balance, issued, job, scans, postings, upset>>

\* A billing worker prices and debits a pending CDR of the last two days.
Bill(c) ==
    /\ cdrs[c] = Unrated
    /\ c \notin Closed
    /\ rate[c] # Unrated
    /\ cdrs' = [cdrs EXCEPT ![c] = rate[c]]
    /\ \E taken \in Nearest(rate[c].sell) :
          balance' = [balance EXCEPT ![Owner[c]] = @ - taken]
    /\ postings' = [postings EXCEPT ![Owner[c]] = @ + (IF rate[c].sell > 0 THEN 1 ELSE 0)]
    /\ UNCHANGED <<rate, issued, job, scans, upset>>

EditRate(c) ==
    /\ \E p \in PricesOf[c] : rate' = [rate EXCEPT ![c] = p]
    /\ UNCHANGED <<cdrs, balance, issued, job, scans, postings, upset>>

\* The customer's invoice of the period is mailed, or is paid, whether or not
\* a job is at work.
IssueInvoice(k) ==
    /\ issued' = issued \cup {k}
    /\ UNCHANGED <<cdrs, rate, balance, job, scans, postings, upset>>

----------------------------------------------------------------------------
(* The job.                                                                *)

\* _blocked_invoices
Blocked(customers) == customers \cap issued # {}

InTable(c) == cdrs[c] # Absent

Apart(a, b) == a - b \notin -1 .. 1

\* The new price is off by more than the code's tolerance of a millionth.  When
\* it is off by just that, it depends on the float whether it is.
Differs(c) == Apart(rate[c].buy, cdrs[c].buy) \/ Apart(rate[c].sell, cdrs[c].sell)

\* Everything read before the first UPDATE comes from one snapshot: the rates,
\* the CDRs in scope, already billed or not, and the invoices.
Scan(j) ==
    /\ job[j].pc = "idle"
    /\ scans < MaxScans
    /\ \E scope \in Scope : \E rows \in SUBSET {c \in scope : InTable(c) /\ rate[c] # cdrs[c]} :
          /\ \A c \in scope : InTable(c) /\ Differs(c) => c \in rows
          /\ rows # {}
          /\ ~Blocked({Owner[c] : c \in rows})
          /\ job' = [job EXCEPT ![j] =
                Running("apply", rows, {},
                        [c \in Cdr |-> IF c \in rows THEN cdrs[c].sell ELSE 0],
                        [c \in Cdr |-> IF c \in rows THEN rate[c] ELSE Unrated])]
    /\ scans' = scans + 1
    /\ UNCHANGED <<cdrs, rate, balance, issued, postings, upset>>

\* Mutant: a last chunk that is not full is left out.
WholeChunks(todo) ==
    {rows \in SUBSET todo : Cardinality(rows) = ChunkSize}

Chunks(todo) ==
    WholeChunks(todo) \cup (IF Cardinality(todo) \in 1 .. ChunkSize - 1 THEN {todo} ELSE {})

\* UPDATE cdrs with the prices of the snapshot, and commit.  A price that is no
\* longer the one the job has seen, since a worker or another job has written
\* it, is written over all the same.
ApplyChunk(j) ==
    /\ Applying(j)
    /\ \E rows \in Chunks(job[j].todo) :
          /\ cdrs' = [c \in Cdr |-> IF c \in rows THEN job[j].prices[c] ELSE cdrs[c]]
          /\ job' = [job EXCEPT ![j].todo = @ \ rows, ![j].written = @ \cup rows]
          /\ upset' = upset \cup {Owner[c] : c \in {d \in rows : Sell(d) # job[j].seen[d]}}
    /\ UNCHANGED <<rate, balance, issued, scans, postings>>

\* new_sessionbill - old_sessionbill of some of the customer's CDRs.
Delta(j, k, rows) ==
    SumFunction([c \in rows \cap OwnedBy(k) |-> job[j].prices[c].sell - job[j].seen[c]])

\* credit = -delta: what was charged in excess is given back.
Credit(j, k) == -Delta(j, k, job[j].todo \cup job[j].written)

\* What becomes of the balances when each gets its correction, rounded.
Corrected(j) ==
    /\ \E given \in [Customer -> UNION {Nearest(Credit(j, k)) : k \in Customer}] :
          /\ \A k \in Customer : given[k] \in Nearest(Credit(j, k))
          /\ balance' = [k \in Customer |-> balance[k] + given[k]]
    /\ postings' = [k \in Customer |-> postings[k] + (IF Credit(j, k) = 0 THEN 0 ELSE 1)]

\* One transaction with every customer's correction; then the job is done.
AdjustBalances(j) ==
    /\ Applying(j)
    /\ Chunks(job[j].todo) = {}
    /\ Corrected(j)
    /\ job' = [job EXCEPT ![j] = Idle]
    /\ UNCHANGED <<cdrs, rate, issued, scans, upset>>

\* Mutant: the rows of the failed job are not dropped.
AbortKeepsRows(j) ==
    /\ Applying(j)
    /\ job' = [job EXCEPT ![j] = [@ EXCEPT !.pc = "idle"]]
    /\ UNCHANGED <<cdrs, rate, balance, issued, scans, postings, upset>>

\* A statement raises, or the process dies: the chunks already committed stay,
\* and their corrections will not be made.
Abort(j) ==
    /\ Applying(j)
    /\ job' = [job EXCEPT ![j] = Idle]
    /\ upset' = upset \cup {Owner[c] : c \in job[j].written}
    /\ UNCHANGED <<cdrs, rate, balance, issued, scans, postings>>

----------------------------------------------------------------------------
Next ==
    \/ \E c \in Cdr : KamailioInsert(c) \/ Bill(c) \/ EditRate(c)
    \/ \E k \in Customer : IssueInvoice(k)
    \/ \E j \in Job : Scan(j) \/ ApplyChunk(j) \/ AdjustBalances(j) \/ Abort(j)

Spec == Init /\ [][Next]_vars

----------------------------------------------------------------------------
JobType == [pc : {"idle", "apply"}, todo : SUBSET Cdr, written : SUBSET Cdr,
            seen : [Cdr -> Nat], prices : [Cdr -> Price]]

\* A job that is not at work keeps nothing of an earlier one, and the CDRs of
\* one that is are in the table.
TypeOK ==
    /\ cdrs \in [Cdr -> Price \cup {Absent}]
    /\ rate \in [Cdr -> Price]
    /\ balance \in [Customer -> Int]
    /\ issued \subseteq Customer
    /\ job \in [Job -> JobType]
    /\ \A j \in Job : IF Applying(j) THEN \A c \in job[j].todo : InTable(c)
                                     ELSE job[j] = Idle
    /\ scans \in Nat
    /\ postings \in [Customer -> Nat]
    /\ upset \subseteq Customer

\* What the chunks that a job has committed have added to the customer's CDRs.
Owed(j, k) == Delta(j, k, job[j].written)

\* What the customer's CDRs say, in millionths, once the jobs at work have made
\* the corrections for what they have written.
Books(k) ==
    100 * balance[k] + SumFunction([c \in OwnedBy(k) |-> Sell(c)])
        - SumFunction([j \in Job |-> Owed(j, k)])

\* A balance is what its customer's CDRs say, to half a ten-thousandth for each
\* amount that was rounded into it, however the jobs, the workers and the edits
\* of the rates interleave; but for the customers whose books a job has upset:
\* by writing over a price that had changed since its scan, or by ending
\* between its chunks and its corrections (billing_recalc.py:278-378).
BooksBalance ==
    \A k \in Customer \ upset : Books(k) \in -50 * postings[k] .. 50 * postings[k]

\* The same for every customer, looked at only when no job runs.
BooksBalanceAtRest ==
    (\A j \in Job : ~Applying(j)) =>
        \A k \in Customer : Books(k) \in -50 * postings[k] .. 50 * postings[k]
=============================================================================
