----------------------------- MODULE Invoicing -----------------------------
(***************************************************************************)
(* Invoices, their payment, their PDF files and the reset of the billing   *)
(* module (routers/invoices.py), with the script that credits the invoices *)
(* paid before payments were credited at all.                              *)
(*                                                                         *)
(* Requests run concurrently, in several processes; an action is what one  *)
(* does between two awaits at which others may get in.  A transaction that *)
(* holds the rows it has written until its commit is one step, at the      *)
(* commit; what was read before it, in a snapshot, is a step of its own.   *)
(* What CDRs cost is in millionths; balances, ledger rows and the totals   *)
(* of invoices are in ten-thousandths, as in Money.                        *)
(***************************************************************************)
EXTENDS Integers, Sequences, FiniteSetsExt, SequencesExt, Money

CONSTANTS
    Customer,
    Request,      \* requests, and runs of the script, that may be in flight
    MaxInvoices,  \* bound: invoices generated
    Legacy,       \* invoices paid before payments were credited
    Charge,       \* what a CDR may cost
    MaxConsumed,  \* bound: what a customer may consume
    TopUp,        \* amounts of manual adjustments
    MaxCredits,   \* bound: rows of a customer's ledger that are not CDRs
    Strays,       \* what LAST_INSERT_ID() may answer on another connection
    LiveBackfill, \* may the script run while payments are being marked?
    Absent

Id == 1 .. MaxInvoices

Invoices ==
    [customer : Customer, total : Nat, status : {"draft", "sent", "paid"},
     credited : BOOLEAN, pdf : BOOLEAN]

Credits == [ref : Id \cup {Absent}, amount : Int]

ASSUME InvoicingAssumption ==
    /\ MaxInvoices \in Nat
    /\ MaxConsumed \in Nat
    /\ MaxCredits \in Nat
    /\ Charge \subseteq Nat
    /\ TopUp \subseteq Int
    /\ Legacy \in Nat /\ Legacy <= MaxInvoices
    /\ Strays \subseteq Id
    /\ LiveBackfill \in BOOLEAN
    /\ Absent \notin Id \cup Invoices

VARIABLES
    consumed, \* the sum of the sessionbill of each customer's CDRs
    balance,  \* customers.balance
    postings, \* how many CDRs' prices have been rounded into each balance, and
              \* one for the sum that a reset has rounded
    credits,  \* rows of balance_transactions that are not CDRs, in order
    invoices, \* rows of the invoices table
    issued,   \* the last id given by its AUTO_INCREMENT
    disk,     \* the invoices whose PDF file there is
    request,  \* where each request is
    reset     \* the reset job

vars == <<consumed, balance, postings, credits, invoices, issued, disk, request, reset>>

----------------------------------------------------------------------------
Invoice(k, total, status, credited, pdf) ==
    [customer |-> k, total |-> total, status |-> status, credited |-> credited, pdf |-> pdf]

Exists(i) == invoices[i] # Absent

Credit(i, amount) == [ref |-> i, amount |-> amount]

\* The IGV of 18%, rounded; halfway between two values it may be either, since
\* it is computed with floats.
Taxes(subtotal) ==
    LET low == (18 * subtotal) \div 10000
    IN  {tax \in low .. low + 1 : 10000 * tax - 18 * subtotal \in -5000 .. 5000}

\* The tax is added to what the CDRs sum to, and the total is rounded.
Totals(subtotal) == UNION {Nearest(subtotal + 100 * tax) : tax \in Taxes(subtotal)}

\* Where a request is, the invoice it is on, what it has read of it, and the
\* invoices a run of the script has listed.
At(pc, id, from, list) == [pc |-> pc, id |-> id, from |-> from, list |-> list]

NoList == <<>>

Idle == At("idle", Absent, Absent, NoList)

Reset(pc, pdfs) == [pc |-> pc, pdfs |-> pdfs]

NoReset == Reset("idle", {})

Init ==
    /\ consumed = [k \in Customer |-> 0]
    /\ balance = [k \in Customer |-> 0]
    /\ postings = [k \in Customer |-> 0]
    /\ credits = [k \in Customer |-> <<>>]
    /\ issued = Legacy
    /\ invoices \in [Id -> {Absent} \cup
          UNION {{Invoice(k, total, "paid", FALSE, FALSE) : k \in Customer} :
                    total \in Totals(MaxConsumed)}]
    /\ \A i \in Id : Exists(i) <=> i <= Legacy
    /\ disk = {}
    /\ request = [r \in Request |-> Idle]
    /\ reset = NoReset

----------------------------------------------------------------------------
(* Charges and adjustments: transactions of other modules, at their commit. *)

Consume(k) ==
    /\ \E amount \in Charge :
          /\ consumed[k] + amount <= MaxConsumed
          /\ consumed' = [consumed EXCEPT ![k] = @ + amount]
          /\ \E taken \in Nearest(amount) : balance' = [balance EXCEPT ![k] = @ - taken]
          /\ postings' = [postings EXCEPT ![k] = @ + (IF amount > 0 THEN 1 ELSE 0)]
    /\ UNCHANGED <<credits, invoices, issued, disk, request, reset>>

Adjust(k) ==
    /\ Len(credits[k]) < MaxCredits
    /\ \E amount \in TopUp :
          /\ balance' = [balance EXCEPT ![k] = @ + amount]
          /\ credits' = [credits EXCEPT ![k] = Append(@, Credit(Absent, amount))]
    /\ UNCHANGED <<consumed, postings, invoices, issued, disk, request, reset>>

----------------------------------------------------------------------------
(* generate_invoice, regen_pdf and the mails.                              *)

Generate(r) ==
    /\ request[r] = Idle
    /\ issued < MaxInvoices
    /\ issued' = issued + 1
    /\ \E k \in Customer : \E total \in Totals(consumed[k]) :
          invoices' = [invoices EXCEPT ![issued'] = Invoice(k, total, "draft", FALSE, FALSE)]
    /\ request' = [request EXCEPT ![r] = At("naming", issued', Absent, NoList)]
    /\ UNCHANGED <<consumed, balance, postings, credits, disk, reset>>

\* The session gave its connection back to the pool when it committed the
\* INSERT: LAST_INSERT_ID() is of whichever connection it gets next.
LastInsertId(r) == {request[r].id} \cup Strays

ReadId(r) ==
    /\ request[r].pc = "naming"
    /\ \E i \in LastInsertId(r) :
          request' = [request EXCEPT ![r] = At("drawing", i, Absent, NoList)]
    /\ UNCHANGED <<consumed, balance, postings, credits, invoices, issued, disk, reset>>

RegenPdf(r) ==
    /\ request[r] = Idle
    /\ \E i \in Id :
          /\ Exists(i)
          /\ request' = [request EXCEPT ![r] = At("redrawing", i, Absent, NoList)]
    /\ UNCHANGED <<consumed, balance, postings, credits, invoices, issued, disk, reset>>

\* _generate_pdf writes the file and UPDATE sets pdf_path, if the row is
\* there.  A new invoice is then mailed, if that is switched on.
DrawPdf(r) ==
    LET i == request[r].id
    IN  /\ request[r].pc \in {"drawing", "redrawing"}
        /\ disk' = disk \cup {i}
        /\ invoices' = IF Exists(i) THEN [invoices EXCEPT ![i].pdf = TRUE]
                                    ELSE invoices
        /\ \/ request' = [request EXCEPT ![r] = Idle]
           \/ /\ request[r].pc = "drawing"
              /\ request' = [request EXCEPT ![r] = At("mailing", i, Absent, NoList)]
        /\ UNCHANGED <<consumed, balance, postings, credits, issued, reset>>

\* send_invoice_email reads the row and the file; then the mail is on its way.
SendEmail(r) ==
    /\ request[r] = Idle
    /\ \E i \in Id :
          /\ Exists(i)
          /\ invoices[i].pdf
          /\ i \in disk
          /\ request' = [request EXCEPT ![r] = At("mailing", i, Absent, NoList)]
    /\ UNCHANGED <<consumed, balance, postings, credits, invoices, issued, disk, reset>>

\* Mutants: the status is set without looking at it; it is one the column lacks.
MailedAlways(status) == "sent"
MailedNew(status) == IF status = "draft" THEN "emailed" ELSE status

\* IF(status = 'draft', 'sent', status)
Mailed(status) == IF status = "draft" THEN "sent" ELSE status

EmailSent(r) ==
    LET i == request[r].id
    IN  /\ request[r].pc = "mailing"
        /\ invoices' = IF Exists(i)
                         THEN [invoices EXCEPT ![i].status = Mailed(@)]
                         ELSE invoices
        /\ request' = [request EXCEPT ![r] = Idle]
        /\ UNCHANGED <<consumed, balance, postings, credits, issued, disk, reset>>

----------------------------------------------------------------------------
(* Payments.                                                               *)

InFlight(pcs) == \E r \in Request : request[r].pc \in pcs

\* mark_paid reads the invoice's customer and total.
MarkPaid(r) ==
    /\ request[r] = Idle
    /\ LiveBackfill \/ ~InFlight({"filling"})
    /\ \E i \in Id :
          /\ Exists(i)
          /\ request' = [request EXCEPT ![r] = At("paying", i, invoices[i], NoList)]
    /\ UNCHANGED <<consumed, balance, postings, credits, invoices, issued, disk, reset>>

\* Mutant: balance_credited_at is looked at where the invoice was read.
GateReadBefore(i, inv) == ~inv.credited

\* UPDATE ... WHERE id = :id AND balance_credited_at IS NULL changes a row.
Gate(i, inv) == Exists(i) /\ ~invoices[i].credited

PayCommit(r) ==
    LET i   == request[r].id
        inv == request[r].from
        k   == inv.customer
    IN  /\ request[r].pc = "paying"
        /\ IF Gate(i, inv)
             THEN /\ Len(credits[k]) < MaxCredits
                  /\ balance' = [balance EXCEPT ![k] = @ + inv.total]
                  /\ credits' = [credits EXCEPT ![k] = Append(@, Credit(i, inv.total))]
             ELSE UNCHANGED <<balance, credits>>
        /\ invoices' = IF Exists(i)
                         THEN [invoices EXCEPT ![i].status = "paid", ![i].credited = TRUE]
                         ELSE invoices
        /\ request' = [request EXCEPT ![r] = Idle]
        /\ UNCHANGED <<consumed, postings, issued, disk, reset>>

\* backfill_invoice_balance_credit.py lists the paid invoices not credited ...
Backfill(r) ==
    LET pending == {i \in Id : Exists(i) /\ invoices[i].status = "paid" /\ ~invoices[i].credited}
    IN  /\ request[r] = Idle
        /\ LiveBackfill \/ (~InFlight({"paying", "filling"}) /\ reset = NoReset)
        /\ pending # {}
        /\ request' = [request EXCEPT ![r] =
              At("filling", Absent, Absent, [i \in pending |-> invoices[i]])]
        /\ UNCHANGED <<consumed, balance, postings, credits, invoices, issued, disk, reset>>

\* ... and credits those it has listed, in one transaction.
BackfillCommit(r) ==
    LET list   == request[r].list
        of(k)  == {i \in DOMAIN list : list[i].customer = k}
        row(i) == Credit(i, list[i].total)
    IN  /\ request[r].pc = "filling"
        /\ \A k \in Customer : Len(credits[k]) + Cardinality(of(k)) <= MaxCredits
        /\ balance' = [k \in Customer |-> balance[k] + SumFunction([i \in of(k) |-> list[i].total])]
        /\ credits' = [k \in Customer |-> credits[k] \o SetToSeq({row(i) : i \in of(k)})]
        /\ invoices' = [i \in Id |-> IF i \in DOMAIN list /\ Exists(i)
                                       THEN [invoices[i] EXCEPT !.credited = TRUE]
                                       ELSE invoices[i]]
        /\ request' = [request EXCEPT ![r] = Idle]
        /\ UNCHANGED <<consumed, postings, issued, disk, reset>>

\* A PDF that is not drawn, a mail that fails, a request that dies.
GiveUp(r) ==
    /\ request[r] # Idle
    /\ request' = [request EXCEPT ![r] = Idle]
    /\ UNCHANGED <<consumed, balance, postings, credits, invoices, issued, disk, reset>>

----------------------------------------------------------------------------
(* The reset of the module.                                                *)

\* The job reads every invoice and writes the backup file, ...
ResetBackup ==
    /\ reset = NoReset
    /\ LiveBackfill \/ ~InFlight({"filling"})
    /\ reset' = Reset("backed up", {i \in Id : Exists(i) /\ invoices[i].pdf})
    /\ UNCHANGED <<consumed, balance, postings, credits, invoices, issued, disk, request>>

\* ... deletes the files of the invoices it has read, ...
ResetUnlink ==
    /\ reset.pc = "backed up"
    /\ disk' = disk \ reset.pdfs
    /\ reset' = Reset("unlinked", {})
    /\ UNCHANGED <<consumed, balance, postings, credits, invoices, issued, request>>

\* Mutant: the balances stay as they are.
OwedAsBefore(k) == balance[k]

\* -COALESCE(SUM(sessionbill), 0)
Owed(k) == Stored(-consumed[k])

\* ... and deletes the ledger and whatever invoices there are by then, and sets
\* the balances to what the CDRs sum to.  The DELETE locks the whole ledger and
\* the UPDATE the CDRs it sums, so that no other transaction is halfway.
ResetCommit ==
    /\ reset.pc = "unlinked"
    /\ credits' = [k \in Customer |-> <<>>]
    /\ invoices' = [i \in Id |-> Absent]
    /\ balance' = [k \in Customer |-> Owed(k)]
    /\ postings' = [k \in Customer |-> IF consumed[k] = 0 THEN 0 ELSE 1]
    /\ reset' = NoReset
    /\ UNCHANGED <<consumed, issued, disk, request>>

\* The job fails, is a deadlock's victim, or dies.
ResetFails ==
    /\ reset # NoReset
    /\ reset' = NoReset
    /\ UNCHANGED <<consumed, balance, postings, credits, invoices, issued, disk, request>>

----------------------------------------------------------------------------
RequestStep(r) ==
    \/ Generate(r) \/ ReadId(r) \/ RegenPdf(r) \/ DrawPdf(r)
    \/ SendEmail(r) \/ EmailSent(r)
    \/ MarkPaid(r) \/ PayCommit(r)
    \/ Backfill(r) \/ BackfillCommit(r)
    \/ GiveUp(r)

Next ==
    \/ \E k \in Customer : Consume(k) \/ Adjust(k)
    \/ \E r \in Request : RequestStep(r)
    \/ ResetBackup \/ ResetUnlink \/ ResetCommit \/ ResetFails

Spec == Init /\ [][Next]_vars

----------------------------------------------------------------------------
TypeOK ==
    /\ consumed \in [Customer -> 0 .. MaxConsumed]
    /\ balance \in [Customer -> Int]
    /\ postings \in [Customer -> Nat]
    /\ \A k \in Customer : credits[k] \in Seq(Credits)
    /\ invoices \in [Id -> Invoices \cup {Absent}]
    /\ \A i \in Id : Exists(i) => i <= issued
    /\ issued \in 0 .. MaxInvoices
    /\ disk \subseteq Id
    /\ \A r \in Request : request[r].pc \in
          {"idle", "naming", "drawing", "redrawing", "mailing", "paying", "filling"}
    /\ reset.pc \in {"idle", "backed up", "unlinked"}
    /\ reset.pdfs \subseteq Id

\* A balance is what has been credited less what the customer has consumed, to
\* half a ten-thousandth for each price that was rounded into it, and for all of
\* them together after a reset: payments, whoever marks them and however often,
\* adjustments, and a reset in the middle of either never lose or duplicate an
\* amount (invoices.py:248-405).
BooksBalance ==
    \A k \in Customer :
        100 * (balance[k] - SumFunction([n \in DOMAIN credits[k] |-> credits[k][n].amount]))
            + consumed[k] \in -50 * postings[k] .. 50 * postings[k]

\* The rows of a customer's ledger that credit an invoice.
RowsOf(k, i) == {n \in 1 .. Len(credits[k]) : credits[k][n].ref = i}

\* An invoice that is marked as credited has exactly one row in the ledger, of
\* its customer and with its total; one that is not, or has been deleted, has
\* none (the guard of invoices.py:270-280 and the promise of schema.sql:943-947).
PaidOnce ==
    \A i \in Id : \A k \in Customer :
        IF Exists(i) /\ invoices[i].credited /\ invoices[i].customer = k
          THEN \E n \in 1 .. Len(credits[k]) :
                  RowsOf(k, i) = {n} /\ credits[k][n].amount = invoices[i].total
          ELSE RowsOf(k, i) = {}

\* A mail that arrives late never takes a payment back: a paid invoice stays
\* paid until it is deleted (the IF of invoices.py:201).
PaidStaysPaid ==
    [][\A i \in Id : Exists(i) /\ invoices[i].status = "paid"
            => invoices'[i] = Absent \/ invoices'[i].status = "paid"]_vars
=============================================================================
