------------------------------ MODULE Billing ------------------------------
(***************************************************************************)
(* How a call detail record (CDR) becomes a debit of a customer's balance. *)
(*                                                                         *)
(* Kamailio inserts CDRs with buycost = sessionbill = 0.  Every backend    *)
(* process runs a copy of _billing_worker, which takes a batch of pending  *)
(* CDRs under row locks, prices them one by one, debits their customers,   *)
(* appends to balance_transactions (the ledger) and commits the batch.     *)
(* The ingest endpoint and the manual adjustment write the same balance    *)
(* and ledger.  A transaction's writes are kept in txn[w] until it commits;*)
(* InnoDB's exclusive row locks are rowLock and customerLock.              *)
(***************************************************************************)
EXTENDS Integers, Sequences, FiniteSets, Money

CONSTANTS
    Worker,           \* backend processes, each with its own billing loop
    Cdr,              \* rows of the cdrs table, by primary key
    Customer,
    Owner,            \* cdrs.customer_id, which is NOT NULL
    Billable,         \* the CDRs with billsec > 0
    Answered,         \* those of them with disposition ANSWERED
    Quote,            \* what calc_bill may return for a CDR, as rates are edited,
                      \* in millionths
    BatchLimit,       \* the LIMIT of the worker's SELECT
    LongCallId,       \* CDRs whose call_id does not fit balance_transactions.reference
    LockWaitTimeouts, \* may a lock wait expire (innodb_lock_wait_timeout)?
    Adjustment,       \* amounts of manual adjustments, in millionths
    MaxAdjustments,   \* bound: manual adjustments of each customer
    MaxLosses,        \* bound: batches lost to a crash or to a scan's deadlock
    Absent,           \* the row is not in the table
    NoQuote,          \* the transaction has not written the row
    RateError,        \* calc_bill raises
    Nobody            \* the lock is free

Price == [buy : Nat, sell : Nat]

ASSUME WorkerAssumption == Nobody \notin Worker
ASSUME CdrAssumption == /\ IsFiniteSet(Cdr)
                        /\ Owner \in [Cdr -> Customer]
                        /\ Billable \subseteq Cdr
                        /\ Answered \subseteq Billable
                        /\ LongCallId \subseteq Cdr
ASSUME QuoteAssumption == /\ Quote \in [Cdr -> SUBSET (Price \cup {RateError})]
                          /\ Absent \notin Price
                          /\ NoQuote \notin Price
                          /\ RateError \notin Price
ASSUME BoundAssumption == /\ BatchLimit \in Nat \ {0}
                          /\ LockWaitTimeouts \in BOOLEAN
                          /\ Adjustment \subseteq Int
                          /\ MaxAdjustments \in [Customer -> Nat]
                          /\ MaxLosses \in Nat

VARIABLES
    cdrs,         \* committed rows: Absent, or their buycost and sessionbill
    expired,      \* CDRs older than the worker's two-day window
    balance,      \* customers.balance, in ten-thousandths
    ledger,       \* balance_transactions of each customer, in id order
    rowLock,      \* the worker whose transaction has locked the CDR
    customerLock, \* the worker whose transaction has locked the customers row
    worker,       \* where each billing loop is
    txn,          \* each worker's uncommitted writes
    losses,       \* how many batches have been lost
    victims,      \* workers that have ever been chosen as a deadlock's victim
    half          \* CDRs committed with a price although their debit raised

vars == <<cdrs, expired, balance, ledger, rowLock, customerLock, worker, txn,
          losses, victims, half>>

----------------------------------------------------------------------------
Unrated == [buy |-> 0, sell |-> 0]

\* Mutant: the SELECT looks at sessionbill and forgets buycost.
PendingBySale(c) == cdrs[c] # Absent /\ cdrs[c].sell = 0

Pending(c) == cdrs[c] = Unrated

\* The WHERE clause of the worker's SELECT.
Eligible(c) == Pending(c) /\ c \in Answered /\ c \notin expired

Entry == [type : {"cdr", "manual"}, ref : Cdr \cup {Absent}, amount : Int, after : Int]

CdrEntry(c, bill, after) ==
    [type |-> "cdr", ref |-> c, amount |-> Stored(-bill), after |-> after]

ManualEntry(amount, after) ==
    [type |-> "manual", ref |-> Absent, amount |-> Stored(amount), after |-> after]

\* What a transaction has written: the prices of CDRs, the sum it has taken
\* from each balance, and the rows it has added to the ledger; and the CDRs
\* whose debit has raised after their price was written.
Writes(rows, debit, entries, raised) ==
    [rows |-> rows, debit |-> debit, entries |-> entries, raised |-> raised]

NoWrites == Writes([c \in Cdr |-> NoQuote], [k \in Customer |-> 0],
                   [k \in Customer |-> <<>>], {})

\* Where a loop is: the statement it is at, the CDRs of the batch it has not
\* taken yet, and the one it is on with its price.
At(pc, todo, cur, quote) == [pc |-> pc, todo |-> todo, cur |-> cur, quote |-> quote]

Asleep == At("sleep", {}, Absent, NoQuote)

Min2(a, b) == IF a < b THEN a ELSE b

Init ==
    /\ cdrs = [c \in Cdr |-> Absent]
    /\ expired = {}
    /\ balance = [k \in Customer |-> 0]
    /\ ledger = [k \in Customer |-> <<>>]
    /\ rowLock = [c \in Cdr |-> Nobody]
    /\ customerLock = [k \in Customer |-> Nobody]
    /\ worker = [w \in Worker |-> Asleep]
    /\ txn = [w \in Worker |-> NoWrites]
    /\ losses = 0
    /\ victims = {}
    /\ half = {}

----------------------------------------------------------------------------
(* The billing loop of worker w.                                           *)

FreeFor(lock, w) == lock \in {Nobody, w}

Unlocked(locks, w) ==
    [x \in DOMAIN locks |-> IF locks[x] = w THEN Nobody ELSE locks[x]]

\* Mutant: the session is reused without a rollback.
ReleaseOnly(w) ==
    /\ rowLock' = Unlocked(rowLock, w)
    /\ customerLock' = Unlocked(customerLock, w)
    /\ UNCHANGED txn

\* The end of a transaction that leaves no trace: the writes are dropped and
\* the locks released.
RollBack(w) ==
    /\ txn' = [txn EXCEPT ![w] = NoWrites]
    /\ rowLock' = Unlocked(rowLock, w)
    /\ customerLock' = Unlocked(customerLock, w)

\* Mutant: a plain SELECT, which neither locks rows nor skips locked ones.
SelectWithoutLocks(w) ==
    LET found == {c \in Cdr : Eligible(c)}
    IN  /\ worker[w].pc = "sleep"
        /\ found # {}
        /\ \E rows \in SUBSET found :
              /\ Cardinality(rows) = Min2(BatchLimit, Cardinality(found))
              /\ worker' = [worker EXCEPT ![w] = At("batch", rows, Absent, NoQuote)]
        /\ UNCHANGED <<cdrs, expired, balance, ledger, rowLock, customerLock, txn, losses, victims, half>>

\* SELECT ... LIMIT n FOR UPDATE SKIP LOCKED.  There is no ORDER BY: which of
\* the eligible rows come back is the server's choice.
Select(w) ==
    LET found == {c \in Cdr : Eligible(c) /\ rowLock[c] = Nobody}
    IN  /\ worker[w].pc = "sleep"
        /\ found # {}
        /\ \E rows \in SUBSET found :
              /\ Cardinality(rows) = Min2(BatchLimit, Cardinality(found))
              /\ rowLock' = [c \in Cdr |-> IF c \in rows THEN w ELSE rowLock[c]]
              /\ worker' = [worker EXCEPT ![w] =
                               At("batch", rows, Absent, NoQuote)]
        /\ UNCHANGED <<cdrs, expired, balance, ledger, customerLock, txn, losses, victims, half>>

\* Mutant: the exception of a corrupt rate is not caught.
RatedUnchecked(w, c, q) ==
    At("update", worker[w].todo \ {c}, c, q)

\* calc_bill for the next CDR of the batch; when it raises, the CDR is logged
\* and the loop goes on with the others.
Rated(w, c, q) ==
    LET todo == worker[w].todo \ {c}
    IN  IF q = RateError THEN At("batch", todo, Absent, NoQuote)
                         ELSE At("update", todo, c, q)

\* Mutant: the exception reaches the handler around the whole batch.
CalcBillAborts(w) ==
    /\ worker[w].pc = "batch"
    /\ \E c \in worker[w].todo : \E q \in Quote[c] :
          IF q = RateError
            THEN worker' = [worker EXCEPT ![w] = Asleep] /\ RollBack(w)
            ELSE /\ worker' = [worker EXCEPT ![w] = Rated(w, c, q)]
                 /\ UNCHANGED <<rowLock, customerLock, txn>>
    /\ UNCHANGED <<cdrs, expired, balance, ledger, losses, victims, half>>

CalcBill(w) ==
    /\ worker[w].pc = "batch"
    /\ \E c \in worker[w].todo : \E q \in Quote[c] :
          worker' = [worker EXCEPT ![w] = Rated(w, c, q)]
    /\ UNCHANGED <<cdrs, expired, balance, ledger, rowLock, customerLock, txn, losses, victims, half>>

\* The next CDR of the batch, whether the current one is done or has raised.
NextCdr(w) ==
    worker' = [worker EXCEPT ![w] = At("batch", worker[w].todo, Absent, NoQuote)]

\* Mutant: the debit is guarded by the cost instead of the sale price.
OwesDebitByCost(q) == q.buy > 0

\* if sessionbill > 0
OwesDebit(q) == q.sell > 0

\* UPDATE cdrs SET buycost, sessionbill ... WHERE id = :id
UpdateCdr(w) ==
    LET c == worker[w].cur
        q == worker[w].quote
    IN  /\ worker[w].pc = "update"
        /\ FreeFor(rowLock[c], w)
        /\ rowLock' = [rowLock EXCEPT ![c] = w]
        /\ txn' = [txn EXCEPT ![w].rows[c] = q]
        /\ IF OwesDebit(q)
             THEN worker' = [worker EXCEPT ![w] = At("debit", worker[w].todo, c, q)]
             ELSE NextCdr(w)
        /\ UNCHANGED <<cdrs, expired, balance, ledger, customerLock, losses, victims, half>>

\* Mutant: balance_after is read from the snapshot of the batch's first SELECT.
AfterBySnapshot(w, k, taken) == balance[k] - taken

\* SELECT balance after the UPDATE: a transaction sees its own writes.
After(w, k, taken) == balance[k] - (txn[w].debit[k] + taken)

\* UPDATE customers, SELECT balance, INSERT INTO balance_transactions.  The
\* INSERT raises when the call_id is longer than the reference column; the
\* UPDATEs before it stay in the transaction.
DebitCustomer(w) ==
    LET c    == worker[w].cur
        k    == Owner[c]
        bill == worker[w].quote.sell
        t    == txn[w]
    IN  /\ worker[w].pc = "debit"
        /\ FreeFor(customerLock[k], w)
        /\ customerLock' = [customerLock EXCEPT ![k] = w]
        /\ \E taken \in Nearest(bill) :
              LET debit == [t.debit EXCEPT ![k] = @ + taken]
                  entry == CdrEntry(c, bill, After(w, k, taken))
              IN  txn' = [txn EXCEPT ![w] =
                     IF c \in LongCallId
                       THEN Writes(t.rows, debit, t.entries, t.raised \cup {c})
                       ELSE Writes(t.rows, debit, [t.entries EXCEPT ![k] = Append(@, entry)],
                                   t.raised)]
        /\ NextCdr(w)
        /\ UNCHANGED <<cdrs, expired, balance, ledger, rowLock, losses, victims, half>>

Commit(w) ==
    /\ worker[w].pc = "batch"
    /\ worker[w].todo = {}
    /\ cdrs' = [c \in Cdr |-> IF txn[w].rows[c] = NoQuote THEN cdrs[c]
                              ELSE txn[w].rows[c]]
    /\ balance' = [k \in Customer |-> balance[k] - txn[w].debit[k]]
    /\ ledger' = [k \in Customer |-> ledger[k] \o txn[w].entries[k]]
    /\ half' = half \cup txn[w].raised
    /\ RollBack(w)
    /\ worker' = [worker EXCEPT ![w] = Asleep]
    /\ UNCHANGED <<expired, losses, victims>>

\* The lock the worker's current statement needs.
Holder(w) ==
    CASE worker[w].pc = "update" -> rowLock[worker[w].cur]
      [] worker[w].pc = "debit"  -> customerLock[Owner[worker[w].cur]]
      [] OTHER                   -> Nobody

Waiting(w) == ~FreeFor(Holder(w), w)

\* A lock wait expires: InnoDB undoes the statement, not the transaction, and
\* the loop goes on with the next CDR.
LockWaitTimeout(w) ==
    /\ LockWaitTimeouts
    /\ Waiting(w)
    /\ txn' = IF worker[w].pc = "debit"
                THEN [txn EXCEPT ![w].raised = @ \cup {worker[w].cur}]
                ELSE txn
    /\ NextCdr(w)
    /\ UNCHANGED <<cdrs, expired, balance, ledger, rowLock, customerLock, losses, victims, half>>

\* w is on a cycle of workers that wait for one another's rows.
Deadlocked(w) ==
    \E cycle \in SUBSET Worker :
        /\ w \in cycle
        /\ \A v \in cycle : Waiting(v)
        /\ cycle = {Holder(v) : v \in cycle}

\* InnoDB rolls the victim's whole transaction back, its locks included; the
\* handler around the CDR swallows the error and the loop goes on with the
\* rest of the batch in a new transaction.
Victim(w) ==
    /\ RollBack(w)
    /\ NextCdr(w)
    /\ victims' = victims \cup {w}
    /\ UNCHANGED <<cdrs, expired, balance, ledger, half>>

DeadlockVictim(w) ==
    /\ Deadlocked(w)
    /\ Victim(w)
    /\ UNCHANGED losses

\* A statement also locks rows that it only examines, the gaps between them and
\* the pages of the index it changes, which deadlocked these very workers
\* (schema.sql:673-681).  Those locks are not in the model: any statement may
\* find itself on a cycle that they close.
ScanDeadlockVictim(w) ==
    /\ worker[w].pc \in {"update", "debit"}
    /\ losses < MaxLosses
    /\ losses' = losses + 1
    /\ Victim(w)

\* The process dies, or the commit or the session fails.
Crash(w) ==
    /\ losses < MaxLosses
    /\ worker[w].pc # "sleep"
    /\ losses' = losses + 1
    /\ RollBack(w)
    /\ worker' = [worker EXCEPT ![w] = Asleep]
    /\ UNCHANGED <<cdrs, expired, balance, ledger, victims, half>>

----------------------------------------------------------------------------
(* Everyone else who writes these tables.                                  *)

\* dialog:end in Kamailio: an autocommitted INSERT with the prices at zero.
KamailioInsert(c) ==
    /\ cdrs[c] = Absent
    /\ cdrs' = [cdrs EXCEPT ![c] = Unrated]
    /\ UNCHANGED <<expired, balance, ledger, rowLock, customerLock, worker, txn, losses, victims, half>>

\* ingest_cdr: insert, price and debit in one transaction, which nobody else
\* can make wait for a lock it holds; an error undoes it all.
IngestCdr(c) ==
    /\ cdrs[c] = Absent
    /\ \E q \in Quote[c] \ {RateError} :
          LET k    == Owner[c]
              bill == IF c \in Billable THEN q.sell ELSE 0
          IN  /\ cdrs' = [cdrs EXCEPT ![c] = IF c \in Billable THEN q ELSE Unrated]
              /\ IF bill > 0
                   THEN /\ customerLock[k] = Nobody
                        /\ c \notin LongCallId
                        /\ \E taken \in Nearest(bill) :
                              LET after == balance[k] - taken
                              IN  /\ balance' = [balance EXCEPT ![k] = after]
                                  /\ ledger' = [ledger EXCEPT ![k] =
                                                   Append(@, CdrEntry(c, bill, after))]
                   ELSE UNCHANGED <<balance, ledger>>
    /\ UNCHANGED <<expired, rowLock, customerLock, worker, txn, losses, victims, half>>

Adjustments(k) == {i \in DOMAIN ledger[k] : ledger[k][i].type = "manual"}

\* apply_balance_change, called by the admin's and the reseller's adjustment.
ApplyBalanceChange(k) ==
    /\ customerLock[k] = Nobody
    /\ Cardinality(Adjustments(k)) < MaxAdjustments[k]
    /\ \E amount \in Adjustment : \E given \in Nearest(amount) :
          /\ balance' = [balance EXCEPT ![k] = @ + given]
          /\ ledger' = [ledger EXCEPT ![k] = Append(@, ManualEntry(amount, balance[k] + given))]
    /\ UNCHANGED <<cdrs, expired, rowLock, customerLock, worker, txn, losses, victims, half>>

\* Two days pass and the CDR is still pending.
Expire(c) ==
    /\ Eligible(c)
    /\ expired' = expired \cup {c}
    /\ UNCHANGED <<cdrs, balance, ledger, rowLock, customerLock, worker, txn, losses, victims, half>>

----------------------------------------------------------------------------
WorkerStep(w) ==
    Select(w) \/ CalcBill(w) \/ UpdateCdr(w) \/ DebitCustomer(w) \/ Commit(w)

Next ==
    \/ \E w \in Worker : 
          \/ WorkerStep(w) \/ LockWaitTimeout(w)
          \/ DeadlockVictim(w) \/ ScanDeadlockVictim(w) \/ Crash(w)
    \/ \E c \in Cdr : KamailioInsert(c) \/ IngestCdr(c) \/ Expire(c)
    \/ \E k \in Customer : ApplyBalanceChange(k)

Spec == Init /\ [][Next]_vars

\* The loops run for as long as their processes do, and the server always
\* resolves a deadlock.  A statement that waits for a row is in the row's queue,
\* ahead of whoever asks for it after.
FairSpec ==
    /\ Spec
    /\ \A w \in Worker : /\ WF_vars(WorkerStep(w) \/ DeadlockVictim(w))
                         /\ SF_vars(UpdateCdr(w) \/ DebitCustomer(w))

----------------------------------------------------------------------------
TxnWrites == [rows    : [Cdr -> Price \cup {NoQuote}],
              debit   : [Customer -> Nat],
              entries : [Customer -> Seq(Entry)],
              raised  : SUBSET Cdr]

Loop == [pc     : {"sleep", "batch", "update", "debit"},
         todo   : SUBSET Cdr,
         cur    : Cdr \cup {Absent},
         quote  : Price \cup {NoQuote}]

\* Every variable has the shape of the table or of the local state it stands
\* for, and a loop that is at a statement has a CDR and a price to use in it.
TypeOK ==
    /\ cdrs \in [Cdr -> Price \cup {Absent}]
    /\ expired \subseteq Cdr
    /\ balance \in [Customer -> Int]
    /\ ledger \in [Customer -> Seq(Entry)]
    /\ rowLock \in [Cdr -> Worker \cup {Nobody}]
    /\ customerLock \in [Customer -> Worker \cup {Nobody}]
    /\ worker \in [Worker -> Loop]
    /\ txn \in [Worker -> TxnWrites]
    /\ \A w \in Worker : worker[w].pc \in {"update", "debit"} =>
          worker[w].cur \in Cdr /\ worker[w].quote \in Price
    /\ losses \in 0 .. MaxLosses
    /\ victims \subseteq Worker
    /\ half \subseteq Cdr

\* The rows of the ledger lead from one balance to another.  The amount and
\* the balance are rounded apart from each other, so that a row for an amount
\* that is halfway may be one ten-thousandth away from the balances around it.
Chained(rows, first, last) ==
    LET before(i) == IF i = 1 THEN first ELSE rows[i - 1].after
    IN  /\ \A i \in 1 .. Len(rows) : rows[i].after - (before(i) + rows[i].amount) \in -1 .. 1
        /\ last = before(Len(rows) + 1)

\* A call_id too long for the ledger has left a debit of k without its row.
RowMissing(k) == \E c \in half \cap LongCallId : Owner[c] = k

\* balance_transactions explains customers.balance: each row's balance_after
\* is the one before it plus the row's amount, but for the rounding of a tie,
\* whichever mix of workers, ingests and adjustments wrote them and whatever
\* they lost to deadlocks and expired waits, and the last one is the balance
\* (main.py:117-129, cdrs.py:276-289, balance.py:54-66).
LedgerExplainsBalance ==
    \A k \in Customer : RowMissing(k) \/ Chained(ledger[k], 0, balance[k])

\* No call is charged twice: no two rows of the ledger are for the same CDR
\* (the promise of main.py:72-79).
NoDoubleDebit ==
    \A k \in Customer : \A i, j \in 1 .. Len(ledger[k]) :
        ledger[k][i].type = "cdr" /\ ledger[k][j].type = "cdr"
            /\ ledger[k][i].ref = ledger[k][j].ref => i = j

\* The same, as long as no worker has lost its locks to a deadlock and gone on
\* with its batch: SKIP LOCKED and the locks held to the commit are what keeps
\* the batches of several processes disjoint (main.py:80-91).
NoDoubleDebitWithoutVictims == victims = {} => NoDoubleDebit

\* A CDR that shows a sale price has been debited, at that price rounded to the
\* ledger's four decimals: the batch, or the ingest, commits the price and the
\* debit together.  The only exceptions are the CDRs whose own debit raised in
\* the transaction that priced them, which the handler of main.py:131 commits.
PricedIsDebited ==
    \A c \in Cdr \ half : cdrs[c] # Absent /\ cdrs[c].sell > 0 =>
        \E i \in 1 .. Len(ledger[Owner[c]]) :
            /\ ledger[Owner[c]][i].type = "cdr"
            /\ ledger[Owner[c]][i].ref = c
            /\ ledger[Owner[c]][i].amount = Stored(-cdrs[c].sell)

\* The worker never changes the prices of a CDR that already has some, however
\* the rates are edited after it: its SELECT takes only pending rows.
PricesAreFinal ==
    [][\A c \in Cdr : victims = {} /\ cdrs[c] \in Price \ {Unrated}
                          => cdrs'[c] = cdrs[c]]_vars

\* The prices and the balances change as if each CDR were priced and charged
\* in one step, although a batch takes many statements, waits for locks, and may
\* be undone by a crash; until a deadlock's victim goes on without its locks.
Atomic == INSTANCE AtomicBilling
AtomicSpec == Atomic!Init /\ [][victims # {} \/ Atomic!Next]_Atomic!vars

\* calc_bill always finds a price for the CDR.
Rateable(c) == Quote[c] # {} /\ Quote[c] \cap {Unrated, RateError} = {}

\* A pending CDR that can be rated is rated, or leaves the two-day window, as
\* long as the CDRs that cannot be rated do not fill the batch.
RateableIsRated ==
    Cardinality({c \in Answered : ~Rateable(c)}) < BatchLimit =>
        \A c \in Answered : Rateable(c) =>
            (Pending(c) ~> ~Pending(c) \/ c \in expired)
=============================================================================
