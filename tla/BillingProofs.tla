--------------------------- MODULE BillingProofs ---------------------------
(***************************************************************************)
(* Theorems about Billing, for every set of workers, CDRs and customers:   *)
(* what the ledger and the prices say, and that the statements of a batch  *)
(* add up to the charges of AtomicBilling.                                 *)
(***************************************************************************)
EXTENDS Billing, Sums

USE DEF Price, At, Writes

\* A CDR that is not expired and whose prices are zero is in the table.
LEMMA UnratedIsPrice == Unrated \in Price
  BY DEF Unrated

\* The rows, locks and writes of a finished transaction have their types.
LEMMA RollBackType ==
  ASSUME TypeOK, NEW w \in Worker, RollBack(w)
  PROVE  /\ rowLock' \in [Cdr -> Worker \cup {Nobody}]
         /\ customerLock' \in [Customer -> Worker \cup {Nobody}]
         /\ txn' \in [Worker -> TxnWrites]
  <1>1. NoWrites \in TxnWrites
    BY DEF NoWrites, TxnWrites
  <1> QED
    BY <1>1 DEF TypeOK, RollBack, Unlocked

\* Moving on to the next CDR of the batch keeps the loop well typed.
LEMMA NextCdrType ==
  ASSUME TypeOK, NEW w \in Worker, NextCdr(w),
         worker[w].pc \in {"update", "debit"}
  PROVE  /\ worker' \in [Worker -> Loop]
         /\ \A v \in Worker : worker'[v].pc \in {"update", "debit"} =>
               worker'[v].cur \in Cdr /\ worker'[v].quote \in Price
  BY DEF TypeOK, NextCdr, Loop

\* The value of a column is a whole number, and so is what changes a balance.
LEMMA MoneyInt ==
  /\ \A x \in Int : Stored(x) \in Int /\ Nearest(x) \subseteq Int
  /\ \A x \in Nat : Stored(-x) \in Int /\ Nearest(x) \subseteq Nat
  <1>1. \A x \in Nat : -x \in Int
    OBVIOUS
  <1> QED
    BY <1>1, StoredClose, NearestClose, NearestNat

\* A row of the ledger that debits a CDR, or records an adjustment, is an Entry.
LEMMA EntryType ==
  ASSUME NEW after \in Int
  PROVE  /\ \A c \in Cdr, bill \in Nat : CdrEntry(c, bill, after) \in Entry
         /\ \A amount \in Int : ManualEntry(amount, after) \in Entry
  BY MoneyInt DEF CdrEntry, ManualEntry, Entry

\* A price or a raised debit added to a transaction's writes.
LEMMA WritesType ==
  ASSUME NEW t \in TxnWrites, NEW c \in Cdr
  PROVE  /\ \A q \in Price : [t EXCEPT !.rows[c] = q] \in TxnWrites
         /\ [t EXCEPT !.raised = @ \cup {c}] \in TxnWrites
  <1>1. /\ t.rows \in [Cdr -> Price \cup {NoQuote}] /\ t.raised \subseteq Cdr
        /\ t.debit \in [Customer -> Nat] /\ t.entries \in [Customer -> Seq(Entry)]
    BY DEF TxnWrites
  <1>a. DOMAIN t = {"rows", "debit", "entries", "raised"}
    BY DEF TxnWrites
  <1>2. [t EXCEPT !.raised = @ \cup {c}] = Writes(t.rows, t.debit, t.entries, t.raised \cup {c})
    BY <1>a, Z3
  <1>3. Writes(t.rows, t.debit, t.entries, t.raised \cup {c}) \in TxnWrites
    BY <1>1 DEF TxnWrites
  <1>4. ASSUME NEW q \in Price PROVE [t EXCEPT !.rows[c] = q] \in TxnWrites
    <2> DEFINE rows == [t.rows EXCEPT ![c] = q]
    <2>1. rows \in [Cdr -> Price \cup {NoQuote}]
      BY <1>1
    <2>2. [t EXCEPT !.rows[c] = q] = Writes(rows, t.debit, t.entries, t.raised)
      BY <1>a, Z3
    <2> HIDE DEF rows
    <2>3. Writes(rows, t.debit, t.entries, t.raised) \in TxnWrites
      BY <1>1, <2>1 DEF TxnWrites
    <2> QED
      BY <2>2, <2>3
  <1> QED
    BY <1>2, <1>3, <1>4

\* What the debit of c, for bill, by taken, makes of a transaction's writes.
Debited(t, u, c, bill, taken) ==
    LET k == Owner[c]
        e == CdrEntry(c, bill, balance[k] - (t.debit[k] + taken))
    IN  /\ u.rows = t.rows
        /\ u.debit = [t.debit EXCEPT ![k] = @ + taken]
        /\ u.entries = IF c \in LongCallId THEN t.entries
                       ELSE [t.entries EXCEPT ![k] = Append(@, e)]
        /\ u.raised = IF c \in LongCallId THEN t.raised \cup {c} ELSE t.raised

\* The debit in full: what it takes, what it writes, and that all has its type.
LEMMA DebitEffect ==
  ASSUME TypeOK, NEW w \in Worker, DebitCustomer(w)
  PROVE  LET c    == worker[w].cur
             k    == Owner[c]
             bill == worker[w].quote.sell
         IN  /\ c \in Cdr /\ k \in Customer /\ bill \in Nat
             /\ \E taken \in Nearest(bill) :
                   /\ taken \in Nat
                   /\ CdrEntry(c, bill, balance[k] - (txn[w].debit[k] + taken)) \in Entry
                   /\ Debited(txn[w], txn'[w], c, bill, taken)
             /\ txn' \in [Worker -> TxnWrites]
             /\ \A v \in Worker \ {w} : txn'[v] = txn[v]
  <1> DEFINE c    == worker[w].cur
             k    == Owner[c]
             bill == worker[w].quote.sell
             t    == txn[w]
  <1>1. c \in Cdr /\ worker[w].quote \in Price
    BY DEF DebitCustomer, TypeOK
  <1>2. k \in Customer /\ bill \in Nat
    BY <1>1, CdrAssumption
  <1>3. PICK taken \in Nearest(bill) :
          txn' = [txn EXCEPT ![w] =
             IF c \in LongCallId
               THEN Writes(t.rows, [t.debit EXCEPT ![k] = @ + taken], t.entries, t.raised \cup {c})
               ELSE Writes(t.rows, [t.debit EXCEPT ![k] = @ + taken],
                           [t.entries EXCEPT ![k] = Append(@, CdrEntry(c, bill, After(w, k, taken)))],
                           t.raised)]
    BY DEF DebitCustomer
  <1>4. taken \in Nat
    BY <1>2, <1>3, MoneyInt
  <1>5. t \in TxnWrites /\ balance[k] \in Int
    BY <1>2 DEF TypeOK
  <1>6. t.debit \in [Customer -> Nat] /\ t.entries \in [Customer -> Seq(Entry)]
        /\ t.rows \in [Cdr -> Price \cup {NoQuote}] /\ t.raised \subseteq Cdr
    BY <1>5 DEF TxnWrites
  <1> DEFINE e == CdrEntry(c, bill, balance[k] - (t.debit[k] + taken))
  <1>7. e \in Entry
    <2>1. t.debit[k] \in Nat
      BY <1>2, <1>6
    <2>2. balance[k] - (t.debit[k] + taken) \in Int
      BY <1>4, <1>5, <2>1
    <2> QED
      BY <1>1, <1>2, <2>2, EntryType
  <1> DEFINE debit   == [t.debit EXCEPT ![k] = @ + taken]
             entries == IF c \in LongCallId THEN t.entries
                        ELSE [t.entries EXCEPT ![k] = Append(@, e)]
             raised  == IF c \in LongCallId THEN t.raised \cup {c} ELSE t.raised
  <1>8. txn' = [txn EXCEPT ![w] = Writes(t.rows, debit, entries, raised)]
    BY <1>3 DEF After
  <1>9. debit \in [Customer -> Nat]
    <2> DEFINE d == t.debit
    <2>1. d \in [Customer -> Nat]
      BY <1>6
    <2>2. debit = [d EXCEPT ![k] = @ + taken]
      OBVIOUS
    <2> HIDE DEF k, d, debit
    <2>3. d[k] + taken \in Nat
      BY <1>2, <1>4, <2>1
    <2> QED
      BY ONLY <1>2, <2>1, <2>2, <2>3
  <1>10. entries \in [Customer -> Seq(Entry)]
    <2> DEFINE old == t.entries
    <2>1. old \in [Customer -> Seq(Entry)]
      BY <1>6
    <2>2. entries = IF c \in LongCallId THEN old ELSE [old EXCEPT ![k] = Append(@, e)]
      OBVIOUS
    <2> HIDE DEF e, k, old, entries
    <2>3. Append(old[k], e) \in Seq(Entry)
      BY <1>2, <1>7, <2>1
    <2> QED
      BY <1>2, <2>1, <2>2, <2>3
  <1>11. raised \subseteq Cdr
    BY <1>1, <1>6
  <1> HIDE DEF debit, entries, raised
  <1>12. Writes(t.rows, debit, entries, raised) \in TxnWrites
    BY <1>6, <1>9, <1>10, <1>11 DEF TxnWrites
  <1>13. txn' \in [Worker -> TxnWrites] /\ \A v \in Worker \ {w} : txn'[v] = txn[v]
    BY <1>8, <1>12 DEF TypeOK
  <1>14. txn'[w] = Writes(t.rows, debit, entries, raised)
    BY <1>8 DEF TypeOK
  <1>15. /\ txn'[w].rows = t.rows /\ txn'[w].debit = debit
         /\ txn'[w].entries = entries /\ txn'[w].raised = raised
    BY ONLY <1>14 DEF Writes
  <1>16. Debited(t, txn'[w], c, bill, taken)
    BY ONLY <1>15 DEF Debited, debit, entries, raised
  <1> QED
    BY <1>1, <1>2, <1>3, <1>4, <1>7, <1>13, <1>16

\* The ingest in full.
LEMMA IngestEffect ==
  ASSUME TypeOK, NEW c \in Cdr, IngestCdr(c)
  PROVE  \E q \in Quote[c] \ {RateError} :
           LET k     == Owner[c]
               price == IF c \in Billable THEN q ELSE Unrated
               bill  == price.sell
           IN  /\ q \in Price /\ price \in Price /\ k \in Customer /\ bill \in Nat
               /\ cdrs' = [cdrs EXCEPT ![c] = price]
               /\ bill = 0 => UNCHANGED <<balance, ledger>>
               /\ bill > 0 => /\ customerLock[k] = Nobody
                              /\ c \notin LongCallId
                              /\ \E taken \in Nearest(bill), e \in Entry :
                                    /\ taken \in Nat
                                    /\ e = CdrEntry(c, bill, balance[k] - taken)
                                    /\ balance' = [balance EXCEPT ![k] = balance[k] - taken]
                                    /\ ledger' = [ledger EXCEPT ![k] = Append(@, e)]
  <1>1. PICK q \in Quote[c] \ {RateError} :
          LET k    == Owner[c]
              bill == IF c \in Billable THEN q.sell ELSE 0
          IN  /\ cdrs' = [cdrs EXCEPT ![c] = IF c \in Billable THEN q ELSE Unrated]
              /\ IF bill > 0
                   THEN /\ customerLock[k] = Nobody
                        /\ c \notin LongCallId
                        /\ \E taken \in Nearest(bill) :
                              LET after == balance[k] - taken
                              IN  /\ balance' = [balance EXCEPT ![k] = after]
                                  /\ ledger' = [ledger EXCEPT ![k] =
                                                   Append(@, CdrEntry(c, bill, after))]
                   ELSE UNCHANGED <<balance, ledger>>
    BY DEF IngestCdr
  <1> DEFINE k     == Owner[c]
             price == IF c \in Billable THEN q ELSE Unrated
             bill  == price.sell
  <1>2. q \in Price /\ price \in Price /\ k \in Customer
    BY QuoteAssumption, CdrAssumption, UnratedIsPrice
  <1>3. bill \in Nat
    BY <1>2
  <1>4. bill = IF c \in Billable THEN q.sell ELSE 0
    BY DEF Unrated
  <1>5. cdrs' = [cdrs EXCEPT ![c] = price]
    BY <1>1
  <1>6. bill = 0 => UNCHANGED <<balance, ledger>>
    BY <1>1, <1>4
  <1>7. ASSUME bill > 0
        PROVE  /\ customerLock[k] = Nobody
               /\ c \notin LongCallId
               /\ \E taken \in Nearest(bill), e \in Entry :
                     /\ taken \in Nat
                     /\ e = CdrEntry(c, bill, balance[k] - taken)
                     /\ balance' = [balance EXCEPT ![k] = balance[k] - taken]
                     /\ ledger' = [ledger EXCEPT ![k] = Append(@, e)]
    <2>1. /\ customerLock[k] = Nobody
          /\ c \notin LongCallId
          /\ \E taken \in Nearest(bill) :
                /\ balance' = [balance EXCEPT ![k] = balance[k] - taken]
                /\ ledger' = [ledger EXCEPT ![k] =
                                 Append(@, CdrEntry(c, bill, balance[k] - taken))]
      BY <1>1, <1>4, <1>7
    <2> HIDE DEF bill, k
    <2>2. PICK taken \in Nearest(bill) :
                /\ balance' = [balance EXCEPT ![k] = balance[k] - taken]
                /\ ledger' = [ledger EXCEPT ![k] =
                                 Append(@, CdrEntry(c, bill, balance[k] - taken))]
      BY <2>1
    <2>3. taken \in Nat
      BY <1>3, <2>2, MoneyInt
    <2>4. balance[k] - taken \in Int
      BY <1>2, <2>3 DEF TypeOK
    <2>5. CdrEntry(c, bill, balance[k] - taken) \in Entry
      BY <1>3, <2>4, EntryType
    <2> QED
      BY <2>1, <2>2, <2>3, <2>5
  <1> QED
    BY <1>1, <1>2, <1>3, <1>5, <1>6, <1>7

\* The manual adjustment in full.
LEMMA ApplyEffect ==
  ASSUME TypeOK, NEW k \in Customer, ApplyBalanceChange(k)
  PROVE  \E amount \in Adjustment : \E given \in Nearest(amount), e \in Entry :
            /\ amount \in Int /\ given \in Int
            /\ e = ManualEntry(amount, balance[k] + given)
            /\ balance' = [balance EXCEPT ![k] = balance[k] + given]
            /\ ledger' = [ledger EXCEPT ![k] = Append(@, e)]
  <1>1. PICK amount \in Adjustment : \E given \in Nearest(amount) :
          /\ balance' = [balance EXCEPT ![k] = @ + given]
          /\ ledger' = [ledger EXCEPT ![k] = Append(@, ManualEntry(amount, balance[k] + given))]
    BY DEF ApplyBalanceChange
  <1>2. PICK given \in Nearest(amount) :
          /\ balance' = [balance EXCEPT ![k] = @ + given]
          /\ ledger' = [ledger EXCEPT ![k] = Append(@, ManualEntry(amount, balance[k] + given))]
    BY <1>1
  <1>3. amount \in Int /\ given \in Int
    BY BoundAssumption, MoneyInt
  <1>4. balance[k] + given \in Int
    BY <1>3 DEF TypeOK
  <1>5. ManualEntry(amount, balance[k] + given) \in Entry
    BY <1>3, <1>4, EntryType
  <1> QED
    BY <1>2, <1>3, <1>5

\* The tables, the locks and the billing loops always have their types, and a
\* loop that is at a statement has a CDR and a price for it.
THEOREM TypeCorrect == Spec => []TypeOK
<1>1. Init => TypeOK
  BY BoundAssumption DEF Init, TypeOK, Asleep, Loop, NoWrites, TxnWrites
<1>2. TypeOK /\ [Next]_vars => TypeOK'
  <2> SUFFICES ASSUME TypeOK, [Next]_vars PROVE TypeOK'
    OBVIOUS
  <2> USE CdrAssumption, QuoteAssumption, BoundAssumption
  <2>1. ASSUME NEW w \in Worker, Select(w) PROVE TypeOK'
    BY <2>1 DEF Select, TypeOK, Asleep, Loop
  <2>2. ASSUME NEW w \in Worker, CalcBill(w) PROVE TypeOK'
    <3>1. PICK c \in worker[w].todo : \E q \in Quote[c] :
            worker' = [worker EXCEPT ![w] = Rated(w, c, q)]
      BY <2>2 DEF CalcBill
    <3> PICK q \in Quote[c] : worker' = [worker EXCEPT ![w] = Rated(w, c, q)]
      BY <3>1
    <3>2. c \in Cdr /\ q \in Price \cup {RateError}
      BY DEF TypeOK, Loop
    <3>3. worker' \in [Worker -> Loop]
      BY <3>2 DEF TypeOK, Loop, Rated
    <3>4. \A v \in Worker : worker'[v].pc \in {"update", "debit"} =>
            worker'[v].cur \in Cdr /\ worker'[v].quote \in Price
      BY <3>2 DEF TypeOK, Loop, Rated
    <3> QED
      BY <2>2, <3>3, <3>4 DEF CalcBill, TypeOK
  <2>3. ASSUME NEW w \in Worker, UpdateCdr(w) PROVE TypeOK'
    <3>1. worker[w].cur \in Cdr /\ worker[w].quote \in Price
      BY <2>3 DEF UpdateCdr, TypeOK
    <3>2. txn' \in [Worker -> TxnWrites]
      <4>1. txn' = [txn EXCEPT ![w] = [txn[w] EXCEPT !.rows[worker[w].cur] = worker[w].quote]]
        BY <2>3 DEF UpdateCdr, TypeOK
      <4>2. [txn[w] EXCEPT !.rows[worker[w].cur] = worker[w].quote] \in TxnWrites
        BY <3>1, WritesType DEF TypeOK
      <4> QED
        BY <4>1, <4>2 DEF TypeOK
    <3>3. rowLock' \in [Cdr -> Worker \cup {Nobody}]
      BY <2>3, <3>1 DEF UpdateCdr, TypeOK
    <3>4. CASE worker[w].quote.sell > 0
      <4>1. worker' = [worker EXCEPT ![w] = At("debit", worker[w].todo, worker[w].cur,
                                               worker[w].quote)]
        BY <2>3, <3>4 DEF UpdateCdr, OwesDebit
      <4>2. worker' \in [Worker -> Loop]
            /\ \A v \in Worker : worker'[v].pc \in {"update", "debit"} =>
                 worker'[v].cur \in Cdr /\ worker'[v].quote \in Price
        BY <3>1, <4>1 DEF TypeOK, Loop
      <4> QED
        BY <2>3, <3>2, <3>3, <4>2 DEF UpdateCdr, TypeOK
    <3>5. CASE ~(worker[w].quote.sell > 0)
      BY <2>3, <3>2, <3>3, <3>5, NextCdrType DEF UpdateCdr, OwesDebit, TypeOK
    <3> QED
      BY <3>4, <3>5
  <2>4. ASSUME NEW w \in Worker, DebitCustomer(w) PROVE TypeOK'
    <3>1. txn' \in [Worker -> TxnWrites] /\ Owner[worker[w].cur] \in Customer
      BY <2>4, DebitEffect
    <3>2. customerLock' \in [Customer -> Worker \cup {Nobody}]
      BY <2>4, <3>1 DEF DebitCustomer, TypeOK
    <3>3. worker' \in [Worker -> Loop]
          /\ \A v \in Worker : worker'[v].pc \in {"update", "debit"} =>
               worker'[v].cur \in Cdr /\ worker'[v].quote \in Price
      BY <2>4, NextCdrType DEF DebitCustomer
    <3> QED
      BY <2>4, <3>1, <3>2, <3>3 DEF DebitCustomer, TypeOK
  <2>5. ASSUME NEW w \in Worker, Commit(w) PROVE TypeOK'
    <3>1. worker' \in [Worker -> Loop]
          /\ \A v \in Worker : worker'[v].pc \in {"update", "debit"} =>
               worker'[v].cur \in Cdr /\ worker'[v].quote \in Price
      BY <2>5 DEF Commit, TypeOK, Asleep, Loop
    <3>2. cdrs' \in [Cdr -> Price \cup {Absent}] /\ balance' \in [Customer -> Int]
      BY <2>5 DEF Commit, TypeOK, TxnWrites
    <3>3. ledger' \in [Customer -> Seq(Entry)]
      BY <2>5 DEF Commit, TypeOK, TxnWrites
    <3>4. half' \subseteq Cdr
      BY <2>5 DEF Commit, TypeOK, TxnWrites
    <3> QED
      BY <2>5, <3>1, <3>2, <3>3, <3>4, RollBackType DEF Commit, TypeOK
  <2>6. ASSUME NEW w \in Worker, LockWaitTimeout(w) PROVE TypeOK'
    <3>1. worker[w].pc \in {"update", "debit"} /\ worker[w].cur \in Cdr
      BY <2>6 DEF LockWaitTimeout, Waiting, Holder, FreeFor, TypeOK
    <3>2. txn' \in [Worker -> TxnWrites]
      <4>1. [txn[w] EXCEPT !.raised = @ \cup {worker[w].cur}] \in TxnWrites
        BY <3>1, WritesType DEF TypeOK
      <4> QED
        BY <2>6, <4>1 DEF LockWaitTimeout, TypeOK
    <3> QED
      BY <2>6, <3>1, <3>2, NextCdrType DEF LockWaitTimeout, TypeOK
  <2>7. ASSUME NEW w \in Worker, DeadlockVictim(w) \/ ScanDeadlockVictim(w) PROVE TypeOK'
    <3>1. worker[w].pc \in {"update", "debit"}
      BY <2>7 DEF DeadlockVictim, ScanDeadlockVictim, Deadlocked, Waiting, Holder, FreeFor
    <3>2. losses' \in 0 .. MaxLosses
      BY <2>7 DEF DeadlockVictim, ScanDeadlockVictim, TypeOK
    <3> QED
      BY <2>7, <3>1, <3>2, NextCdrType, RollBackType
         DEF DeadlockVictim, ScanDeadlockVictim, Victim, TypeOK
  <2>8. ASSUME NEW w \in Worker, Crash(w) PROVE TypeOK'
    <3>1. worker' \in [Worker -> Loop]
          /\ \A v \in Worker : worker'[v].pc \in {"update", "debit"} =>
               worker'[v].cur \in Cdr /\ worker'[v].quote \in Price
      BY <2>8 DEF Crash, TypeOK, Asleep, Loop
    <3> QED
      BY <2>8, <3>1, RollBackType DEF Crash, TypeOK
  <2>9. ASSUME NEW c \in Cdr, KamailioInsert(c) \/ Expire(c) PROVE TypeOK'
    <3>1. CASE KamailioInsert(c)
      <4>1. cdrs' \in [Cdr -> Price \cup {Absent}]
        BY <3>1, UnratedIsPrice DEF KamailioInsert, TypeOK
      <4> QED
        BY <3>1, <4>1 DEF KamailioInsert, TypeOK
    <3>2. CASE Expire(c)
      BY <3>2 DEF Expire, TypeOK
    <3> QED
      BY <2>9, <3>1, <3>2
  <2>10. ASSUME NEW c \in Cdr, IngestCdr(c) PROVE TypeOK'
    <3>1. PICK q \in Quote[c] \ {RateError} :
            LET k     == Owner[c]
                price == IF c \in Billable THEN q ELSE Unrated
                bill  == price.sell
            IN  /\ q \in Price /\ price \in Price /\ k \in Customer /\ bill \in Nat
                /\ cdrs' = [cdrs EXCEPT ![c] = price]
                /\ bill = 0 => UNCHANGED <<balance, ledger>>
                /\ bill > 0 => /\ customerLock[k] = Nobody
                               /\ c \notin LongCallId
                               /\ \E taken \in Nearest(bill), e \in Entry :
                                     /\ taken \in Nat
                                     /\ e = CdrEntry(c, bill, balance[k] - taken)
                                     /\ balance' = [balance EXCEPT ![k] = balance[k] - taken]
                                     /\ ledger' = [ledger EXCEPT ![k] = Append(@, e)]
      BY <2>10, IngestEffect
    <3> DEFINE k     == Owner[c]
               price == IF c \in Billable THEN q ELSE Unrated
               bill  == price.sell
    <3>2. cdrs' \in [Cdr -> Price \cup {Absent}]
      BY <3>1 DEF TypeOK
    <3>3. balance' \in [Customer -> Int] /\ ledger' \in [Customer -> Seq(Entry)]
      <4>1. CASE bill > 0
        <5>1. k \in Customer /\ \E taken \in Nat, e \in Entry :
                 /\ balance' = [balance EXCEPT ![k] = balance[k] - taken]
                 /\ ledger' = [ledger EXCEPT ![k] = Append(@, e)]
          BY <3>1, <4>1
        <5> HIDE DEF k
        <5>2. PICK taken \in Nat, e \in Entry :
                 /\ balance' = [balance EXCEPT ![k] = balance[k] - taken]
                 /\ ledger' = [ledger EXCEPT ![k] = Append(@, e)]
          BY <5>1
        <5>3. balance[k] - taken \in Int
          BY <5>1 DEF TypeOK
        <5> QED
          BY <5>1, <5>2, <5>3 DEF TypeOK
      <4>2. CASE bill = 0
        BY <3>1, <4>2 DEF TypeOK
      <4>3. bill = 0 \/ bill > 0
        BY <3>1
      <4> QED
        BY <4>1, <4>2, <4>3
    <3> QED
      BY <2>10, <3>2, <3>3 DEF IngestCdr, TypeOK
  <2>11. ASSUME NEW k \in Customer, ApplyBalanceChange(k) PROVE TypeOK'
    <3>1. PICK given \in Int, e \in Entry :
            /\ balance' = [balance EXCEPT ![k] = balance[k] + given]
            /\ ledger' = [ledger EXCEPT ![k] = Append(@, e)]
      BY <2>11, ApplyEffect
    <3>2. balance[k] + given \in Int
      BY DEF TypeOK
    <3> QED
      BY <2>11, <3>1, <3>2 DEF ApplyBalanceChange, TypeOK
  <2>12. CASE UNCHANGED vars
    BY <2>12 DEF vars, TypeOK
  <2> QED
    BY <2>1, <2>2, <2>3, <2>4, <2>5, <2>6, <2>7, <2>8, <2>9, <2>10, <2>11, <2>12
       DEF Next, WorkerStep
<1> QED
  BY <1>1, <1>2, PTL DEF Spec

----------------------------------------------------------------------------
(* The ledger explains the balance, whatever the workers, the ingests and   *)
(* the adjustments do, to the rounding of each row.                          *)

\* No rows lead from a balance to itself.
LEMMA ChainedEmpty ==
  ASSUME NEW first, NEW last
  PROVE  Chained(<<>>, first, last) <=> first = last
  BY DEF Chained

\* A row that starts from the last balance extends the chain.
LEMMA ChainedAppend ==
  ASSUME NEW rows \in Seq(Entry), NEW e \in Entry, NEW first, NEW last,
         Chained(rows, first, last), e.after - (last + e.amount) \in -1 .. 1
  PROVE  Chained(Append(rows, e), first, e.after)
  <1> DEFINE new == Append(rows, e)
             before(s, i) == IF i = 1 THEN first ELSE s[i - 1].after
  <1>1. /\ Len(rows) \in Nat
        /\ Len(new) = Len(rows) + 1
        /\ \A i \in 1 .. Len(rows) : new[i] = rows[i]
        /\ new[Len(rows) + 1] = e
    OBVIOUS
  <1>2. \A i \in 1 .. Len(rows) : rows[i].after - (before(rows, i) + rows[i].amount) \in -1 .. 1
    BY DEF Chained
  <1>3. last = before(rows, Len(rows) + 1)
    BY DEF Chained
  <1>4. \A i \in 1 .. Len(rows) + 1 : before(new, i) = before(rows, i)
    BY <1>1
  <1>5. \A i \in 1 .. Len(new) : new[i].after - (before(new, i) + new[i].amount) \in -1 .. 1
    BY <1>1, <1>2, <1>3, <1>4
  <1>6. e.after = before(new, Len(new) + 1)
    BY <1>1
  <1> QED
    BY <1>5, <1>6 DEF Chained

\* Rows that start where others end continue them.
LEMMA ChainedConcat ==
  ASSUME NEW r \in Seq(Entry), NEW s \in Seq(Entry), NEW first, NEW mid, NEW last,
         Chained(r, first, mid), Chained(s, mid, last)
  PROVE  Chained(r \o s, first, last)
  <1> DEFINE n == Len(r)
             both == r \o s
             before(f, q, i) == IF i = 1 THEN f ELSE q[i - 1].after
  <1>1. /\ n \in Nat /\ Len(s) \in Nat
        /\ Len(both) = n + Len(s)
        /\ \A i \in 1 .. n : both[i] = r[i]
        /\ \A i \in 1 .. Len(s) : both[n + i] = s[i]
    OBVIOUS
  <1>2. \A i \in 1 .. n : r[i].after - (before(first, r, i) + r[i].amount) \in -1 .. 1
    BY DEF Chained
  <1>3. mid = before(first, r, n + 1)
    BY DEF Chained
  <1>4. \A i \in 1 .. Len(s) : s[i].after - (before(mid, s, i) + s[i].amount) \in -1 .. 1
    BY DEF Chained
  <1>5. last = before(mid, s, Len(s) + 1)
    BY DEF Chained
  <1>6. \A i \in 1 .. n + 1 : before(first, both, i) = before(first, r, i)
    BY <1>1
  <1>7. \A i \in 1 .. Len(s) + 1 : before(first, both, n + i) = before(mid, s, i)
    <2> TAKE i \in 1 .. Len(s) + 1
    <2>1. CASE i = 1
      BY <2>1, <1>1, <1>3, <1>6
    <2>2. CASE i # 1
      <3>1. i - 1 \in 1 .. Len(s) /\ n + i # 1 /\ (n + i) - 1 = n + (i - 1)
        BY <2>2, <1>1
      <3>2. both[(n + i) - 1] = s[i - 1]
        BY <3>1, <1>1
      <3> QED
        BY <2>2, <3>1, <3>2
    <2> QED
      BY <2>1, <2>2
  <1>8. \A i \in 1 .. Len(both) : both[i].after - (before(first, both, i) + both[i].amount) \in -1 .. 1
    <2> TAKE i \in 1 .. Len(both)
    <2>1. CASE i \in 1 .. n
      <3>1. both[i] = r[i] /\ before(first, both, i) = before(first, r, i)
        BY <2>1, <1>1, <1>6
      <3> QED
        BY <2>1, <3>1, <1>2
    <2>2. CASE i \notin 1 .. n
      <3> DEFINE j == i - n
      <3>1. j \in 1 .. Len(s) /\ i = n + j
        BY <2>2, <1>1
      <3>2. both[i] = s[j] /\ before(first, both, i) = before(mid, s, j)
        BY <3>1, <1>1, <1>7
      <3> QED
        BY <3>1, <3>2, <1>4
    <2> QED
      BY <2>1, <2>2
  <1>9. last = before(first, both, Len(both) + 1)
    BY <1>1, <1>5, <1>7
  <1> QED
    BY <1>8, <1>9 DEF Chained

----------------------------------------------------------------------------
\* A transaction has debited only the customers whose rows it has locked.
DebitsAreLocked ==
    \A w \in Worker, k \in Customer : customerLock[k] # w =>
        txn[w].entries[k] = <<>> /\ txn[w].debit[k] = 0

\* The transaction of w has debited k for a call_id too long for the ledger.
RowRaised(w, k) == \E c \in txn[w].raised \cap LongCallId : Owner[c] = k

\* The rows a transaction is about to add lead from the committed balance to
\* the one it is about to commit.
DraftsContinueLedger ==
    \A w \in Worker, k \in Customer :
        RowRaised(w, k) \/ Chained(txn[w].entries[k], balance[k], balance[k] - txn[w].debit[k])

\* The inductive invariant: a draft stays valid because nobody else can move
\* the balance of a locked customer, so that a commit extends the chain.
LedgerInv == LedgerExplainsBalance /\ DebitsAreLocked /\ DraftsContinueLedger

\* The types of one customer's part of the tables and of a transaction.
LEMMA CustomerTypes ==
  ASSUME TypeOK, NEW w \in Worker, NEW k \in Customer
  PROVE  /\ balance[k] \in Int
         /\ ledger[k] \in Seq(Entry)
         /\ txn[w].debit[k] \in Nat
         /\ txn[w].entries[k] \in Seq(Entry)
  BY DEF TypeOK, TxnWrites

\* A rolled back or committed transaction has nothing left to write, and the
\* drafts of the others are about customers whose balance it could not move.
LEMMA RollBackDrafts ==
  ASSUME TypeOK, DebitsAreLocked, DraftsContinueLedger,
         NEW w \in Worker, RollBack(w), balance' \in [Customer -> Int],
         \A k \in Customer : customerLock[k] # w => balance'[k] = balance[k]
  PROVE  DebitsAreLocked' /\ DraftsContinueLedger'
  <1>1. \A k \in Customer : txn'[w].entries[k] = <<>> /\ txn'[w].debit[k] = 0
    BY DEF RollBack, NoWrites, Writes, TypeOK
  <1>2. \A v \in Worker \ {w} : txn'[v] = txn[v]
    BY DEF RollBack, TypeOK
  <1>3. \A v \in Worker \ {w}, k \in Customer : customerLock'[k] # v => customerLock[k] # v
    BY DEF RollBack, Unlocked, TypeOK
  <1>4. DebitsAreLocked'
    BY <1>1, <1>2, <1>3 DEF DebitsAreLocked
  <1>5. ASSUME NEW v \in Worker, NEW k \in Customer
        PROVE  RowRaised(v, k)' \/ Chained(txn'[v].entries[k], balance'[k], balance'[k] - txn'[v].debit[k])
    <2>1. CASE v = w
      <3>1. balance'[k] = balance'[k] - txn'[v].debit[k]
        BY <1>1, <2>1
      <3> QED
        BY <2>1, <3>1, <1>1, ChainedEmpty
    <2>2. CASE v # w /\ customerLock[k] = v
      <3>1. balance'[k] = balance[k] /\ txn'[v] = txn[v]
        BY <2>2, <1>2
      <3> QED
        BY <3>1 DEF DraftsContinueLedger, RowRaised
    <2>3. CASE v # w /\ customerLock[k] # v
      <3>1. txn'[v].entries[k] = <<>> /\ txn'[v].debit[k] = 0
        BY <2>3, <1>2 DEF DebitsAreLocked
      <3>2. balance'[k] = balance'[k] - txn'[v].debit[k]
        BY <3>1
      <3> QED
        BY <3>1, <3>2, ChainedEmpty
    <2> QED
      BY <2>1, <2>2, <2>3
  <1>6. DraftsContinueLedger'
    BY <1>5 DEF DraftsContinueLedger
  <1> QED
    BY <1>4, <1>6

\* A row committed for a customer whom no transaction has locked extends the
\* ledger and leaves every draft valid.
LEMMA AutocommitLedger ==
  ASSUME TypeOK, LedgerInv, NEW k \in Customer, NEW e \in Entry,
         customerLock[k] = Nobody,
         balance' = [balance EXCEPT ![k] = e.after],
         ledger' = [ledger EXCEPT ![k] = Append(@, e)],
         e.after - (balance[k] + e.amount) \in -1 .. 1,
         UNCHANGED <<customerLock, txn, half>>
  PROVE  LedgerInv'
  <1>1. LedgerExplainsBalance'
    <2> SUFFICES ASSUME NEW j \in Customer
        PROVE RowMissing(j)' \/ Chained(ledger'[j], 0, balance'[j])
      BY DEF LedgerExplainsBalance
    <2>0. RowMissing(j) \/ Chained(ledger[j], 0, balance[j])
      BY DEF LedgerInv, LedgerExplainsBalance
    <2>1. RowMissing(j) => RowMissing(j)'
      BY DEF RowMissing
    <2>2. CASE j = k /\ Chained(ledger[j], 0, balance[j])
      <3>1. ledger'[k] = Append(ledger[k], e) /\ balance'[k] = e.after
        BY DEF TypeOK
      <3>2. Chained(ledger[k], 0, balance[k]) /\ ledger[k] \in Seq(Entry)
        BY <2>2 DEF TypeOK
      <3>3. Chained(Append(ledger[k], e), 0, e.after)
        BY <3>2, ChainedAppend
      <3> QED
        BY <2>2, <3>1, <3>3
    <2>3. CASE j # k
      <3>1. ledger'[j] = ledger[j] /\ balance'[j] = balance[j]
        BY <2>3 DEF TypeOK
      <3> QED
        BY <2>0, <2>1, <3>1
    <2> QED
      BY <2>0, <2>1, <2>2, <2>3
  <1>2. DebitsAreLocked'
    BY DEF LedgerInv, DebitsAreLocked
  <1>3. DraftsContinueLedger'
    <2> SUFFICES ASSUME NEW w \in Worker, NEW j \in Customer
        PROVE RowRaised(w, j) \/ Chained(txn[w].entries[j], balance'[j], balance'[j] - txn[w].debit[j])
      BY DEF DraftsContinueLedger, RowRaised
    <2>1. CASE j = k
      <3>1. txn[w].entries[k] = <<>> /\ txn[w].debit[k] = 0
        BY WorkerAssumption DEF LedgerInv, DebitsAreLocked
      <3>2. balance'[k] \in Int
        BY DEF TypeOK, Entry
      <3>3. balance'[k] = balance'[k] - txn[w].debit[k]
        BY <3>1, <3>2
      <3> QED
        BY <2>1, <3>1, <3>3, ChainedEmpty
    <2>2. CASE j # k
      <3>1. balance'[j] = balance[j]
        BY <2>2 DEF TypeOK
      <3> QED
        BY <3>1 DEF LedgerInv, DraftsContinueLedger
    <2> QED
      BY <2>1, <2>2
  <1> QED
    BY <1>1, <1>2, <1>3 DEF LedgerInv

\* A CDR that is debited by a transaction continues its draft, or raises.
LEMMA DebitLedger ==
  ASSUME TypeOK, LedgerInv, NEW w \in Worker, DebitCustomer(w)
  PROVE  LedgerInv'
  <1> DEFINE c == worker[w].cur
             k == Owner[c]
             bill == worker[w].quote.sell
  <1>1. /\ c \in Cdr /\ k \in Customer /\ bill \in Nat
        /\ \A v \in Worker \ {w} : txn'[v] = txn[v]
    BY DebitEffect
  <1>2. PICK taken \in Nearest(bill) :
             /\ taken \in Nat
             /\ CdrEntry(c, bill, balance[k] - (txn[w].debit[k] + taken)) \in Entry
             /\ Debited(txn[w], txn'[w], c, bill, taken)
    BY DebitEffect
  <1> DEFINE e == CdrEntry(c, bill, balance[k] - (txn[w].debit[k] + taken))
  <1>3. balance[k] \in Int /\ txn[w].debit[k] \in Nat /\ txn[w].entries[k] \in Seq(Entry)
    BY <1>1, CustomerTypes
  <1>4. /\ e \in Entry
        /\ e.after = balance[k] - (txn[w].debit[k] + taken)
        /\ e.amount = Stored(-bill)
    BY <1>2 DEF CdrEntry
  <1>5. txn[w].debit \in [Customer -> Nat] /\ txn[w].entries \in [Customer -> Seq(Entry)]
    BY DEF TypeOK, TxnWrites
  <1>6. /\ txn'[w].debit = [txn[w].debit EXCEPT ![k] = @ + taken]
        /\ txn'[w].entries = IF c \in LongCallId THEN txn[w].entries
                             ELSE [txn[w].entries EXCEPT ![k] = Append(@, e)]
        /\ txn'[w].raised = IF c \in LongCallId THEN txn[w].raised \cup {c} ELSE txn[w].raised
    BY <1>2 DEF Debited
  <1>7. UNCHANGED <<balance, ledger, half>>
    BY DEF DebitCustomer
  <1>8. /\ customerLock[k] \in {Nobody, w}
        /\ customerLock' = [customerLock EXCEPT ![k] = w]
    BY DEF DebitCustomer, FreeFor
  <1>9. e.after - (balance[k] - txn[w].debit[k] + e.amount) \in -1 .. 1
    <2> DEFINE a == Stored(-bill)
               b == balance[k]
               d == txn[w].debit[k]
    <2>1. a \in Int /\ -taken - a \in -1 .. 1
      BY <1>1, <1>2, RoundedApart, MoneyInt
    <2> HIDE DEF bill, k, e, a, b, d
    <2>2. b \in Int /\ d \in Nat /\ taken \in Nat
      BY <1>2, <1>3 DEF b, d
    <2>3. b - (d + taken) - (b - d + a) = -taken - a
      BY <2>1, <2>2
    <2> QED
      BY <1>4, <2>1, <2>3 DEF a, b, d
  <1> HIDE DEF k, bill, e
  <1>10. /\ \A j \in Customer \ {k} : /\ txn'[w].debit[j] = txn[w].debit[j]
                                      /\ txn'[w].entries[j] = txn[w].entries[j]
         /\ txn'[w].debit[k] = txn[w].debit[k] + taken
         /\ c \notin LongCallId => txn'[w].entries[k] = Append(txn[w].entries[k], e)
    BY <1>1, <1>5, <1>6
  <1>11. LedgerExplainsBalance'
    BY <1>7 DEF LedgerInv, LedgerExplainsBalance, RowMissing
  <1>12. DebitsAreLocked'
    <2> SUFFICES ASSUME NEW v \in Worker, NEW j \in Customer, customerLock'[j] # v
        PROVE txn'[v].entries[j] = <<>> /\ txn'[v].debit[j] = 0
      BY DEF DebitsAreLocked
    <2>1. CASE j = k
      <3>1. v # w /\ customerLock[k] # v
        BY <2>1, <1>1, <1>8, WorkerAssumption DEF TypeOK
      <3> QED
        BY <2>1, <3>1, <1>1 DEF LedgerInv, DebitsAreLocked
    <2>2. CASE j # k
      <3>1. customerLock[j] # v
        BY <2>2, <1>1, <1>8 DEF TypeOK
      <3>2. txn'[v].entries[j] = txn[v].entries[j] /\ txn'[v].debit[j] = txn[v].debit[j]
        BY <2>2, <1>1, <1>10
      <3> QED
        BY <3>1, <3>2 DEF LedgerInv, DebitsAreLocked
    <2> QED
      BY <2>1, <2>2
  <1>13. DraftsContinueLedger'
    <2> SUFFICES ASSUME NEW v \in Worker, NEW j \in Customer
        PROVE RowRaised(v, j)' \/ Chained(txn'[v].entries[j], balance[j], balance[j] - txn'[v].debit[j])
      BY <1>7 DEF DraftsContinueLedger
    <2>0. RowRaised(v, j) => RowRaised(v, j)'
      BY <1>1, <1>6 DEF RowRaised
    <2>1. CASE v = w /\ j = k /\ c \notin LongCallId /\ ~RowRaised(w, k)
      <3> DEFINE last == balance[k] - txn[w].debit[k]
      <3>1. Chained(txn[w].entries[k], balance[k], last)
        BY <1>1, <2>1 DEF LedgerInv, DraftsContinueLedger
      <3>2. e.after - (last + e.amount) \in -1 .. 1
        BY <1>9
      <3> HIDE DEF last
      <3>3. Chained(Append(txn[w].entries[k], e), balance[k], e.after)
        BY <3>1, <3>2, <1>3, <1>4, ChainedAppend
      <3>4. e.after = balance[k] - txn'[w].debit[k]
        BY <1>4, <1>10
      <3> QED
        BY <2>1, <3>3, <3>4, <1>10
    <2>2. CASE v = w /\ j = k /\ c \in LongCallId
      <3>1. c \in txn'[w].raised /\ Owner[c] = k
        BY <2>2, <1>6 DEF k
      <3> QED
        BY <2>2, <3>1 DEF RowRaised
    <2>3. CASE ~(v = w /\ j = k)
      <3>1. txn'[v].entries[j] = txn[v].entries[j] /\ txn'[v].debit[j] = txn[v].debit[j]
        BY <2>3, <1>1, <1>10
      <3> QED
        BY <2>0, <3>1 DEF LedgerInv, DraftsContinueLedger
    <2> QED
      BY <2>0, <2>1, <2>2, <2>3
  <1> QED
    BY <1>11, <1>12, <1>13 DEF LedgerInv

\* A batch that is committed extends the ledger of each of its customers.
LEMMA CommitLedger ==
  ASSUME TypeOK, LedgerInv, NEW w \in Worker, Commit(w)
  PROVE  LedgerInv'
  <1>1. /\ RollBack(w)
        /\ balance' = [k \in Customer |-> balance[k] - txn[w].debit[k]]
        /\ ledger' = [k \in Customer |-> ledger[k] \o txn[w].entries[k]]
        /\ half' = half \cup txn[w].raised
    BY DEF Commit
  <1>2. balance' \in [Customer -> Int]
    BY <1>1, CustomerTypes
  <1>3. ASSUME NEW k \in Customer, customerLock[k] # w PROVE balance'[k] = balance[k]
    <2>1. txn[w].debit[k] = 0 /\ balance[k] \in Int
      BY <1>3, CustomerTypes DEF LedgerInv, DebitsAreLocked
    <2> QED
      BY <1>1, <2>1
  <1>4. DebitsAreLocked' /\ DraftsContinueLedger'
    BY <1>1, <1>2, <1>3, RollBackDrafts DEF LedgerInv
  <1>5. ASSUME NEW k \in Customer PROVE RowMissing(k)' \/ Chained(ledger'[k], 0, balance'[k])
    <2>1. RowMissing(k) \/ RowRaised(w, k) => RowMissing(k)'
      BY <1>1 DEF RowMissing, RowRaised
    <2>2. CASE ~RowMissing(k) /\ ~RowRaised(w, k)
      <3>1. Chained(ledger[k], 0, balance[k])
        BY <2>2 DEF LedgerInv, LedgerExplainsBalance
      <3>2. Chained(txn[w].entries[k], balance[k], balance[k] - txn[w].debit[k])
        BY <2>2 DEF LedgerInv, DraftsContinueLedger
      <3>3. ledger[k] \in Seq(Entry) /\ txn[w].entries[k] \in Seq(Entry)
        BY CustomerTypes
      <3>4. Chained(ledger[k] \o txn[w].entries[k], 0, balance[k] - txn[w].debit[k])
        BY <3>1, <3>2, <3>3, ChainedConcat
      <3> QED
        BY <1>1, <3>4
    <2> QED
      BY <2>1, <2>2
  <1> QED
    BY <1>4, <1>5 DEF LedgerInv, LedgerExplainsBalance

\* An ingested CDR extends the ledger of its customer.
LEMMA IngestLedger ==
  ASSUME TypeOK, LedgerInv, NEW c \in Cdr, IngestCdr(c)
  PROVE  LedgerInv'
  <1>1. PICK q \in Quote[c] \ {RateError} :
          LET k     == Owner[c]
              price == IF c \in Billable THEN q ELSE Unrated
              bill  == price.sell
          IN  /\ q \in Price /\ price \in Price /\ k \in Customer /\ bill \in Nat
              /\ cdrs' = [cdrs EXCEPT ![c] = price]
              /\ bill = 0 => UNCHANGED <<balance, ledger>>
              /\ bill > 0 => /\ customerLock[k] = Nobody
                             /\ c \notin LongCallId
                             /\ \E taken \in Nearest(bill), e \in Entry :
                                   /\ taken \in Nat
                                   /\ e = CdrEntry(c, bill, balance[k] - taken)
                                   /\ balance' = [balance EXCEPT ![k] = balance[k] - taken]
                                   /\ ledger' = [ledger EXCEPT ![k] = Append(@, e)]
    BY IngestEffect
  <1> DEFINE k    == Owner[c]
             bill == (IF c \in Billable THEN q ELSE Unrated).sell
  <1>2. UNCHANGED <<customerLock, txn, half>>
    BY DEF IngestCdr
  <1>3. k \in Customer /\ bill \in Nat
    BY <1>1
  <1>4. CASE bill > 0
    <2>1. customerLock[k] = Nobody
          /\ \E taken \in Nearest(bill), e \in Entry :
                /\ taken \in Nat
                /\ e = CdrEntry(c, bill, balance[k] - taken)
                /\ balance' = [balance EXCEPT ![k] = balance[k] - taken]
                /\ ledger' = [ledger EXCEPT ![k] = Append(@, e)]
      BY <1>1, <1>4
    <2> HIDE DEF k, bill
    <2>2. PICK taken \in Nearest(bill), e \in Entry :
                /\ taken \in Nat
                /\ e = CdrEntry(c, bill, balance[k] - taken)
                /\ balance' = [balance EXCEPT ![k] = balance[k] - taken]
                /\ ledger' = [ledger EXCEPT ![k] = Append(@, e)]
      BY <2>1
    <2>3. e.after = balance[k] - taken /\ e.amount = Stored(-bill)
      BY <2>2 DEF CdrEntry
    <2>4. Stored(-bill) \in Int /\ -taken - Stored(-bill) \in -1 .. 1
      BY <1>3, <2>2, RoundedApart, MoneyInt
    <2>5. balance[k] \in Int
      BY <1>3 DEF TypeOK
    <2>6. e.after - (balance[k] + e.amount) \in -1 .. 1
      <3> DEFINE a == Stored(-bill)
                 b == balance[k]
      <3>1. a \in Int /\ -taken - a \in -1 .. 1 /\ b \in Int /\ taken \in Nat
        BY <2>2, <2>4, <2>5
      <3> HIDE DEF a, b
      <3>2. b - taken - (b + a) = -taken - a
        BY <3>1
      <3> QED
        BY <2>3, <3>1, <3>2 DEF a, b
    <2> QED
      BY <1>2, <1>3, <2>1, <2>2, <2>3, <2>6, AutocommitLedger
  <1>5. CASE bill = 0
    <2>1. UNCHANGED <<balance, ledger>>
      BY <1>1, <1>5
    <2> QED
      BY <1>2, <2>1 DEF LedgerInv, LedgerExplainsBalance, DebitsAreLocked, DraftsContinueLedger,
                        RowMissing, RowRaised
  <1>6. bill = 0 \/ bill > 0
    BY <1>3
  <1> QED
    BY <1>4, <1>5, <1>6

\* An adjustment extends the ledger of its customer.
LEMMA ApplyLedger ==
  ASSUME TypeOK, LedgerInv, NEW k \in Customer, ApplyBalanceChange(k)
  PROVE  LedgerInv'
  <1>1. PICK amount \in Adjustment : \E given \in Nearest(amount), e \in Entry :
            /\ amount \in Int /\ given \in Int
            /\ e = ManualEntry(amount, balance[k] + given)
            /\ balance' = [balance EXCEPT ![k] = balance[k] + given]
            /\ ledger' = [ledger EXCEPT ![k] = Append(@, e)]
    BY ApplyEffect
  <1>2. PICK given \in Nearest(amount), e \in Entry :
            /\ amount \in Int /\ given \in Int
            /\ e = ManualEntry(amount, balance[k] + given)
            /\ balance' = [balance EXCEPT ![k] = balance[k] + given]
            /\ ledger' = [ledger EXCEPT ![k] = Append(@, e)]
    BY <1>1
  <1>3. e.after = balance[k] + given /\ e.amount = Stored(amount)
    BY <1>2 DEF ManualEntry
  <1>4. e.after - (balance[k] + e.amount) \in -1 .. 1
    <2> DEFINE a == Stored(amount)
               b == balance[k]
    <2>1. a \in Int /\ given - a \in -1 .. 1 /\ b \in Int /\ given \in Int
      BY <1>2, RoundedApart, MoneyInt DEF TypeOK
    <2> HIDE DEF a, b
    <2>2. b + given - (b + a) = given - a
      BY <2>1
    <2> QED
      BY <1>3, <2>1, <2>2 DEF a, b
  <1>5. customerLock[k] = Nobody /\ UNCHANGED <<customerLock, txn, half>>
    BY DEF ApplyBalanceChange
  <1> QED
    BY <1>2, <1>3, <1>4, <1>5, AutocommitLedger

\* The ledger explains the balance, to the rounding of each row, after any mix
\* of billing loops, ingests, adjustments, lock waits, deadlocks and crashes,
\* for every customer but those with a call_id too long for it.
THEOREM LedgerCorrect == Spec => []LedgerExplainsBalance
<1>1. Init => LedgerInv
  <2> SUFFICES ASSUME Init PROVE LedgerInv
    OBVIOUS
  <2>1. \A k \in Customer : ledger[k] = <<>> /\ balance[k] = 0
    BY DEF Init
  <2>2. \A w \in Worker, k \in Customer : txn[w].entries[k] = <<>> /\ txn[w].debit[k] = 0
    BY DEF Init, NoWrites, Writes
  <2>3. \A k \in Customer : Chained(<<>>, 0, 0)
    BY ChainedEmpty
  <2> QED
    BY <2>1, <2>2, <2>3 DEF LedgerInv, LedgerExplainsBalance, DebitsAreLocked, DraftsContinueLedger
<1>2. TypeOK /\ LedgerInv /\ [Next]_vars => LedgerInv'
  <2> SUFFICES ASSUME TypeOK, LedgerInv, [Next]_vars PROVE LedgerInv'
    OBVIOUS
  <2>1. ASSUME UNCHANGED <<balance, ledger, customerLock, half>>,
               \A v \in Worker : /\ txn'[v].entries = txn[v].entries
                                 /\ txn'[v].debit = txn[v].debit
                                 /\ txn[v].raised \subseteq txn'[v].raised
        PROVE LedgerInv'
    <3>1. \A v \in Worker, k \in Customer : RowRaised(v, k) => RowRaised(v, k)'
      BY <2>1 DEF RowRaised
    <3> QED
      BY <2>1, <3>1 DEF LedgerInv, LedgerExplainsBalance, DebitsAreLocked, DraftsContinueLedger,
                        RowMissing
  <2>2. ASSUME NEW w \in Worker, Select(w) \/ CalcBill(w) PROVE LedgerInv'
    BY <2>1, <2>2 DEF Select, CalcBill
  <2>3. ASSUME NEW w \in Worker, UpdateCdr(w) PROVE LedgerInv'
    <3>1. UNCHANGED <<balance, ledger, customerLock, half>>
      BY <2>3 DEF UpdateCdr
    <3>2. ASSUME NEW v \in Worker
          PROVE  /\ txn'[v].entries = txn[v].entries /\ txn'[v].debit = txn[v].debit
                 /\ txn'[v].raised = txn[v].raised
      BY <2>3, <3>2 DEF UpdateCdr, TypeOK, TxnWrites
    <3> QED
      BY <2>1, <3>1, <3>2
  <2>4. ASSUME NEW w \in Worker, LockWaitTimeout(w) PROVE LedgerInv'
    <3>1. UNCHANGED <<balance, ledger, customerLock, half>>
      BY <2>4 DEF LockWaitTimeout
    <3>2. ASSUME NEW v \in Worker
          PROVE  /\ txn'[v].entries = txn[v].entries /\ txn'[v].debit = txn[v].debit
                 /\ txn[v].raised \subseteq txn'[v].raised
      BY <2>4, <3>2 DEF LockWaitTimeout, TypeOK, TxnWrites
    <3> QED
      BY <2>1, <3>1, <3>2
  <2>5. ASSUME NEW w \in Worker, DebitCustomer(w) PROVE LedgerInv'
    BY <2>5, DebitLedger
  <2>6. ASSUME NEW w \in Worker, Commit(w) PROVE LedgerInv'
    BY <2>6, CommitLedger
  <2>7. ASSUME NEW w \in Worker, DeadlockVictim(w) \/ ScanDeadlockVictim(w) \/ Crash(w)
        PROVE  LedgerInv'
    <3>1. RollBack(w) /\ UNCHANGED <<balance, ledger, half>>
      BY <2>7 DEF DeadlockVictim, ScanDeadlockVictim, Victim, Crash
    <3>2. DebitsAreLocked' /\ DraftsContinueLedger'
      BY <3>1, RollBackDrafts DEF LedgerInv, TypeOK
    <3> QED
      BY <3>1, <3>2 DEF LedgerInv, LedgerExplainsBalance, RowMissing
  <2>8. ASSUME NEW c \in Cdr, KamailioInsert(c) \/ Expire(c) PROVE LedgerInv'
    BY <2>1, <2>8 DEF KamailioInsert, Expire
  <2>9. ASSUME NEW c \in Cdr, IngestCdr(c) PROVE LedgerInv'
    BY <2>9, IngestLedger
  <2>10. ASSUME NEW k \in Customer, ApplyBalanceChange(k) PROVE LedgerInv'
    BY <2>10, ApplyLedger
  <2>11. CASE UNCHANGED vars
    BY <2>1, <2>11 DEF vars
  <2> QED
    BY <2>2, <2>3, <2>4, <2>5, <2>6, <2>7, <2>8, <2>9, <2>10, <2>11 DEF Next, WorkerStep
<1>3. LedgerInv => LedgerExplainsBalance
  BY DEF LedgerInv
<1> QED
  BY <1>1, <1>2, <1>3, TypeCorrect, PTL DEF Spec

----------------------------------------------------------------------------
(* Each CDR is debited once while no deadlock victim has carried on, and a   *)
(* CDR that shows a price has been debited at that price.                    *)

HIDE DEF Price, At, Writes

\* Writing a price changes only that price of the transaction.
LEMMA UpdateEffect ==
  ASSUME TypeOK, NEW w \in Worker, UpdateCdr(w)
  PROVE  /\ worker[w].cur \in Cdr /\ worker[w].quote \in Price
         /\ \A v \in Worker \ {w} : txn'[v] = txn[v]
         /\ txn'[w].rows = [txn[w].rows EXCEPT ![worker[w].cur] = worker[w].quote]
         /\ txn'[w].entries = txn[w].entries /\ txn'[w].debit = txn[w].debit
         /\ txn'[w].raised = txn[w].raised
  BY DEF UpdateCdr, TypeOK, TxnWrites

\* A lock wait that expires may add the CDR to those that have raised.
LEMMA TimeoutEffect ==
  ASSUME TypeOK, NEW w \in Worker, LockWaitTimeout(w)
  PROVE  /\ worker[w].pc \in {"update", "debit"} /\ worker[w].cur \in Cdr
         /\ \A v \in Worker \ {w} : txn'[v] = txn[v]
         /\ txn'[w].rows = txn[w].rows /\ txn'[w].entries = txn[w].entries
         /\ txn'[w].debit = txn[w].debit
         /\ txn'[w].raised = IF worker[w].pc = "debit" THEN txn[w].raised \cup {worker[w].cur}
                             ELSE txn[w].raised
  <1>1. worker[w].pc \in {"update", "debit"} /\ worker[w].cur \in Cdr
    BY DEF LockWaitTimeout, Waiting, Holder, FreeFor, TypeOK
  <1> QED
    BY <1>1 DEF LockWaitTimeout, TypeOK, TxnWrites

\* Some row of a ledger, or of a transaction's draft, debits the CDR; by an amount.
Charges(rows, c) ==
    \E i \in 1 .. Len(rows) : rows[i].type = "cdr" /\ rows[i].ref = c

ChargesAmount(rows, c, amount) ==
    \E i \in 1 .. Len(rows) :
        rows[i].type = "cdr" /\ rows[i].ref = c /\ rows[i].amount = amount

ChargedOnce(rows) ==
    \A i, j \in 1 .. Len(rows) :
        rows[i].type = "cdr" /\ rows[j].type = "cdr" /\ rows[i].ref = rows[j].ref => i = j

\* What is charged by two sequences of rows is what either charges.
LEMMA ChargesConcat ==
  ASSUME NEW r \in Seq(Entry), NEW s \in Seq(Entry), NEW c
  PROVE  /\ Charges(r \o s, c) <=> Charges(r, c) \/ Charges(s, c)
         /\ \A amount : ChargesAmount(r \o s, c, amount)
                <=> ChargesAmount(r, c, amount) \/ ChargesAmount(s, c, amount)
  <1> DEFINE n == Len(r)
             both == r \o s
  <1>1. /\ n \in Nat /\ Len(s) \in Nat
        /\ Len(both) = n + Len(s)
        /\ \A i \in 1 .. n : both[i] = r[i]
        /\ \A i \in 1 .. Len(s) : both[n + i] = s[i]
    OBVIOUS
  <1>2. \A i \in 1 .. n : i \in 1 .. Len(both)
    BY <1>1
  <1>3. \A i \in 1 .. Len(s) : n + i \in 1 .. Len(both)
    BY <1>1
  <1>4. \A i \in 1 .. Len(both) : i \in 1 .. n \/ \E j \in 1 .. Len(s) : both[i] = s[j]
    <2> SUFFICES ASSUME NEW i \in 1 .. Len(both), i \notin 1 .. n
        PROVE \E j \in 1 .. Len(s) : both[i] = s[j]
      OBVIOUS
    <2>1. i - n \in 1 .. Len(s) /\ i = n + (i - n)
      BY <1>1
    <2> QED
      BY <2>1, <1>1
  <1> HIDE DEF n, both
  <1> USE <1>1, <1>2, <1>3, <1>4
  <1>5. Charges(both, c) <=> Charges(r, c) \/ Charges(s, c)
    <2>1. ASSUME Charges(r, c) PROVE Charges(both, c)
      <3>1. PICK i \in 1 .. n : r[i].type = "cdr" /\ r[i].ref = c
        BY <2>1 DEF Charges, n
      <3>2. i \in 1 .. Len(both) /\ both[i] = r[i]
        OBVIOUS
      <3> QED
        BY <3>1, <3>2 DEF Charges
    <2>2. ASSUME Charges(s, c) PROVE Charges(both, c)
      <3>1. PICK i \in 1 .. Len(s) : s[i].type = "cdr" /\ s[i].ref = c
        BY <2>2 DEF Charges
      <3>2. n + i \in 1 .. Len(both) /\ both[n + i] = s[i]
        OBVIOUS
      <3> QED
        BY <3>1, <3>2 DEF Charges
    <2>3. ASSUME Charges(both, c) PROVE Charges(r, c) \/ Charges(s, c)
      <3>1. PICK i \in 1 .. Len(both) : both[i].type = "cdr" /\ both[i].ref = c
        BY <2>3 DEF Charges
      <3>2. CASE i \in 1 .. n
        BY <3>1, <3>2 DEF Charges, n
      <3>3. CASE \E j \in 1 .. Len(s) : both[i] = s[j]
        BY <3>1, <3>3 DEF Charges
      <3> QED
        BY <3>2, <3>3
    <2> QED
      BY <2>1, <2>2, <2>3
  <1>6. ASSUME NEW amount
        PROVE  ChargesAmount(both, c, amount)
                 <=> ChargesAmount(r, c, amount) \/ ChargesAmount(s, c, amount)
    <2>1. ASSUME ChargesAmount(r, c, amount) PROVE ChargesAmount(both, c, amount)
      <3>1. PICK i \in 1 .. n : r[i].type = "cdr" /\ r[i].ref = c /\ r[i].amount = amount
        BY <2>1 DEF ChargesAmount, n
      <3>2. i \in 1 .. Len(both) /\ both[i] = r[i]
        OBVIOUS
      <3> QED
        BY <3>1, <3>2 DEF ChargesAmount
    <2>2. ASSUME ChargesAmount(s, c, amount) PROVE ChargesAmount(both, c, amount)
      <3>1. PICK i \in 1 .. Len(s) : s[i].type = "cdr" /\ s[i].ref = c /\ s[i].amount = amount
        BY <2>2 DEF ChargesAmount
      <3>2. n + i \in 1 .. Len(both) /\ both[n + i] = s[i]
        OBVIOUS
      <3> QED
        BY <3>1, <3>2 DEF ChargesAmount
    <2>3. ASSUME ChargesAmount(both, c, amount)
          PROVE  ChargesAmount(r, c, amount) \/ ChargesAmount(s, c, amount)
      <3>1. PICK i \in 1 .. Len(both) :
              both[i].type = "cdr" /\ both[i].ref = c /\ both[i].amount = amount
        BY <2>3 DEF ChargesAmount
      <3>2. CASE i \in 1 .. n
        BY <3>1, <3>2 DEF ChargesAmount, n
      <3>3. CASE \E j \in 1 .. Len(s) : both[i] = s[j]
        BY <3>1, <3>3 DEF ChargesAmount
      <3> QED
        BY <3>2, <3>3
    <2> QED
      BY <2>1, <2>2, <2>3
  <1> QED
    BY <1>5, <1>6 DEF both

\* Rows that charge no CDR in common charge each at most once together.
LEMMA OnceConcat ==
  ASSUME NEW r \in Seq(Entry), NEW s \in Seq(Entry), ChargedOnce(r), ChargedOnce(s),
         \A c \in Cdr \cup {Absent} : ~(Charges(r, c) /\ Charges(s, c))
  PROVE  ChargedOnce(r \o s)
  <1> DEFINE n == Len(r)
             both == r \o s
  <1>1. /\ n \in Nat /\ Len(s) \in Nat
        /\ Len(both) = n + Len(s)
        /\ \A i \in 1 .. n : both[i] = r[i]
        /\ \A i \in 1 .. Len(s) : both[n + i] = s[i]
    OBVIOUS
  <1>2. ASSUME NEW i \in 1 .. Len(both), i \notin 1 .. n
        PROVE  i - n \in 1 .. Len(s) /\ i = n + (i - n) /\ both[i] = s[i - n]
    <2>1. i - n \in 1 .. Len(s) /\ i = n + (i - n)
      BY <1>1, <1>2
    <2> QED
      BY <2>1, <1>1
  <1>3. SUFFICES ASSUME NEW i \in 1 .. Len(both), NEW j \in 1 .. Len(both),
                        both[i].type = "cdr", both[j].type = "cdr",
                        both[i].ref = both[j].ref
        PROVE i = j
    BY DEF ChargedOnce
  <1> HIDE DEF n, both
  <1>4. CASE i \in 1 .. n /\ j \in 1 .. n
    <2>1. both[i] = r[i] /\ both[j] = r[j]
      BY <1>1, <1>4
    <2> QED
      BY <1>3, <1>4, <2>1 DEF ChargedOnce, n
  <1>5. CASE i \notin 1 .. n /\ j \notin 1 .. n
    <2>1. /\ i - n \in 1 .. Len(s) /\ i = n + (i - n) /\ both[i] = s[i - n]
          /\ j - n \in 1 .. Len(s) /\ j = n + (j - n) /\ both[j] = s[j - n]
      BY <1>2, <1>5
    <2>2. i - n = j - n
      BY <1>3, <2>1 DEF ChargedOnce
    <2> QED
      BY <2>1, <2>2
  <1>6. ASSUME NEW a \in 1 .. Len(both), NEW b \in 1 .. Len(both),
               a \in 1 .. n, b \notin 1 .. n,
               both[a].type = "cdr", both[b].type = "cdr", both[a].ref = both[b].ref
        PROVE FALSE
    <2>1. both[a] = r[a]
      BY <1>1, <1>6
    <2>2. b - n \in 1 .. Len(s) /\ both[b] = s[b - n]
      BY <1>2, <1>6
    <2>3. r[a].ref \in Cdr \cup {Absent}
      <3>1. r[a] \in Entry
        BY <1>6 DEF n
      <3> QED
        BY <3>1 DEF Entry
    <2>4. Charges(r, r[a].ref)
      BY <1>6, <2>1 DEF Charges, n
    <2>5. Charges(s, r[a].ref)
      BY <1>6, <2>1, <2>2 DEF Charges
    <2> QED
      BY <2>3, <2>4, <2>5
  <1>7. CASE i \in 1 .. n /\ j \notin 1 .. n
    BY <1>3, <1>6, <1>7
  <1>8. CASE i \notin 1 .. n /\ j \in 1 .. n
    BY <1>3, <1>6, <1>8
  <1> QED
    BY <1>4, <1>5, <1>7, <1>8
\* One more row charges its own CDR, and no other.
LEMMA ChargesAppend ==
  ASSUME NEW r \in Seq(Entry), NEW e \in Entry
  PROVE  /\ \A c : Charges(Append(r, e), c) <=> Charges(r, c) \/ (e.type = "cdr" /\ e.ref = c)
         /\ ChargedOnce(r) /\ (e.type = "cdr" => ~Charges(r, e.ref))
                => ChargedOnce(Append(r, e))
  <1> DEFINE s == <<e>>
  <1>1. s \in Seq(Entry) /\ Len(s) = 1 /\ s[1] = e
    OBVIOUS
  <1>2. Append(r, e) = r \o s
    OBVIOUS
  <1> HIDE DEF s
  <1>3. \A c : Charges(s, c) <=> e.type = "cdr" /\ e.ref = c
    BY <1>1 DEF Charges
  <1>4. ChargedOnce(s)
    BY <1>1 DEF ChargedOnce
  <1>5. \A c : Charges(r \o s, c) <=> Charges(r, c) \/ Charges(s, c)
    BY <1>1, ChargesConcat
  <1>6. ASSUME ChargedOnce(r), e.type = "cdr" => ~Charges(r, e.ref)
        PROVE  ChargedOnce(r \o s)
    <2>1. \A c \in Cdr \cup {Absent} : ~(Charges(r, c) /\ Charges(s, c))
      BY <1>3, <1>6
    <2> QED
      BY <1>1, <1>4, <1>6, <2>1, OnceConcat
  <1> QED
    BY <1>2, <1>3, <1>5, <1>6

----------------------------------------------------------------------------
\* The loop is at a statement for the CDR.
AtCdr(w, c) == worker[w].pc \in {"update", "debit"} /\ worker[w].cur = c

\* A loop takes each CDR of its batch once, and at the debit it has written the
\* price that it debits.
LoopTakesOnce ==
    \A w \in Worker : \A c \in Cdr : AtCdr(w, c) =>
        /\ c \notin worker[w].todo
        /\ worker[w].pc = "debit" =>
              txn[w].rows[c] = worker[w].quote /\ worker[w].quote.sell > 0

\* What a draft charges has been priced by its transaction, which is done with it.
DraftsAreDone ==
    \A w \in Worker, k \in Customer, c \in Cdr \cup {Absent} :
        Charges(txn[w].entries[k], c) =>
            /\ c \in Cdr
            /\ txn[w].rows[c] \in Price /\ txn[w].rows[c].sell > 0
            /\ c \notin worker[w].todo
            /\ ~AtCdr(w, c)

DraftsChargeOnce ==
    \A w \in Worker, k \in Customer : ChargedOnce(txn[w].entries[k])

\* A row is locked while it is pending, by the transaction that prices it.
LockedIsPending ==
    \A w \in Worker, c \in Cdr : rowLock[c] = w => cdrs[c] = Unrated

BatchIsLocked ==
    \A w \in Worker, c \in Cdr :
        c \in worker[w].todo \/ AtCdr(w, c) \/ txn[w].rows[c] # NoQuote => rowLock[c] = w

\* What the ledger charges is not pending any more.
ChargedIsPriced ==
    \A k \in Customer, c \in Cdr \cup {Absent} :
        Charges(ledger[k], c) => c \in Cdr /\ cdrs[c] \in Price \ {Unrated}

\* A loop that sleeps has no transaction.
SleepsClean == \A w \in Worker : worker[w].pc = "sleep" => txn[w] = NoWrites

\* The inductive invariant: each transaction is right by itself, and, as long
\* as no victim has carried on, the row locks keep the transactions apart.
BatchInv == SleepsClean /\ LoopTakesOnce /\ DraftsAreDone /\ DraftsChargeOnce

LockInv == LockedIsPending /\ BatchIsLocked /\ ChargedIsPriced /\ NoDoubleDebit

DebitInv == BatchInv /\ (victims = {} => LockInv)

\* The types of a transaction and of the ledger of one customer.
LEMMA RowTypes ==
  ASSUME TypeOK, NEW w \in Worker, NEW k \in Customer
  PROVE  /\ ledger[k] \in Seq(Entry)
         /\ txn[w].entries[k] \in Seq(Entry)
         /\ txn[w].rows \in [Cdr -> Price \cup {NoQuote}]
         /\ worker[w] \in Loop
         /\ NoQuote \notin Price /\ Absent \notin Price
  BY QuoteAssumption DEF TypeOK, TxnWrites

\* Nothing is charged by no rows, nor written by no transaction.
LEMMA NoWritesCharge ==
  /\ \A c : ~Charges(<<>>, c)
  /\ ChargedOnce(<<>>)
  /\ \A k \in Customer : NoWrites.entries[k] = <<>>
  /\ \A c \in Cdr : NoWrites.rows[c] = NoQuote
  <1>1. Len(<<>>) = 0
    OBVIOUS
  <1>2. \A c : ~Charges(<<>>, c)
    BY <1>1 DEF Charges
  <1>3. ChargedOnce(<<>>)
    BY <1>1 DEF ChargedOnce
  <1> QED
    BY <1>2, <1>3 DEF NoWrites, Writes

\* A transaction that ends leaves those of the other loops as they were.
LEMMA RollBackBatch ==
  ASSUME TypeOK, BatchInv, NEW w \in Worker, RollBack(w),
         worker'[w].pc \in {"sleep", "batch"},
         \A v \in Worker \ {w} : worker'[v] = worker[v]
  PROVE  BatchInv'
  <1>1. txn'[w] = NoWrites /\ \A v \in Worker \ {w} : txn'[v] = txn[v]
    BY DEF RollBack, TypeOK
  <1>2. \A c \in Cdr \cup {Absent} : ~AtCdr(w, c)'
    BY DEF AtCdr
  <1>3. \A v \in Worker \ {w}, c \in Cdr \cup {Absent} : AtCdr(v, c)' = AtCdr(v, c)
    BY DEF AtCdr
  <1>4. SleepsClean'
    BY <1>1 DEF BatchInv, SleepsClean
  <1>5. LoopTakesOnce'
    BY <1>1, <1>2, <1>3 DEF BatchInv, LoopTakesOnce
  <1>6. DraftsAreDone'
    BY <1>1, <1>3, NoWritesCharge DEF BatchInv, DraftsAreDone
  <1>7. DraftsChargeOnce'
    BY <1>1, NoWritesCharge DEF BatchInv, DraftsChargeOnce
  <1> QED
    BY <1>4, <1>5, <1>6, <1>7 DEF BatchInv

\* A transaction that ends gives up its locks, and only those.
LEMMA UnlockedRows ==
  ASSUME TypeOK, NEW w \in Worker, RollBack(w)
  PROVE  \A v \in Worker, c \in Cdr :
            rowLock'[c] = v <=> v # w /\ rowLock[c] = v
  BY WorkerAssumption DEF RollBack, Unlocked, TypeOK

\* The ledger charges each CDR once when each customer's part of it does.
LEMMA LedgerOnce ==
  /\ NoDoubleDebit <=> \A k \in Customer : ChargedOnce(ledger[k])
  /\ NoDoubleDebit' <=> \A k \in Customer : ChargedOnce(ledger'[k])
  BY DEF NoDoubleDebit, ChargedOnce

\* A transaction that is dropped leaves the others' rows locked.
LEMMA RollBackLocks ==
  ASSUME TypeOK, LockInv, NEW w \in Worker, RollBack(w),
         worker'[w].todo = {}, worker'[w].pc = "sleep",
         \A v \in Worker \ {w} : worker'[v] = worker[v],
         UNCHANGED <<cdrs, ledger>>
  PROVE  LockInv'
  <1>1. txn'[w] = NoWrites /\ \A v \in Worker \ {w} : txn'[v] = txn[v]
    BY DEF RollBack, TypeOK
  <1>2. LockedIsPending'
    BY UnlockedRows DEF LockInv, LockedIsPending
  <1>3. BatchIsLocked'
    BY <1>1, UnlockedRows, NoWritesCharge DEF LockInv, BatchIsLocked, AtCdr
  <1>4. ChargedIsPriced' /\ NoDoubleDebit'
    BY DEF LockInv, ChargedIsPriced, NoDoubleDebit
  <1> QED
    BY <1>2, <1>3, <1>4 DEF LockInv

\* A CDR whose price a transaction has written was pending until its commit.
LEMMA WrittenIsPending ==
  ASSUME LockInv, NEW w \in Worker, NEW c \in Cdr, txn[w].rows[c] # NoQuote
  PROVE  rowLock[c] = w /\ cdrs[c] = Unrated
  BY DEF LockInv, BatchIsLocked, LockedIsPending

----------------------------------------------------------------------------
\* Taking a batch: the rows were pending and free, and the loop had no transaction.
LEMMA SelectKeeps ==
  ASSUME TypeOK, DebitInv, NEW w \in Worker, Select(w)
  PROVE  DebitInv'
  <1>1. PICK rows \in SUBSET {c \in Cdr : Eligible(c) /\ rowLock[c] = Nobody} :
          /\ rowLock' = [c \in Cdr |-> IF c \in rows THEN w ELSE rowLock[c]]
          /\ worker' = [worker EXCEPT ![w] = At("batch", rows, Absent, NoQuote)]
    BY DEF Select
  <1>2. /\ worker'[w] = At("batch", rows, Absent, NoQuote)
        /\ \A v \in Worker \ {w} : worker'[v] = worker[v]
    BY <1>1 DEF TypeOK
  <1>3. txn' = txn /\ cdrs' = cdrs /\ ledger' = ledger /\ victims' = victims
    BY DEF Select
  <1>4. txn[w] = NoWrites
    BY DEF Select, DebitInv, BatchInv, SleepsClean
  <1>5. \A c : ~AtCdr(w, c)'
    BY <1>2 DEF AtCdr, At
  <1>6. \A v \in Worker \ {w} : \A c : AtCdr(v, c)' <=> AtCdr(v, c)
    BY <1>2 DEF AtCdr
  <1>7. BatchInv'
    <2>1. SleepsClean'
      BY <1>2, <1>3 DEF DebitInv, BatchInv, SleepsClean, At
    <2>2. LoopTakesOnce'
      BY <1>2, <1>3, <1>5, <1>6 DEF DebitInv, BatchInv, LoopTakesOnce
    <2>3. DraftsAreDone'
      BY <1>2, <1>3, <1>4, <1>6, NoWritesCharge DEF DebitInv, BatchInv, DraftsAreDone
    <2>4. DraftsChargeOnce'
      BY <1>3 DEF DebitInv, BatchInv, DraftsChargeOnce
    <2> QED
      BY <2>1, <2>2, <2>3, <2>4 DEF BatchInv
  <1>8. ASSUME LockInv PROVE LockInv'
    <2>1. LockedIsPending'
      BY <1>1, <1>3, <1>8 DEF LockInv, LockedIsPending, Eligible, Pending, TypeOK
    <2>2. BatchIsLocked'
      <3> SUFFICES ASSUME NEW v \in Worker, NEW c \in Cdr,
                          \/ c \in worker'[v].todo
                          \/ AtCdr(v, c)'
                          \/ txn[v].rows[c] # NoQuote
          PROVE rowLock'[c] = v
        BY <1>3 DEF BatchIsLocked
      <3>1. CASE v = w
        <4>1. c \in rows
          BY <3>1, <1>2, <1>4, <1>5, NoWritesCharge DEF At
        <4> QED
          BY <3>1, <4>1, <1>1
      <3>2. CASE v # w
        <4>1. rowLock[c] = v
          BY <3>2, <1>2, <1>6, <1>8 DEF LockInv, BatchIsLocked
        <4>2. c \notin rows
          BY <4>1, WorkerAssumption
        <4> QED
          BY <4>1, <4>2, <1>1
      <3> QED
        BY <3>1, <3>2
    <2>3. ChargedIsPriced' /\ NoDoubleDebit'
      BY <1>3, <1>8 DEF LockInv, ChargedIsPriced, NoDoubleDebit
    <2> QED
      BY <2>1, <2>2, <2>3 DEF LockInv
  <1> QED
    BY <1>3, <1>7, <1>8 DEF DebitInv

\* Moving to the next CDR of the batch, priced or not, or to none.
LEMMA LoopMoves ==
  ASSUME TypeOK, DebitInv, NEW w \in Worker,
         \A v \in Worker \ {w} : worker'[v] = worker[v],
         worker[w].pc # "sleep",
         worker'[w].pc \in {"batch", "update"},
         worker'[w].todo \subseteq worker[w].todo,
         \A c \in Cdr : AtCdr(w, c)' => c \in worker[w].todo /\ c \notin worker'[w].todo,
         UNCHANGED <<cdrs, ledger, rowLock, victims>>,
         \A v \in Worker \ {w} : txn'[v] = txn[v],
         txn'[w].rows = txn[w].rows, txn'[w].entries = txn[w].entries
  PROVE  DebitInv'
  <1>0. \A v \in Worker : txn'[v].rows = txn[v].rows /\ txn'[v].entries = txn[v].entries
    OBVIOUS
  <1>1. \A v \in Worker \ {w} : \A c : AtCdr(v, c)' <=> AtCdr(v, c)
    BY DEF AtCdr
  <1>2. SleepsClean'
    BY DEF DebitInv, BatchInv, SleepsClean
  <1>3. LoopTakesOnce'
    <2> SUFFICES ASSUME NEW v \in Worker, NEW c \in Cdr, AtCdr(v, c)'
        PROVE /\ c \notin worker'[v].todo
              /\ worker'[v].pc = "debit" =>
                   txn'[v].rows[c] = worker'[v].quote /\ worker'[v].quote.sell > 0
      BY DEF LoopTakesOnce
    <2>1. CASE v = w
      BY <2>1
    <2>2. CASE v # w
      BY <2>2, <1>1 DEF DebitInv, BatchInv, LoopTakesOnce
    <2> QED
      BY <2>1, <2>2
  <1>4. DraftsAreDone'
    <2> SUFFICES ASSUME NEW v \in Worker, NEW k \in Customer, NEW c \in Cdr \cup {Absent},
                        Charges(txn[v].entries[k], c)
        PROVE /\ c \in Cdr
              /\ txn[v].rows[c] \in Price /\ txn[v].rows[c].sell > 0
              /\ c \notin worker'[v].todo
              /\ ~AtCdr(v, c)'
      BY <1>0 DEF DraftsAreDone
    <2>1. /\ c \in Cdr
          /\ txn[v].rows[c] \in Price /\ txn[v].rows[c].sell > 0
          /\ c \notin worker[v].todo
          /\ ~AtCdr(v, c)
      BY DEF DebitInv, BatchInv, DraftsAreDone
    <2>2. c \notin worker'[v].todo /\ ~AtCdr(v, c)'
      BY <2>1, <1>1
    <2> QED
      BY <2>1, <2>2
  <1>5. DraftsChargeOnce'
    BY <1>0 DEF DebitInv, BatchInv, DraftsChargeOnce
  <1>6. ASSUME LockInv PROVE LockInv'
    <2>1. BatchIsLocked'
      BY <1>0, <1>1, <1>6 DEF LockInv, BatchIsLocked
    <2>2. LockedIsPending' /\ ChargedIsPriced' /\ NoDoubleDebit'
      BY <1>6 DEF LockInv, LockedIsPending, ChargedIsPriced, NoDoubleDebit
    <2> QED
      BY <2>1, <2>2 DEF LockInv
  <1> QED
    BY <1>2, <1>3, <1>4, <1>5, <1>6 DEF DebitInv, BatchInv

\* What NextCdr does to the loop.
LEMMA NextCdrLoop ==
  ASSUME TypeOK, NEW w \in Worker, NextCdr(w)
  PROVE  /\ \A v \in Worker \ {w} : worker'[v] = worker[v]
         /\ worker'[w].pc = "batch"
         /\ worker'[w].todo = worker[w].todo
         /\ \A c : ~AtCdr(w, c)'
  <1>1. /\ \A v \in Worker \ {w} : worker'[v] = worker[v]
        /\ worker'[w].pc = "batch"
        /\ worker'[w].todo = worker[w].todo
    BY DEF NextCdr, TypeOK, At
  <1> QED
    BY <1>1 DEF AtCdr

\* Pricing a CDR takes it out of the batch.
LEMMA CalcBillKeeps ==
  ASSUME TypeOK, DebitInv, NEW w \in Worker, CalcBill(w)
  PROVE  DebitInv'
  <1>1. PICK c \in worker[w].todo : \E q \in Quote[c] :
          worker' = [worker EXCEPT ![w] = Rated(w, c, q)]
    BY DEF CalcBill
  <1> PICK q \in Quote[c] : worker' = [worker EXCEPT ![w] = Rated(w, c, q)]
    BY <1>1
  <1>2. /\ worker'[w] = Rated(w, c, q)
        /\ \A v \in Worker \ {w} : worker'[v] = worker[v]
    BY DEF TypeOK
  <1>3. /\ worker'[w].pc \in {"batch", "update"}
        /\ worker'[w].todo = worker[w].todo \ {c}
        /\ worker'[w].pc = "update" => worker'[w].cur = c
    BY <1>2 DEF Rated, At
  <1>4. \A d \in Cdr : AtCdr(w, d)' => d \in worker[w].todo /\ d \notin worker'[w].todo
    BY <1>3 DEF AtCdr
  <1>5. worker[w].pc # "sleep" /\ UNCHANGED <<cdrs, ledger, rowLock, txn, victims>>
    BY DEF CalcBill
  <1> QED
    BY <1>2, <1>3, <1>4, <1>5, LoopMoves

\* A CDR whose statement has timed out is left behind.
LEMMA LockWaitTimeoutKeeps ==
  ASSUME TypeOK, DebitInv, NEW w \in Worker, LockWaitTimeout(w)
  PROVE  DebitInv'
  <1>1. worker[w].pc # "sleep" /\ NextCdr(w) /\ UNCHANGED <<cdrs, ledger, rowLock, victims>>
    BY DEF LockWaitTimeout, Waiting, Holder, FreeFor
  <1>2. /\ \A v \in Worker \ {w} : txn'[v] = txn[v]
        /\ txn'[w].rows = txn[w].rows /\ txn'[w].entries = txn[w].entries
    BY TimeoutEffect
  <1>3. /\ \A v \in Worker \ {w} : worker'[v] = worker[v]
        /\ worker'[w].pc = "batch"
        /\ worker'[w].todo = worker[w].todo
        /\ \A c : ~AtCdr(w, c)'
    BY <1>1, NextCdrLoop
  <1> QED
    BY <1>1, <1>2, <1>3, LoopMoves

\* Writing the price: the transaction has locked the row since it took it, and
\* has not charged its CDR yet.
LEMMA UpdateCdrKeeps ==
  ASSUME TypeOK, DebitInv, NEW w \in Worker, UpdateCdr(w)
  PROVE  DebitInv'
  <1> DEFINE c0 == worker[w].cur
             q == worker[w].quote
             rows == [txn[w].rows EXCEPT ![c0] = q]
  <1>1. c0 \in Cdr /\ q \in Price /\ AtCdr(w, c0)
    BY DEF UpdateCdr, TypeOK, AtCdr
  <1>2. /\ \A v \in Worker \ {w} : worker'[v] = worker[v]
        /\ worker'[w].todo = worker[w].todo
        /\ \/ worker'[w].pc = "batch"
           \/ worker'[w].pc = "debit" /\ worker'[w].cur = c0 /\ worker'[w].quote = q /\ q.sell > 0
    <2>1. CASE OwesDebit(q)
      <3>1. worker' = [worker EXCEPT ![w] = At("debit", worker[w].todo, c0, q)]
        BY <2>1 DEF UpdateCdr
      <3> QED
        BY <2>1, <3>1 DEF TypeOK, At, OwesDebit
    <2>2. CASE ~OwesDebit(q)
      <3>1. NextCdr(w)
        BY <2>2 DEF UpdateCdr
      <3> QED
        BY <3>1, NextCdrLoop
    <2> QED
      BY <2>1, <2>2
  <1>3. \A v \in Worker, c \in Cdr : AtCdr(v, c)' => AtCdr(v, c)
    BY <1>1, <1>2 DEF AtCdr
  <1>4. /\ \A v \in Worker \ {w} : txn'[v] = txn[v]
        /\ txn'[w].rows = rows
        /\ \A v \in Worker : txn'[v].entries = txn[v].entries
    BY UpdateEffect
  <1>5. rows[c0] = q /\ \A c \in Cdr \ {c0} : rows[c] = txn[w].rows[c]
    <2>1. txn[w].rows \in [Cdr -> Price \cup {NoQuote}]
      BY DEF TypeOK, TxnWrites
    <2> QED
      BY <1>1, <2>1
  <1>6. UNCHANGED <<cdrs, ledger, victims>> /\ rowLock' = [rowLock EXCEPT ![c0] = w]
    BY DEF UpdateCdr
  <1>7. worker[w].pc = "update"
    BY DEF UpdateCdr
  <1> HIDE DEF c0, q, rows
  <1>8. SleepsClean'
    BY <1>2, <1>4 DEF DebitInv, BatchInv, SleepsClean
  <1>9. LoopTakesOnce'
    <2> SUFFICES ASSUME NEW v \in Worker, NEW c \in Cdr, AtCdr(v, c)'
        PROVE /\ c \notin worker'[v].todo
              /\ worker'[v].pc = "debit" =>
                   txn'[v].rows[c] = worker'[v].quote /\ worker'[v].quote.sell > 0
      BY DEF LoopTakesOnce
    <2>1. AtCdr(v, c) /\ c \notin worker[v].todo
      BY <1>3 DEF DebitInv, BatchInv, LoopTakesOnce
    <2>2. CASE v = w
      <3>1. c = c0
        BY <2>1, <2>2, <1>1 DEF AtCdr
      <3> QED
        BY <2>1, <2>2, <3>1, <1>2, <1>4, <1>5
    <2>3. CASE v # w
      BY <2>1, <2>3, <1>2, <1>4 DEF DebitInv, BatchInv, LoopTakesOnce
    <2> QED
      BY <2>2, <2>3
  <1>10. DraftsAreDone'
    <2> SUFFICES ASSUME NEW v \in Worker, NEW k \in Customer, NEW c \in Cdr \cup {Absent},
                        Charges(txn'[v].entries[k], c)
        PROVE /\ c \in Cdr
              /\ txn'[v].rows[c] \in Price /\ txn'[v].rows[c].sell > 0
              /\ c \notin worker'[v].todo
              /\ ~AtCdr(v, c)'
      BY DEF DraftsAreDone
    <2>1. /\ c \in Cdr
          /\ txn[v].rows[c] \in Price /\ txn[v].rows[c].sell > 0
          /\ c \notin worker[v].todo
          /\ ~AtCdr(v, c)
      BY <1>4 DEF DebitInv, BatchInv, DraftsAreDone
    <2>2. txn'[v].rows[c] = txn[v].rows[c]
      BY <2>1, <1>1, <1>4, <1>5
    <2> QED
      BY <2>1, <2>2, <1>2, <1>3
  <1>11. DraftsChargeOnce'
    BY <1>4 DEF DebitInv, BatchInv, DraftsChargeOnce
  <1>12. ASSUME LockInv PROVE LockInv'
    <2>1. rowLock[c0] = w
      BY <1>1, <1>12 DEF LockInv, BatchIsLocked
    <2>2. rowLock' = rowLock
      BY <2>1, <1>6 DEF TypeOK
    <2>3. BatchIsLocked'
      <3> SUFFICES ASSUME NEW v \in Worker, NEW c \in Cdr,
                          \/ c \in worker'[v].todo
                          \/ AtCdr(v, c)'
                          \/ txn'[v].rows[c] # NoQuote
          PROVE rowLock[c] = v
        BY <2>2 DEF BatchIsLocked
      <3>1. CASE c \in worker'[v].todo \/ AtCdr(v, c)'
        BY <3>1, <1>2, <1>3, <1>12 DEF LockInv, BatchIsLocked
      <3>2. CASE txn'[v].rows[c] # NoQuote /\ v = w /\ c = c0
        BY <3>2, <2>1
      <3>3. CASE txn'[v].rows[c] # NoQuote /\ ~(v = w /\ c = c0)
        <4>1. txn'[v].rows[c] = txn[v].rows[c]
          BY <3>3, <1>4, <1>5
        <4> QED
          BY <3>3, <4>1, <1>12 DEF LockInv, BatchIsLocked
      <3> QED
        BY <3>1, <3>2, <3>3
    <2>4. LockedIsPending' /\ ChargedIsPriced' /\ NoDoubleDebit'
      BY <2>2, <1>6, <1>12 DEF LockInv, LockedIsPending, ChargedIsPriced, NoDoubleDebit
    <2> QED
      BY <2>3, <2>4 DEF LockInv
  <1> QED
    BY <1>6, <1>8, <1>9, <1>10, <1>11, <1>12 DEF DebitInv, BatchInv

\* The debit adds a row for the CDR the loop is on, which no draft of its
\* transaction charges yet.
LEMMA DebitCustomerKeeps ==
  ASSUME TypeOK, DebitInv, NEW w \in Worker, DebitCustomer(w)
  PROVE  DebitInv'
  <1> DEFINE c0 == worker[w].cur
             k0 == Owner[c0]
             bill == worker[w].quote.sell
  <1>0. PICK taken \in Nearest(bill) :
             /\ CdrEntry(c0, bill, balance[k0] - (txn[w].debit[k0] + taken)) \in Entry
             /\ Debited(txn[w], txn'[w], c0, bill, taken)
    BY DebitEffect
  <1> DEFINE e == CdrEntry(c0, bill, balance[k0] - (txn[w].debit[k0] + taken))
  <1>1. /\ c0 \in Cdr /\ AtCdr(w, c0) /\ worker[w].pc = "debit"
        /\ worker[w].quote \in Price /\ k0 \in Customer
    BY CdrAssumption DEF DebitCustomer, TypeOK, AtCdr
  <1>2. /\ \A v \in Worker \ {w} : worker'[v] = worker[v]
        /\ worker'[w].pc = "batch"
        /\ worker'[w].todo = worker[w].todo
        /\ \A c : ~AtCdr(w, c)'
    <2>1. NextCdr(w)
      BY DEF DebitCustomer
    <2> QED
      BY <2>1, NextCdrLoop
  <1>3. \A v \in Worker, c \in Cdr : AtCdr(v, c)' => AtCdr(v, c)
    BY <1>2 DEF AtCdr
  <1>4. e \in Entry /\ e.type = "cdr" /\ e.ref = c0
    BY <1>0 DEF CdrEntry
  <1>5. /\ \A v \in Worker \ {w} : txn'[v] = txn[v]
        /\ \A v \in Worker : txn'[v].rows = txn[v].rows
        /\ \/ txn'[w].entries = txn[w].entries
           \/ txn'[w].entries = [txn[w].entries EXCEPT ![k0] = Append(@, e)]
    <2>1. \A v \in Worker \ {w} : txn'[v] = txn[v]
      BY DebitEffect
    <2> QED
      BY <1>0, <2>1 DEF Debited
  <1>6. UNCHANGED <<cdrs, ledger, victims, rowLock>>
    BY DEF DebitCustomer
  <1>7. txn[w].entries \in [Customer -> Seq(Entry)]
    BY DEF TypeOK, TxnWrites
  <1>8. txn[w].rows[c0] \in Price /\ txn[w].rows[c0].sell > 0 /\ c0 \notin worker[w].todo
    BY <1>1 DEF DebitInv, BatchInv, LoopTakesOnce
  <1>9. \A k \in Customer : ~Charges(txn[w].entries[k], c0)
    BY <1>1 DEF DebitInv, BatchInv, DraftsAreDone
  <1> HIDE DEF c0, k0, bill, e
  <1>10. ASSUME NEW k \in Customer, txn'[w].entries[k] # txn[w].entries[k]
         PROVE  /\ ChargedOnce(txn'[w].entries[k])
                /\ \A c : Charges(txn'[w].entries[k], c)
                            => Charges(txn[w].entries[k], c) \/ c = c0
    <2>1. txn'[w].entries[k] = Append(txn[w].entries[k], e)
      BY <1>5, <1>7, <1>10
    <2>2. txn[w].entries[k] \in Seq(Entry)
      BY <1>7
    <2>3. ChargedOnce(txn[w].entries[k])
      BY DEF DebitInv, BatchInv, DraftsChargeOnce
    <2> QED
      BY <2>1, <2>2, <2>3, <1>4, <1>9, ChargesAppend
  <1>11. SleepsClean'
    BY <1>2, <1>5 DEF DebitInv, BatchInv, SleepsClean
  <1>12. LoopTakesOnce'
    <2> SUFFICES ASSUME NEW v \in Worker, NEW c \in Cdr, AtCdr(v, c)'
        PROVE /\ c \notin worker'[v].todo
              /\ worker'[v].pc = "debit" =>
                   txn'[v].rows[c] = worker'[v].quote /\ worker'[v].quote.sell > 0
      BY DEF LoopTakesOnce
    <2>1. v # w
      BY <1>2
    <2> QED
      BY <2>1, <1>2, <1>3, <1>5 DEF DebitInv, BatchInv, LoopTakesOnce
  <1>13. DraftsAreDone'
    <2> SUFFICES ASSUME NEW v \in Worker, NEW k \in Customer, NEW c \in Cdr \cup {Absent},
                        Charges(txn'[v].entries[k], c)
        PROVE /\ c \in Cdr
              /\ txn'[v].rows[c] \in Price /\ txn'[v].rows[c].sell > 0
              /\ c \notin worker'[v].todo
              /\ ~AtCdr(v, c)'
      BY DEF DraftsAreDone
    <2>1. CASE Charges(txn[v].entries[k], c)
      <3>1. /\ c \in Cdr
            /\ txn[v].rows[c] \in Price /\ txn[v].rows[c].sell > 0
            /\ c \notin worker[v].todo
            /\ ~AtCdr(v, c)
        BY <2>1 DEF DebitInv, BatchInv, DraftsAreDone
      <3> QED
        BY <3>1, <1>2, <1>3, <1>5
    <2>2. CASE ~Charges(txn[v].entries[k], c)
      <3>1. v = w
        BY <2>2, <1>5
      <3>2. c = c0
        BY <2>2, <3>1, <1>10
      <3> QED
        BY <3>1, <3>2, <1>1, <1>2, <1>5, <1>8
    <2> QED
      BY <2>1, <2>2
  <1>14. DraftsChargeOnce'
    <2> SUFFICES ASSUME NEW v \in Worker, NEW k \in Customer
        PROVE ChargedOnce(txn'[v].entries[k])
      BY DEF DraftsChargeOnce
    <2>1. ChargedOnce(txn[v].entries[k])
      BY DEF DebitInv, BatchInv, DraftsChargeOnce
    <2>2. CASE v = w
      BY <2>1, <2>2, <1>10
    <2>3. CASE v # w
      BY <2>1, <2>3, <1>5
    <2> QED
      BY <2>2, <2>3
  <1>15. ASSUME LockInv PROVE LockInv'
    <2>1. BatchIsLocked'
      BY <1>2, <1>3, <1>5, <1>6, <1>15 DEF LockInv, BatchIsLocked
    <2>2. LockedIsPending' /\ ChargedIsPriced' /\ NoDoubleDebit'
      BY <1>6, <1>15 DEF LockInv, LockedIsPending, ChargedIsPriced, NoDoubleDebit
    <2> QED
      BY <2>1, <2>2 DEF LockInv
  <1> QED
    BY <1>6, <1>11, <1>12, <1>13, <1>14, <1>15 DEF DebitInv, BatchInv

\* The commit: what the transaction charges was pending under its locks, so
\* that the ledger had not charged it.
LEMMA CommitKeeps ==
  ASSUME TypeOK, DebitInv, NEW w \in Worker, Commit(w)
  PROVE  DebitInv'
  <1>1. /\ RollBack(w)
        /\ worker' = [worker EXCEPT ![w] = Asleep]
        /\ victims' = victims
        /\ cdrs' = [c \in Cdr |-> IF txn[w].rows[c] = NoQuote THEN cdrs[c] ELSE txn[w].rows[c]]
        /\ ledger' = [k \in Customer |-> ledger[k] \o txn[w].entries[k]]
    BY DEF Commit
  <1>2. /\ worker'[w].pc = "sleep" /\ worker'[w].todo = {}
        /\ \A v \in Worker \ {w} : worker'[v] = worker[v]
    BY <1>1 DEF TypeOK, Asleep, At
  <1>3. BatchInv'
    BY <1>1, <1>2, RollBackBatch DEF DebitInv
  <1>4. txn'[w] = NoWrites /\ \A v \in Worker \ {w} : txn'[v] = txn[v]
    BY <1>1 DEF RollBack, TypeOK
  <1>5. ASSUME LockInv PROVE LockInv'
    <2>1. ASSUME NEW c \in Cdr, rowLock[c] # w \/ cdrs[c] # Unrated
          PROVE  cdrs'[c] = cdrs[c]
      <3>1. txn[w].rows[c] = NoQuote
        BY <1>5, <2>1, WrittenIsPending
      <3> QED
        BY <3>1, <1>1
    <2>2. LockedIsPending'
      <3> SUFFICES ASSUME NEW v \in Worker, NEW c \in Cdr, rowLock'[c] = v
          PROVE cdrs'[c] = Unrated
        BY DEF LockedIsPending
      <3>1. v # w /\ rowLock[c] = v
        BY <1>1, UnlockedRows
      <3>2. cdrs'[c] = cdrs[c]
        BY <2>1, <3>1
      <3> QED
        BY <1>5, <3>1, <3>2 DEF LockInv, LockedIsPending
    <2>3. BatchIsLocked'
      BY <1>1, <1>2, <1>4, <1>5, UnlockedRows, NoWritesCharge DEF LockInv, BatchIsLocked, AtCdr
    <2>4. ASSUME NEW k \in Customer, NEW c \in Cdr \cup {Absent}, Charges(ledger[k], c)
          PROVE  c \in Cdr /\ cdrs[c] \in Price \ {Unrated}
      BY <1>5, <2>4 DEF LockInv, ChargedIsPriced
    <2>5. ASSUME NEW k \in Customer, NEW c \in Cdr \cup {Absent}, Charges(txn[w].entries[k], c)
          PROVE  /\ c \in Cdr /\ txn[w].rows[c] \in Price /\ txn[w].rows[c].sell > 0
                 /\ cdrs[c] = Unrated
      <3>1. c \in Cdr /\ txn[w].rows[c] \in Price /\ txn[w].rows[c].sell > 0
        BY <2>5 DEF DebitInv, BatchInv, DraftsAreDone
      <3>2. txn[w].rows[c] # NoQuote
        BY <3>1, QuoteAssumption
      <3> QED
        BY <1>5, <3>1, <3>2, WrittenIsPending
    <2>6. ASSUME NEW k \in Customer
          PROVE  /\ ledger[k] \in Seq(Entry) /\ txn[w].entries[k] \in Seq(Entry)
                 /\ ledger'[k] = ledger[k] \o txn[w].entries[k]
      BY <1>1, RowTypes
    <2>7. ChargedIsPriced'
      <3> SUFFICES ASSUME NEW k \in Customer, NEW c \in Cdr \cup {Absent}, Charges(ledger'[k], c)
          PROVE c \in Cdr /\ cdrs'[c] \in Price \ {Unrated}
        BY DEF ChargedIsPriced
      <3>1. Charges(ledger[k], c) \/ Charges(txn[w].entries[k], c)
        <4>1. /\ ledger[k] \in Seq(Entry) /\ txn[w].entries[k] \in Seq(Entry)
              /\ Charges(ledger[k] \o txn[w].entries[k], c)
          BY <2>6
        <4> QED
          BY <4>1, ChargesConcat
      <3>2. CASE Charges(ledger[k], c)
        <4>1. c \in Cdr /\ cdrs[c] \in Price \ {Unrated}
          BY <2>4, <3>2
        <4>2. cdrs'[c] = cdrs[c]
          BY <2>1, <4>1
        <4> QED
          BY <4>1, <4>2
      <3>3. CASE Charges(txn[w].entries[k], c)
        <4>1. c \in Cdr /\ txn[w].rows[c] \in Price /\ txn[w].rows[c].sell > 0
          BY <2>5, <3>3
        <4>2. cdrs'[c] = txn[w].rows[c]
          BY <1>1, <4>1, QuoteAssumption
        <4>3. txn[w].rows[c] # Unrated
          BY <4>1 DEF Unrated
        <4> QED
          BY <4>1, <4>2, <4>3
      <3> QED
        BY <3>1, <3>2, <3>3
    <2>8. NoDoubleDebit'
      <3> SUFFICES ASSUME NEW k \in Customer PROVE ChargedOnce(ledger'[k])
        BY LedgerOnce
      <3>1. ChargedOnce(ledger[k])
        BY <1>5, LedgerOnce DEF LockInv
      <3>2. ChargedOnce(txn[w].entries[k])
        BY DEF DebitInv, BatchInv, DraftsChargeOnce
      <3>3. \A c \in Cdr \cup {Absent} : ~(Charges(ledger[k], c) /\ Charges(txn[w].entries[k], c))
        BY <2>4, <2>5
      <3> QED
        BY <2>6, <3>1, <3>2, <3>3, OnceConcat
    <2> QED
      BY <2>2, <2>3, <2>7, <2>8 DEF LockInv
  <1> QED
    BY <1>1, <1>3, <1>5 DEF DebitInv

\* A worker that dies, or is a deadlock's victim, leaves nothing behind; a
\* victim goes on without its locks, and is remembered.
LEMMA AbortKeeps ==
  ASSUME TypeOK, DebitInv, NEW w \in Worker,
         Crash(w) \/ DeadlockVictim(w) \/ ScanDeadlockVictim(w)
  PROVE  DebitInv'
  <1>1. CASE Crash(w)
    <2>1. RollBack(w) /\ worker' = [worker EXCEPT ![w] = Asleep]
          /\ UNCHANGED <<cdrs, ledger, victims>>
      BY <1>1 DEF Crash
    <2>2. /\ worker'[w].pc = "sleep" /\ worker'[w].todo = {}
          /\ \A v \in Worker \ {w} : worker'[v] = worker[v]
      BY <2>1 DEF TypeOK, Asleep, At
    <2>3. BatchInv'
      BY <2>1, <2>2, RollBackBatch DEF DebitInv
    <2>4. LockInv => LockInv'
      BY <2>1, <2>2, RollBackLocks
    <2> QED
      BY <2>1, <2>3, <2>4 DEF DebitInv
  <1>2. CASE DeadlockVictim(w) \/ ScanDeadlockVictim(w)
    <2>1. RollBack(w) /\ NextCdr(w) /\ w \in victims'
      BY <1>2 DEF DeadlockVictim, ScanDeadlockVictim, Victim
    <2>2. BatchInv'
      BY <2>1, NextCdrLoop, RollBackBatch DEF DebitInv
    <2> QED
      BY <2>1, <2>2 DEF DebitInv
  <1> QED
    BY <1>1, <1>2

\* The invariant when a statement outside the loops commits by itself: the new
\* row of a ledger, if there is one, charges a CDR that was not in the table.
LEMMA AutocommitKeeps ==
  ASSUME TypeOK, DebitInv, NEW k0 \in Customer, NEW e \in Entry,
         UNCHANGED <<rowLock, worker, txn, victims>>,
         ledger' = ledger \/ ledger' = [ledger EXCEPT ![k0] = Append(@, e)],
         e.type = "cdr" => e.ref \in Cdr /\ cdrs[e.ref] = Absent
                            /\ cdrs'[e.ref] \in Price \ {Unrated},
         \A c \in Cdr : cdrs[c] # Absent => cdrs'[c] = cdrs[c]
  PROVE  DebitInv'
  <1>1. \A v \in Worker, c \in Cdr \cup {Absent} : AtCdr(v, c)' <=> AtCdr(v, c)
    BY DEF AtCdr
  <1>2. BatchInv'
    BY <1>1 DEF DebitInv, BatchInv, SleepsClean, LoopTakesOnce, DraftsAreDone, DraftsChargeOnce
  <1>3. ASSUME LockInv PROVE LockInv'
    <2>1. Absent # Unrated
      BY QuoteAssumption, UnratedIsPrice
    <2>2. LockedIsPending'
      BY <1>3, <2>1 DEF LockInv, LockedIsPending
    <2>3. BatchIsLocked'
      BY <1>1, <1>3 DEF LockInv, BatchIsLocked
    <2>4. ASSUME NEW k \in Customer, ledger'[k] # ledger[k]
          PROVE  ledger[k] \in Seq(Entry) /\ ledger'[k] = Append(ledger[k], e)
      BY <2>4 DEF TypeOK
    <2>5. ASSUME NEW k \in Customer, NEW c \in Cdr \cup {Absent}, Charges(ledger[k], c)
          PROVE  c \in Cdr /\ cdrs[c] \in Price \ {Unrated} /\ cdrs'[c] = cdrs[c]
      <3>1. c \in Cdr /\ cdrs[c] \in Price \ {Unrated}
        BY <1>3, <2>5 DEF LockInv, ChargedIsPriced
      <3> QED
        BY <3>1, QuoteAssumption
    <2>6. ChargedIsPriced'
      <3> SUFFICES ASSUME NEW k \in Customer, NEW c \in Cdr \cup {Absent}, Charges(ledger'[k], c)
          PROVE c \in Cdr /\ cdrs'[c] \in Price \ {Unrated}
        BY DEF ChargedIsPriced
      <3>1. Charges(ledger[k], c) \/ (e.type = "cdr" /\ e.ref = c)
        <4>1. CASE ledger'[k] = ledger[k]
          BY <4>1
        <4>2. CASE ledger'[k] # ledger[k]
          <5>1. ledger[k] \in Seq(Entry) /\ Charges(Append(ledger[k], e), c)
            BY <2>4, <4>2
          <5> QED
            BY <5>1, ChargesAppend
        <4> QED
          BY <4>1, <4>2
      <3> QED
        BY <3>1, <2>5
    <2>7. NoDoubleDebit'
      <3> SUFFICES ASSUME NEW k \in Customer PROVE ChargedOnce(ledger'[k])
        BY LedgerOnce
      <3>1. ChargedOnce(ledger[k])
        BY <1>3, LedgerOnce DEF LockInv
      <3>2. e.type = "cdr" => ~Charges(ledger[k], e.ref)
        BY <2>5, QuoteAssumption
      <3> QED
        BY <2>4, <3>1, <3>2, ChargesAppend
    <2> QED
      BY <2>2, <2>3, <2>6, <2>7 DEF LockInv
  <1> QED
    BY <1>2, <1>3 DEF DebitInv

\* An ingested CDR is new to the table, and is charged only when it gets a price.
LEMMA IngestKeeps ==
  ASSUME TypeOK, DebitInv, NEW c \in Cdr, IngestCdr(c)
  PROVE  DebitInv'
  <1>1. PICK q \in Quote[c] \ {RateError} :
          LET k     == Owner[c]
              price == IF c \in Billable THEN q ELSE Unrated
              bill  == price.sell
          IN  /\ q \in Price /\ price \in Price /\ k \in Customer /\ bill \in Nat
              /\ cdrs' = [cdrs EXCEPT ![c] = price]
              /\ bill = 0 => UNCHANGED <<balance, ledger>>
              /\ bill > 0 => /\ customerLock[k] = Nobody
                             /\ c \notin LongCallId
                             /\ \E taken \in Nearest(bill), e \in Entry :
                                   /\ taken \in Nat
                                   /\ e = CdrEntry(c, bill, balance[k] - taken)
                                   /\ balance' = [balance EXCEPT ![k] = balance[k] - taken]
                                   /\ ledger' = [ledger EXCEPT ![k] = Append(@, e)]
    BY IngestEffect
  <1> DEFINE k == Owner[c]
             price == IF c \in Billable THEN q ELSE Unrated
             bill == price.sell
  <1>2. /\ cdrs[c] = Absent
        /\ UNCHANGED <<rowLock, worker, txn, victims>>
    BY DEF IngestCdr
  <1>3. price \in Price /\ k \in Customer /\ bill \in Nat /\ cdrs' = [cdrs EXCEPT ![c] = price]
    BY <1>1
  <1>4. cdrs'[c] = price /\ \A d \in Cdr : cdrs[d] # Absent => cdrs'[d] = cdrs[d]
    BY <1>2, <1>3 DEF TypeOK
  <1>5. CASE bill > 0
    <2>1. \E taken \in Nearest(bill), e \in Entry :
             /\ e = CdrEntry(c, bill, balance[k] - taken)
             /\ ledger' = [ledger EXCEPT ![k] = Append(@, e)]
      BY <1>1, <1>5
    <2>2. price # Unrated
      BY <1>3, <1>5 DEF Unrated
    <2> HIDE DEF k, bill, price
    <2>3. PICK taken \in Nearest(bill), e \in Entry :
             /\ e = CdrEntry(c, bill, balance[k] - taken)
             /\ ledger' = [ledger EXCEPT ![k] = Append(@, e)]
      BY <2>1
    <2>4. e.ref = c
      BY <2>3 DEF CdrEntry
    <2>5. e.ref \in Cdr /\ cdrs[e.ref] = Absent /\ cdrs'[e.ref] \in Price \ {Unrated}
      BY <1>2, <1>3, <1>4, <2>2, <2>4
    <2> QED
      BY <1>2, <1>3, <1>4, <2>3, <2>5, AutocommitKeeps
  <1>6. CASE bill = 0
    <2> DEFINE any == ManualEntry(0, 0)
    <2>1. any \in Entry /\ any.type # "cdr"
      BY EntryType DEF ManualEntry
    <2>2. ledger' = ledger
      BY <1>1, <1>6
    <2> HIDE DEF k, any
    <2> QED
      BY <1>2, <1>3, <1>4, <2>1, <2>2, AutocommitKeeps
  <1>7. bill = 0 \/ bill > 0
    BY <1>3
  <1> QED
    BY <1>5, <1>6, <1>7

\* A CDR inserted by Kamailio, a pending one that grows old and an adjustment
\* charge no CDR.
LEMMA OthersKeep ==
  ASSUME TypeOK, DebitInv,
         \/ \E c \in Cdr : KamailioInsert(c) \/ Expire(c)
         \/ \E k \in Customer : ApplyBalanceChange(k)
         \/ UNCHANGED vars
  PROVE  DebitInv'
  <1>1. UNCHANGED <<rowLock, worker, txn, victims>>
    BY DEF KamailioInsert, Expire, ApplyBalanceChange, vars
  <1>2. \A c \in Cdr : cdrs[c] # Absent => cdrs'[c] = cdrs[c]
    BY DEF KamailioInsert, Expire, ApplyBalanceChange, vars, TypeOK
  <1>4. CASE \E k \in Customer : ApplyBalanceChange(k)
    <2>1. PICK k \in Customer : ApplyBalanceChange(k)
      BY <1>4
    <2>2. PICK amount \in Adjustment : \E given \in Nearest(amount), e \in Entry :
             /\ e = ManualEntry(amount, balance[k] + given)
             /\ ledger' = [ledger EXCEPT ![k] = Append(@, e)]
      BY <2>1, ApplyEffect
    <2>3. PICK e \in Entry : e.type # "cdr" /\ ledger' = [ledger EXCEPT ![k] = Append(@, e)]
      BY <2>2 DEF ManualEntry
    <2> QED
      BY <1>1, <1>2, <2>3, AutocommitKeeps
  <1>5. CASE ledger' = ledger
    <2>1. BatchInv'
      BY <1>1 DEF DebitInv, BatchInv, SleepsClean, LoopTakesOnce, DraftsAreDone,
                  DraftsChargeOnce, AtCdr
    <2>2. Absent # Unrated
      BY QuoteAssumption, UnratedIsPrice
    <2>3. ASSUME LockInv PROVE LockInv'
      <3>1. LockedIsPending' /\ BatchIsLocked'
        BY <1>1, <1>2, <2>2, <2>3 DEF LockInv, LockedIsPending, BatchIsLocked, AtCdr
      <3>2. ChargedIsPriced'
        BY <1>2, <1>5, <2>3, QuoteAssumption DEF LockInv, ChargedIsPriced
      <3>3. NoDoubleDebit'
        BY <1>5, <2>3 DEF LockInv, NoDoubleDebit
      <3> QED
        BY <3>1, <3>2, <3>3 DEF LockInv
    <2> QED
      BY <1>1, <2>1, <2>3 DEF DebitInv
  <1>6. (\E k \in Customer : ApplyBalanceChange(k)) \/ ledger' = ledger
    BY DEF KamailioInsert, Expire, vars
  <1> QED
    BY <1>4, <1>5, <1>6

\* The inductive invariant holds from the start and every step keeps it.
LEMMA DebitInvariant == Spec => [](TypeOK /\ DebitInv)
<1>1. Init => DebitInv
  <2> SUFFICES ASSUME Init PROVE DebitInv
    OBVIOUS
  <2>1. \A w \in Worker : txn[w] = NoWrites /\ worker[w].pc = "sleep" /\ worker[w].todo = {}
    BY DEF Init, Asleep, At
  <2>2. BatchInv
    BY <2>1, NoWritesCharge DEF BatchInv, SleepsClean, LoopTakesOnce, DraftsAreDone,
                                DraftsChargeOnce, AtCdr
  <2>3. LockedIsPending /\ BatchIsLocked
    BY <2>1, NoWritesCharge, WorkerAssumption DEF LockedIsPending, BatchIsLocked, AtCdr, Init
  <2>4. ChargedIsPriced /\ NoDoubleDebit
    BY NoWritesCharge, LedgerOnce DEF ChargedIsPriced, Init
  <2> QED
    BY <2>2, <2>3, <2>4 DEF DebitInv, LockInv
<1>2. TypeOK /\ DebitInv /\ [Next]_vars => DebitInv'
  <2> SUFFICES ASSUME TypeOK, DebitInv, [Next]_vars PROVE DebitInv'
    OBVIOUS
  <2>1. ASSUME NEW w \in Worker, WorkerStep(w) \/ LockWaitTimeout(w) \/ DeadlockVictim(w)
                                      \/ ScanDeadlockVictim(w) \/ Crash(w)
        PROVE  DebitInv'
    BY <2>1, SelectKeeps, CalcBillKeeps, UpdateCdrKeeps, DebitCustomerKeeps, CommitKeeps,
       LockWaitTimeoutKeeps, AbortKeeps DEF WorkerStep
  <2>2. ASSUME NEW c \in Cdr, IngestCdr(c) PROVE DebitInv'
    BY <2>2, IngestKeeps
  <2> QED
    BY <2>1, <2>2, OthersKeep DEF Next
<1> QED
  BY <1>1, <1>2, TypeCorrect, PTL DEF Spec

\* No call is debited twice by any number of billing loops, ingests, crashes and
\* expired lock waits, as long as no deadlock victim has gone on with its batch.
THEOREM DebitedOnce == Spec => []NoDoubleDebitWithoutVictims
<1>1. DebitInv => NoDoubleDebitWithoutVictims
  BY DEF DebitInv, LockInv, NoDoubleDebitWithoutVictims
<1> QED
  BY <1>1, DebitInvariant, PTL

\* No commit rewrites the prices of a CDR that already had some, as long as no
\* deadlock victim has gone on with its batch.
THEOREM PricesFinal == Spec => PricesAreFinal
<1> DEFINE Kept == \A c \in Cdr : victims = {} /\ cdrs[c] \in Price \ {Unrated}
                                    => cdrs'[c] = cdrs[c]
<1>1. TypeOK /\ DebitInv /\ [Next]_vars => Kept
  <2> SUFFICES ASSUME TypeOK, DebitInv, [Next]_vars, NEW c \in Cdr,
                      victims = {}, cdrs[c] \in Price \ {Unrated}
      PROVE cdrs'[c] = cdrs[c]
    OBVIOUS
  <2>1. CASE \E w \in Worker : Commit(w)
    <3>1. PICK w \in Worker : Commit(w)
      BY <2>1
    <3>2. txn[w].rows[c] = NoQuote
      BY WrittenIsPending DEF DebitInv
    <3> QED
      BY <3>1, <3>2 DEF Commit
  <2>2. CASE \E d \in Cdr : KamailioInsert(d) \/ IngestCdr(d)
    <3>1. PICK d \in Cdr : KamailioInsert(d) \/ IngestCdr(d)
      BY <2>2
    <3>2. cdrs[d] = Absent /\ \E new : cdrs' = [cdrs EXCEPT ![d] = new]
      BY <3>1 DEF KamailioInsert, IngestCdr
    <3> QED
      BY <3>2, QuoteAssumption DEF TypeOK
  <2>3. CASE cdrs' = cdrs
    BY <2>3
  <2>4. \/ \E w \in Worker : Commit(w)
        \/ \E d \in Cdr : KamailioInsert(d) \/ IngestCdr(d)
        \/ cdrs' = cdrs
    BY DEF Next, WorkerStep, Select, CalcBill, UpdateCdr, DebitCustomer, LockWaitTimeout,
           DeadlockVictim, ScanDeadlockVictim, Victim, Crash, Expire, ApplyBalanceChange, vars
  <2> QED
    BY <2>1, <2>2, <2>3, <2>4
<1>2. Spec => [][Kept]_vars
  BY <1>1, DebitInvariant, PTL DEF Spec
<1> QED
  BY <1>2 DEF PricesAreFinal

----------------------------------------------------------------------------
\* What a transaction has priced above zero it has charged at that price, or is
\* about to, or has failed to.
DraftsPriced ==
    \A w \in Worker, c \in Cdr : txn[w].rows[c] # NoQuote /\ txn[w].rows[c].sell > 0 =>
        \/ worker[w].pc = "debit" /\ worker[w].cur = c /\ worker[w].quote = txn[w].rows[c]
        \/ ChargesAmount(txn[w].entries[Owner[c]], c, Stored(-txn[w].rows[c].sell))
        \/ c \in txn[w].raised

PricedInv == DraftsPriced /\ PricedIsDebited

\* PricedIsDebited in terms of ChargesAmount.
LEMMA PricedAmounts ==
  /\ PricedIsDebited <=> \A c \in Cdr \ half : cdrs[c] # Absent /\ cdrs[c].sell > 0 =>
                            ChargesAmount(ledger[Owner[c]], c, Stored(-cdrs[c].sell))
  /\ PricedIsDebited' <=> \A c \in Cdr \ half' : cdrs'[c] # Absent /\ cdrs'[c].sell > 0 =>
                            ChargesAmount(ledger'[Owner[c]], c, Stored(-cdrs'[c].sell))
  BY DEF PricedIsDebited, ChargesAmount

\* One more row keeps what is charged, and charges its own amount.
LEMMA AmountsAppend ==
  ASSUME NEW r \in Seq(Entry), NEW e \in Entry
  PROVE  /\ \A c, amount : ChargesAmount(r, c, amount) => ChargesAmount(Append(r, e), c, amount)
         /\ e.type = "cdr" => ChargesAmount(Append(r, e), e.ref, e.amount)
  <1> DEFINE s == <<e>>
  <1>1. s \in Seq(Entry) /\ Len(s) = 1 /\ s[1] = e
    OBVIOUS
  <1>2. Append(r, e) = r \o s
    OBVIOUS
  <1> HIDE DEF s
  <1>3. ASSUME NEW c, NEW amount, ChargesAmount(r, c, amount) \/ ChargesAmount(s, c, amount)
        PROVE  ChargesAmount(r \o s, c, amount)
    BY <1>1, <1>3, ChargesConcat
  <1>4. e.type = "cdr" => ChargesAmount(s, e.ref, e.amount)
    BY <1>1 DEF ChargesAmount
  <1> QED
    BY <1>2, <1>3, <1>4

\* A transaction that ends, whatever it has committed, leaves the drafts of the
\* others priced.
LEMMA RollBackPriced ==
  ASSUME TypeOK, DraftsPriced, NEW w \in Worker, RollBack(w),
         \A v \in Worker \ {w} : worker'[v] = worker[v]
  PROVE  DraftsPriced'
  <1>1. txn'[w] = NoWrites /\ \A v \in Worker \ {w} : txn'[v] = txn[v]
    BY DEF RollBack, TypeOK
  <1> QED
    BY <1>1, NoWritesCharge DEF DraftsPriced

\* The debit charges the price that the transaction has written.
LEMMA DebitPriced ==
  ASSUME TypeOK, DebitInv, PricedInv, NEW w \in Worker, DebitCustomer(w)
  PROVE  DraftsPriced'
  <1> DEFINE c0 == worker[w].cur
             k0 == Owner[c0]
             bill == worker[w].quote.sell
  <1>0. PICK taken \in Nearest(bill) :
             /\ CdrEntry(c0, bill, balance[k0] - (txn[w].debit[k0] + taken)) \in Entry
             /\ Debited(txn[w], txn'[w], c0, bill, taken)
    BY DebitEffect
  <1> DEFINE e == CdrEntry(c0, bill, balance[k0] - (txn[w].debit[k0] + taken))
  <1>1. /\ c0 \in Cdr /\ k0 \in Customer /\ worker[w].quote \in Price
        /\ worker[w].pc = "debit"
    BY CdrAssumption DEF DebitCustomer, TypeOK
  <1>2. e \in Entry /\ e.type = "cdr" /\ e.ref = c0 /\ e.amount = Stored(-bill)
    BY <1>0 DEF CdrEntry
  <1>3. txn[w].rows[c0] = worker[w].quote
    BY <1>1 DEF DebitInv, BatchInv, LoopTakesOnce, AtCdr
  <1>4. /\ \A v \in Worker \ {w} : txn'[v] = txn[v]
        /\ txn'[w].rows = txn[w].rows
        /\ txn'[w].entries = IF c0 \in LongCallId THEN txn[w].entries
                             ELSE [txn[w].entries EXCEPT ![k0] = Append(@, e)]
        /\ txn[w].raised \subseteq txn'[w].raised
        /\ c0 \in LongCallId => c0 \in txn'[w].raised
    <2>1. \A v \in Worker \ {w} : txn'[v] = txn[v]
      BY DebitEffect
    <2> QED
      BY <1>0, <2>1 DEF Debited
  <1>5. txn[w].entries \in [Customer -> Seq(Entry)]
    BY DEF TypeOK, TxnWrites
  <1>6. \A v \in Worker \ {w} : worker'[v] = worker[v]
    BY DEF DebitCustomer, NextCdr, TypeOK
  <1> HIDE DEF k0, e
  <1>7. ASSUME NEW k \in Customer, NEW c, NEW amount, ChargesAmount(txn[w].entries[k], c, amount)
        PROVE  ChargesAmount(txn'[w].entries[k], c, amount)
    <2>1. CASE k = k0
      BY <2>1, <1>1, <1>2, <1>4, <1>5, <1>7, AmountsAppend
    <2>2. CASE k # k0
      BY <2>2, <1>4, <1>5, <1>7
    <2> QED
      BY <2>1, <2>2
  <1>8. c0 \in txn'[w].raised \/ ChargesAmount(txn'[w].entries[k0], c0, Stored(-bill))
    <2>1. CASE c0 \notin LongCallId
      <3>1. txn'[w].entries[k0] = Append(txn[w].entries[k0], e)
        BY <2>1, <1>1, <1>4, <1>5
      <3>2. txn[w].entries[k0] \in Seq(Entry)
        BY <1>1, <1>5
      <3> QED
        BY <3>1, <3>2, <1>2, AmountsAppend
    <2> QED
      BY <1>4, <2>1
  <1>9. SUFFICES ASSUME NEW v \in Worker, NEW c \in Cdr,
                        txn'[v].rows[c] # NoQuote, txn'[v].rows[c].sell > 0
        PROVE \/ worker'[v].pc = "debit" /\ worker'[v].cur = c /\ worker'[v].quote = txn'[v].rows[c]
              \/ ChargesAmount(txn'[v].entries[Owner[c]], c, Stored(-txn'[v].rows[c].sell))
              \/ c \in txn'[v].raised
    BY DEF DraftsPriced
  <1>10. CASE v # w
    BY <1>4, <1>6, <1>9, <1>10 DEF PricedInv, DraftsPriced
  <1>11. CASE v = w /\ c = c0
    BY <1>3, <1>4, <1>8, <1>11 DEF k0
  <1>12. CASE v = w /\ c # c0
    <2>1. \/ ChargesAmount(txn[w].entries[Owner[c]], c, Stored(-txn[w].rows[c].sell))
          \/ c \in txn[w].raised
      BY <1>4, <1>9, <1>12 DEF PricedInv, DraftsPriced
    <2>2. Owner[c] \in Customer
      BY CdrAssumption
    <2> QED
      BY <2>1, <2>2, <1>4, <1>7, <1>12
  <1> QED
    BY <1>10, <1>11, <1>12

\* A loop that is not at a debit changes no draft by going on.
LEMMA MovePriced ==
  ASSUME TypeOK, DraftsPriced, NEW w \in Worker, worker[w].pc # "debit", txn' = txn,
         \A v \in Worker \ {w} : worker'[v] = worker[v]
  PROVE  DraftsPriced'
  BY DEF DraftsPriced

\* A debit that has not been made, since its lock wait has expired, is known.
LEMMA TimeoutPriced ==
  ASSUME TypeOK, DraftsPriced, NEW w \in Worker, LockWaitTimeout(w)
  PROVE  DraftsPriced'
  <1>1. /\ \A v \in Worker \ {w} : txn'[v] = txn[v] /\ worker'[v] = worker[v]
        /\ txn'[w].rows = txn[w].rows /\ txn'[w].entries = txn[w].entries
        /\ txn'[w].raised = IF worker[w].pc = "debit" THEN txn[w].raised \cup {worker[w].cur}
                            ELSE txn[w].raised
    BY TimeoutEffect DEF LockWaitTimeout, NextCdr, TypeOK
  <1> QED
    BY <1>1 DEF DraftsPriced

\* Writing a price above zero leads to its debit.
LEMMA UpdatePriced ==
  ASSUME TypeOK, DraftsPriced, NEW w \in Worker, UpdateCdr(w)
  PROVE  DraftsPriced'
  <1> DEFINE c0 == worker[w].cur
             q == worker[w].quote
  <1>1. c0 \in Cdr /\ q \in Price /\ worker[w].pc = "update"
    BY DEF UpdateCdr, TypeOK
  <1>2. \A v \in Worker \ {w} : worker'[v] = worker[v] /\ txn'[v] = txn[v]
    BY UpdateEffect DEF UpdateCdr, NextCdr, TypeOK
  <1>3. /\ txn'[w].rows = [txn[w].rows EXCEPT ![c0] = q]
        /\ txn'[w].entries = txn[w].entries /\ txn'[w].raised = txn[w].raised
    BY UpdateEffect
  <1>4. txn[w].rows \in [Cdr -> Price \cup {NoQuote}]
    BY DEF TypeOK, TxnWrites
  <1>5. ASSUME q.sell > 0
        PROVE  worker'[w].pc = "debit" /\ worker'[w].cur = c0 /\ worker'[w].quote = q
    <2>1. worker' = [worker EXCEPT ![w] = At("debit", worker[w].todo, c0, q)]
      BY <1>5 DEF UpdateCdr, OwesDebit
    <2> QED
      BY <2>1 DEF At, TypeOK
  <1> HIDE DEF c0, q
  <1> SUFFICES ASSUME NEW v \in Worker, NEW c \in Cdr,
                      txn'[v].rows[c] # NoQuote, txn'[v].rows[c].sell > 0
      PROVE \/ worker'[v].pc = "debit" /\ worker'[v].cur = c /\ worker'[v].quote = txn'[v].rows[c]
            \/ ChargesAmount(txn'[v].entries[Owner[c]], c, Stored(-txn'[v].rows[c].sell))
            \/ c \in txn'[v].raised
    BY DEF DraftsPriced
  <1>6. CASE v # w
    BY <1>2, <1>6 DEF DraftsPriced
  <1>7. CASE v = w /\ c = c0
    BY <1>1, <1>3, <1>4, <1>5, <1>7
  <1>8. CASE v = w /\ c # c0
    BY <1>1, <1>3, <1>4, <1>8 DEF DraftsPriced
  <1> QED
    BY <1>6, <1>7, <1>8

\* The commit publishes the prices and their debits together.
LEMMA CommitPriced ==
  ASSUME TypeOK, PricedInv, NEW w \in Worker, Commit(w)
  PROVE  PricedIsDebited'
  <1> SUFFICES ASSUME NEW c \in Cdr \ half', cdrs'[c] # Absent, cdrs'[c].sell > 0
      PROVE ChargesAmount(ledger'[Owner[c]], c, Stored(-cdrs'[c].sell))
    BY PricedAmounts
  <1>1. /\ cdrs'[c] = IF txn[w].rows[c] = NoQuote THEN cdrs[c] ELSE txn[w].rows[c]
        /\ worker[w].pc = "batch"
        /\ c \notin half /\ c \notin txn[w].raised
    BY DEF Commit
  <1>2. Owner[c] \in Customer
    BY CdrAssumption
  <1>3. /\ ledger'[Owner[c]] = ledger[Owner[c]] \o txn[w].entries[Owner[c]]
        /\ ledger[Owner[c]] \in Seq(Entry) /\ txn[w].entries[Owner[c]] \in Seq(Entry)
    BY <1>2, RowTypes DEF Commit
  <1>4. \/ ChargesAmount(ledger[Owner[c]], c, Stored(-cdrs'[c].sell))
        \/ ChargesAmount(txn[w].entries[Owner[c]], c, Stored(-cdrs'[c].sell))
    <2>1. CASE txn[w].rows[c] = NoQuote
      BY <1>1, <2>1, PricedAmounts DEF PricedInv
    <2>2. CASE txn[w].rows[c] # NoQuote
      BY <1>1, <2>2 DEF PricedInv, DraftsPriced
    <2> QED
      BY <2>1, <2>2
  <1> DEFINE r == ledger[Owner[c]]
             s == txn[w].entries[Owner[c]]
             amount == Stored(-cdrs'[c].sell)
  <1>5. /\ ledger'[Owner[c]] = r \o s
        /\ r \in Seq(Entry) /\ s \in Seq(Entry)
        /\ ChargesAmount(r, c, amount) \/ ChargesAmount(s, c, amount)
    BY <1>3, <1>4
  <1> HIDE DEF r, s, amount
  <1>6. ChargesAmount(r \o s, c, amount)
    BY <1>5, ChargesConcat
  <1> QED
    BY <1>5, <1>6 DEF amount

\* The ingest writes the price and the debit of its CDR together.
LEMMA IngestPriced ==
  ASSUME TypeOK, PricedInv, NEW c \in Cdr, IngestCdr(c)
  PROVE  PricedIsDebited'
  <1>1. PICK q \in Quote[c] \ {RateError} :
          LET k     == Owner[c]
              price == IF c \in Billable THEN q ELSE Unrated
              bill  == price.sell
          IN  /\ q \in Price /\ price \in Price /\ k \in Customer /\ bill \in Nat
              /\ cdrs' = [cdrs EXCEPT ![c] = price]
              /\ bill = 0 => UNCHANGED <<balance, ledger>>
              /\ bill > 0 => /\ customerLock[k] = Nobody
                             /\ c \notin LongCallId
                             /\ \E taken \in Nearest(bill), e \in Entry :
                                   /\ taken \in Nat
                                   /\ e = CdrEntry(c, bill, balance[k] - taken)
                                   /\ balance' = [balance EXCEPT ![k] = balance[k] - taken]
                                   /\ ledger' = [ledger EXCEPT ![k] = Append(@, e)]
    BY IngestEffect
  <1> DEFINE k == Owner[c]
             price == IF c \in Billable THEN q ELSE Unrated
             bill == price.sell
  <1>2. k \in Customer /\ bill \in Nat /\ ledger[k] \in Seq(Entry)
    BY <1>1 DEF TypeOK
  <1>3. /\ cdrs'[c] = price
        /\ \A d \in Cdr \ {c} : cdrs'[d] = cdrs[d]
        /\ half' = half
    BY <1>1 DEF TypeOK, IngestCdr
  <1>4. \/ bill = 0 /\ ledger' = ledger
        \/ \E e \in Entry : /\ e.type = "cdr" /\ e.ref = c /\ e.amount = Stored(-bill)
                            /\ ledger' = [ledger EXCEPT ![k] = Append(@, e)]
    <2>1. CASE bill > 0
      <3>1. \E taken \in Nearest(bill), e \in Entry :
               /\ e = CdrEntry(c, bill, balance[k] - taken)
               /\ ledger' = [ledger EXCEPT ![k] = Append(@, e)]
        BY <1>1, <2>1
      <3> HIDE DEF k, bill
      <3>2. PICK taken \in Nearest(bill), e \in Entry :
               /\ e = CdrEntry(c, bill, balance[k] - taken)
               /\ ledger' = [ledger EXCEPT ![k] = Append(@, e)]
        BY <3>1
      <3>3. e.type = "cdr" /\ e.ref = c /\ e.amount = Stored(-bill)
        BY <3>2 DEF CdrEntry
      <3> QED
        BY <3>2, <3>3
    <2>2. CASE bill = 0
      BY <1>1, <2>2
    <2>3. bill = 0 \/ bill > 0
      BY <1>2
    <2> QED
      BY <2>1, <2>2, <2>3
  <1>5. cdrs'[c].sell = bill
    BY <1>3
  <1> HIDE DEF k, bill, price
  <1>6. ASSUME NEW j \in Customer, NEW d, NEW amount, ChargesAmount(ledger[j], d, amount)
        PROVE  ChargesAmount(ledger'[j], d, amount)
    <2>1. CASE ledger' = ledger
      BY <2>1, <1>6
    <2>2. CASE \E e \in Entry : ledger' = [ledger EXCEPT ![k] = Append(@, e)]
      <3>1. PICK e \in Entry : ledger' = [ledger EXCEPT ![k] = Append(@, e)]
        BY <2>2
      <3>2. CASE j = k
        <4>1. ledger'[j] = Append(ledger[j], e) /\ ledger[j] \in Seq(Entry)
          BY <3>1, <3>2, <1>2 DEF TypeOK
        <4> QED
          BY <4>1, <1>6, AmountsAppend
      <3>3. CASE j # k
        <4>1. ledger'[j] = ledger[j]
          BY <3>1, <3>3 DEF TypeOK
        <4> QED
          BY <4>1, <1>6
      <3> QED
        BY <3>2, <3>3
    <2> QED
      BY <1>4, <2>1, <2>2
  <1>7. SUFFICES ASSUME NEW d \in Cdr \ half, cdrs'[d] # Absent, cdrs'[d].sell > 0
        PROVE ChargesAmount(ledger'[Owner[d]], d, Stored(-cdrs'[d].sell))
    BY <1>3, PricedAmounts
  <1>8. CASE d = c
    <2>1. bill # 0
      BY <1>2, <1>5, <1>7, <1>8
    <2>2. PICK e \in Entry : /\ e.type = "cdr" /\ e.ref = c /\ e.amount = Stored(-bill)
                             /\ ledger' = [ledger EXCEPT ![k] = Append(@, e)]
      BY <1>4, <2>1
    <2>3. ledger'[k] = Append(ledger[k], e)
      BY <1>2, <2>2 DEF TypeOK
    <2>4. ChargesAmount(ledger'[k], c, Stored(-bill))
      BY <2>2, <2>3, <1>2, AmountsAppend
    <2> QED
      BY <2>4, <1>5, <1>8 DEF k
  <1>9. CASE d # c
    <2>1. ChargesAmount(ledger[Owner[d]], d, Stored(-cdrs[d].sell))
      BY <1>3, <1>7, <1>9, PricedAmounts DEF PricedInv
    <2>2. Owner[d] \in Customer
      BY CdrAssumption
    <2> QED
      BY <2>1, <2>2, <1>3, <1>6, <1>9
  <1> QED
    BY <1>8, <1>9

\* A CDR that shows a sale price has been debited at that price, rounded to the
\* ledger's precision, unless its own debit raised in the transaction that
\* priced it; whatever the crashes, the deadlocks and the victims that go on.
THEOREM PricedCorrect == Spec => []PricedIsDebited
<1>1. Init => PricedInv
  <2> SUFFICES ASSUME Init PROVE PricedInv
    OBVIOUS
  <2>1. DraftsPriced
    BY NoWritesCharge DEF Init, DraftsPriced
  <2>2. PricedIsDebited
    BY DEF Init, PricedIsDebited
  <2> QED
    BY <2>1, <2>2 DEF PricedInv
<1>2. TypeOK /\ DebitInv /\ PricedInv /\ [Next]_vars => PricedInv'
  <2> SUFFICES ASSUME TypeOK, DebitInv, PricedInv, [Next]_vars PROVE PricedInv'
    OBVIOUS
  <2>1. ASSUME UNCHANGED <<cdrs, ledger, half>> PROVE PricedIsDebited'
    BY <2>1 DEF PricedInv, PricedIsDebited
  <2>2. ASSUME UNCHANGED <<worker, txn>> PROVE DraftsPriced'
    BY <2>2 DEF PricedInv, DraftsPriced
  <2>3. ASSUME NEW w \in Worker, Select(w) \/ CalcBill(w) PROVE PricedInv'
    <3>1. /\ worker[w].pc # "debit" /\ txn' = txn /\ UNCHANGED <<cdrs, ledger, half>>
          /\ \A v \in Worker \ {w} : worker'[v] = worker[v]
      BY <2>3 DEF Select, CalcBill, TypeOK
    <3> QED
      BY <2>1, <3>1, MovePriced DEF PricedInv
  <2>4. ASSUME NEW w \in Worker, UpdateCdr(w) PROVE PricedInv'
    <3>1. UNCHANGED <<cdrs, ledger, half>>
      BY <2>4 DEF UpdateCdr
    <3> QED
      BY <2>1, <2>4, <3>1, UpdatePriced DEF PricedInv
  <2>5. ASSUME NEW w \in Worker, DebitCustomer(w) PROVE PricedInv'
    <3>1. UNCHANGED <<cdrs, ledger, half>>
      BY <2>5 DEF DebitCustomer
    <3> QED
      BY <2>1, <2>5, <3>1, DebitPriced DEF PricedInv
  <2>6. ASSUME NEW w \in Worker, Commit(w) PROVE PricedInv'
    <3>1. RollBack(w) /\ \A v \in Worker \ {w} : worker'[v] = worker[v]
      BY <2>6 DEF Commit, TypeOK
    <3> QED
      BY <2>6, <3>1, RollBackPriced, CommitPriced DEF PricedInv
  <2>7. ASSUME NEW w \in Worker, DeadlockVictim(w) \/ ScanDeadlockVictim(w) \/ Crash(w)
        PROVE  PricedInv'
    <3>1. /\ RollBack(w) /\ UNCHANGED <<cdrs, ledger, half>>
          /\ \A v \in Worker \ {w} : worker'[v] = worker[v]
      BY <2>7 DEF DeadlockVictim, ScanDeadlockVictim, Victim, Crash, NextCdr, TypeOK
    <3> QED
      BY <2>1, <3>1, RollBackPriced DEF PricedInv
  <2>8. ASSUME NEW c \in Cdr, IngestCdr(c) PROVE PricedInv'
    <3>1. UNCHANGED <<worker, txn>>
      BY <2>8 DEF IngestCdr
    <3> QED
      BY <2>2, <2>8, <3>1, IngestPriced DEF PricedInv
  <2>9. ASSUME NEW c \in Cdr, KamailioInsert(c) PROVE PricedInv'
    <3>1. UNCHANGED <<worker, txn, ledger, half>> /\ cdrs' = [cdrs EXCEPT ![c] = Unrated]
      BY <2>9 DEF KamailioInsert
    <3>2. PricedIsDebited'
      BY <3>1 DEF PricedInv, PricedIsDebited, Unrated, TypeOK
    <3> QED
      BY <2>2, <3>1, <3>2 DEF PricedInv
  <2>10. ASSUME NEW k \in Customer, ApplyBalanceChange(k) PROVE PricedInv'
    <3>1. UNCHANGED <<worker, txn, cdrs, half>>
      BY <2>10 DEF ApplyBalanceChange
    <3>2. PICK amount \in Adjustment : \E given \in Nearest(amount), e \in Entry :
             ledger' = [ledger EXCEPT ![k] = Append(@, e)]
      BY <2>10, ApplyEffect
    <3>3. PICK e \in Entry : ledger' = [ledger EXCEPT ![k] = Append(@, e)]
      BY <3>2
    <3>4. \A j \in Customer : \A c, amt :
            ChargesAmount(ledger[j], c, amt) => ChargesAmount(ledger'[j], c, amt)
      BY <3>2, <3>3, AmountsAppend DEF TypeOK
    <3>5. PricedIsDebited'
      BY <3>1, <3>4, PricedAmounts, CdrAssumption DEF PricedInv
    <3> QED
      BY <2>2, <3>1, <3>5 DEF PricedInv
  <2>11. ASSUME NEW c \in Cdr, Expire(c) PROVE PricedInv'
    BY <2>1, <2>2, <2>11 DEF Expire, PricedInv
  <2>12. CASE UNCHANGED vars
    BY <2>1, <2>2, <2>12 DEF vars, PricedInv
  <2>13. ASSUME NEW w \in Worker, LockWaitTimeout(w) PROVE PricedInv'
    <3>1. UNCHANGED <<cdrs, ledger, half>>
      BY <2>13 DEF LockWaitTimeout
    <3> QED
      BY <2>1, <2>13, <3>1, TimeoutPriced DEF PricedInv
  <2> QED
    BY <2>3, <2>4, <2>5, <2>6, <2>7, <2>8, <2>9, <2>10, <2>11, <2>12, <2>13
    DEF Next, WorkerStep
<1>3. PricedInv => PricedIsDebited
  BY DEF PricedInv
<1> QED
  BY <1>1, <1>2, <1>3, DebitInvariant, PTL DEF Spec

----------------------------------------------------------------------------
(* Billing implements AtomicBilling.                                       *)

OwnedBy(k) == {c \in Cdr : Owner[c] = k}

\* What a transaction may have taken from its customer's balance for the CDR.
Dues(q, t, c) ==
    IF t.rows[c] = NoQuote \/ (q.pc = "debit" /\ q.cur = c) THEN {0}
    ELSE Nearest(t.rows[c].sell) \cup (IF c \in t.raised THEN {0} ELSE {})

\* What it has taken for each CDR adds up to what it has taken from the balances.
Takes(q, t, taken) ==
    /\ taken \in [Cdr -> Int]
    /\ \A c \in Cdr : taken[c] \in Dues(q, t, c)
    /\ \A k \in Customer : t.debit[k] = SumFunctionOnSet(taken, OwnedBy(k))

Answers(c, price) == c \in Answered /\ price \in Quote[c] \ {RateError}

\* A transaction has written answered CDRs only, each once and with one of its
\* quotes, and has taken from each balance what it has written for it.
Drafted(q, t) ==
    /\ q.todo \subseteq Answered
    /\ q.pc \in {"update", "debit"} => Answers(q.cur, q.quote)
    /\ \A c \in Cdr : t.rows[c] # NoQuote =>
          /\ Answers(c, t.rows[c])
          /\ c \notin q.todo
          /\ ~(q.pc = "update" /\ q.cur = c)
    /\ \A c \in t.raised : t.rows[c] # NoQuote
    /\ \E taken : Takes(q, t, taken)

DraftInv == \A w \in Worker : Drafted(worker[w], txn[w])

LEMMA OwnedFinite == ASSUME NEW k \in Customer PROVE OwnedBy(k) \subseteq Cdr /\ IsFiniteSet(OwnedBy(k))
<1>1. OwnedBy(k) \subseteq Cdr
  BY DEF OwnedBy
<1> QED
  BY <1>1, CdrAssumption, FS_Subset

\* A transaction that has written nothing has taken nothing.
LEMMA NothingDrafted ==
  ASSUME NEW q, q.todo \subseteq Answered, q.pc \in {"sleep", "batch"} PROVE Drafted(q, NoWrites)
<1> DEFINE taken == [c \in Cdr |-> 0]
<1>1. /\ \A c \in Cdr : NoWrites.rows[c] = NoQuote
      /\ NoWrites.raised = {}
      /\ \A k \in Customer : NoWrites.debit[k] = 0
  BY DEF NoWrites, Writes
<1>2. taken \in [Cdr -> Int] /\ \A c \in Cdr : taken[c] = 0
  OBVIOUS
<1> HIDE DEF taken
<1>3. \A c \in Cdr : taken[c] \in Dues(q, NoWrites, c)
  BY <1>1, <1>2 DEF Dues
<1>4. ASSUME NEW k \in Customer PROVE NoWrites.debit[k] = SumFunctionOnSet(taken, OwnedBy(k))
  <2>1. SumFunctionOnSet(taken, OwnedBy(k)) = 0
    BY <1>2, OwnedFinite, SumZero
  <2> QED
    BY <1>1, <2>1
<1>5. Takes(q, NoWrites, taken)
  BY <1>2, <1>3, <1>4 DEF Takes
<1> QED
  BY <1>1, <1>5 DEF Drafted

\* A step of one loop.
LEMMA OneLoop ==
  ASSUME DraftInv, NEW w \in Worker,
         \A v \in Worker \ {w} : worker'[v] = worker[v] /\ txn'[v] = txn[v],
         Drafted(worker'[w], txn'[w])
  PROVE  DraftInv'
<1> SUFFICES ASSUME NEW v \in Worker PROVE Drafted(worker'[v], txn'[v])
  BY DEF DraftInv
<1>1. CASE v = w
  BY <1>1
<1>2. CASE v # w
  <2>1. worker'[v] = worker[v] /\ txn'[v] = txn[v] /\ Drafted(worker[v], txn[v])
    BY <1>2 DEF DraftInv
  <2> QED
    BY <2>1
<1> QED
  BY <1>1, <1>2

LEMMA SelectDraft ==
  ASSUME TypeOK, DebitInv, DraftInv, NEW w \in Worker, Select(w) PROVE DraftInv'
<1>1. PICK rows \in SUBSET {c \in Cdr : Eligible(c) /\ rowLock[c] = Nobody} :
          worker' = [worker EXCEPT ![w] = At("batch", rows, Absent, NoQuote)]
  BY DEF Select
<1>2. /\ worker'[w] = At("batch", rows, Absent, NoQuote)
      /\ \A v \in Worker \ {w} : worker'[v] = worker[v]
      /\ txn' = txn /\ txn[w] = NoWrites
  BY <1>1 DEF Select, TypeOK, DebitInv, BatchInv, SleepsClean
<1>3. worker'[w].todo \subseteq Answered /\ worker'[w].pc = "batch"
  BY <1>2 DEF At, Eligible
<1>4. Drafted(worker'[w], NoWrites)
  BY <1>3, NothingDrafted
<1> QED
  BY <1>2, <1>4, OneLoop

LEMMA CalcBillDraft ==
  ASSUME TypeOK, DraftInv, NEW w \in Worker, CalcBill(w) PROVE DraftInv'
<1>1. PICK c \in worker[w].todo : \E q \in Quote[c] :
          worker' = [worker EXCEPT ![w] = Rated(w, c, q)]
  BY DEF CalcBill
<1> PICK q \in Quote[c] : worker' = [worker EXCEPT ![w] = Rated(w, c, q)]
  BY <1>1
<1>2. /\ worker'[w] = Rated(w, c, q) /\ txn' = txn
      /\ \A v \in Worker \ {w} : worker'[v] = worker[v]
      /\ worker[w].pc = "batch"
  BY DEF TypeOK, CalcBill
<1>3. /\ worker'[w].todo = worker[w].todo \ {c}
      /\ \/ worker'[w].pc = "batch"
         \/ /\ worker'[w].pc = "update" /\ worker'[w].cur = c
            /\ worker'[w].quote = q /\ q # RateError
  BY <1>2 DEF Rated, At
<1>4. Drafted(worker[w], txn[w])
  BY DEF DraftInv
<1>5. Drafted(worker'[w], txn[w])
  <2>1. /\ worker'[w].todo \subseteq Answered
        /\ worker'[w].pc \in {"update", "debit"} => Answers(worker'[w].cur, worker'[w].quote)
    BY <1>3, <1>4 DEF Drafted, Answers
  <2>2. \A d \in Cdr : txn[w].rows[d] # NoQuote =>
          /\ Answers(d, txn[w].rows[d])
          /\ d \notin worker'[w].todo
          /\ ~(worker'[w].pc = "update" /\ worker'[w].cur = d)
    BY <1>3, <1>4 DEF Drafted
  <2>3. \A d \in Cdr : Dues(worker'[w], txn[w], d) = Dues(worker[w], txn[w], d)
    BY <1>2, <1>3 DEF Dues
  <2>4. PICK taken : Takes(worker[w], txn[w], taken)
    BY <1>4 DEF Drafted
  <2>5. Takes(worker'[w], txn[w], taken)
    BY <2>3, <2>4 DEF Takes
  <2> QED
    BY <1>4, <2>1, <2>2, <2>5 DEF Drafted
<1> QED
  BY <1>2, <1>5, OneLoop

\* Nothing is due for a price of nothing.
LEMMA NoDues == 0 \in Nearest(0)
BY DEF Nearest, Close

\* A price written is not yet paid, unless there is nothing to pay.
LEMMA UpdateDraft ==
  ASSUME TypeOK, DebitInv, DraftInv, NEW w \in Worker, UpdateCdr(w) PROVE DraftInv'
<1> DEFINE c0 == worker[w].cur
           price == worker[w].quote
           t == txn[w]
           u == txn'[w]
           q == worker[w]
           r == worker'[w]
<1>1. c0 \in Cdr /\ price \in Price /\ q.pc = "update"
  BY DEF UpdateCdr, TypeOK
<1>2. t \in TxnWrites /\ Drafted(q, t) /\ NoQuote \notin Price
  BY QuoteAssumption DEF TypeOK, DraftInv
<1>3. Answers(c0, price) /\ t.rows[c0] = NoQuote /\ q.todo \subseteq Answered
  BY <1>1, <1>2 DEF Drafted
<1>4. c0 \notin q.todo
  BY <1>1 DEF DebitInv, BatchInv, LoopTakesOnce, AtCdr
<1>5. /\ u.rows = [t.rows EXCEPT ![c0] = price] /\ u.debit = t.debit /\ u.raised = t.raised
      /\ \A v \in Worker \ {w} : txn'[v] = txn[v]
  BY UpdateEffect
<1>6. u.rows[c0] = price /\ \A c \in Cdr \ {c0} : u.rows[c] = t.rows[c]
  <2>1. t.rows \in [Cdr -> Price \cup {NoQuote}]
    BY <1>2 DEF TxnWrites
  <2> QED
    BY <1>1, <1>5, <2>1
<1>7. /\ r.todo = q.todo
      /\ \/ r.pc = "debit" /\ r.cur = c0 /\ r.quote = price
         \/ r.pc = "batch" /\ ~OwesDebit(price)
      /\ \A v \in Worker \ {w} : worker'[v] = worker[v]
  <2>1. CASE OwesDebit(price)
    <3>1. worker' = [worker EXCEPT ![w] = At("debit", q.todo, c0, price)]
      BY <2>1 DEF UpdateCdr
    <3> QED
      BY <3>1 DEF TypeOK, At
  <2>2. CASE ~OwesDebit(price)
    <3>1. NextCdr(w)
      BY <2>2 DEF UpdateCdr
    <3> QED
      BY <2>2, <3>1, NextCdrLoop
  <2> QED
    BY <2>1, <2>2
<1> HIDE DEF c0, price, t, u, q, r
<1>8. PICK taken : Takes(q, t, taken)
  BY <1>2 DEF Drafted
<1>9. ASSUME NEW c \in Cdr PROVE taken[c] \in Dues(r, u, c)
  <2>0. taken[c] \in Dues(q, t, c)
    BY <1>8 DEF Takes
  <2>1. CASE c = c0
    <3>1. taken[c] = 0
      BY <1>3, <2>0, <2>1 DEF Dues
    <3>2. ~OwesDebit(price) => price.sell = 0
      BY <1>1 DEF OwesDebit, Price
    <3> QED
      BY <1>6, <1>7, <2>1, <3>1, <3>2, NoDues DEF Dues
  <2>2. CASE c # c0
    BY <1>1, <1>5, <1>6, <1>7, <2>0, <2>2 DEF Dues
  <2> QED
    BY <2>1, <2>2
<1>10. Takes(r, u, taken)
  BY <1>5, <1>8, <1>9 DEF Takes
<1>11. \A c \in Cdr : u.rows[c] # NoQuote => Answers(c, u.rows[c]) /\ c \notin r.todo
  <2> TAKE c \in Cdr
  <2>1. CASE c = c0
    BY <1>3, <1>4, <1>6, <1>7, <2>1
  <2>2. CASE c # c0
    BY <1>2, <1>6, <1>7, <2>2 DEF Drafted
  <2> QED
    BY <2>1, <2>2
<1>12. \A c \in u.raised : u.rows[c] # NoQuote
  <2>1. t.raised \subseteq Cdr
    BY <1>2 DEF TxnWrites
  <2> QED
    BY <1>1, <1>2, <1>5, <1>6, <2>1 DEF Drafted
<1>13. Drafted(r, u)
  BY <1>3, <1>7, <1>10, <1>11, <1>12 DEF Drafted
<1> QED
  BY <1>5, <1>7, <1>13, OneLoop DEF r, u, t

\* The debit pays for the CDR that the loop is on.
LEMMA DebitDraft ==
  ASSUME TypeOK, DebitInv, DraftInv, NEW w \in Worker, DebitCustomer(w) PROVE DraftInv'
<1> DEFINE c0 == worker[w].cur
           k0 == Owner[c0]
           bill == worker[w].quote.sell
           t == txn[w]
           u == txn'[w]
           q == worker[w]
           r == worker'[w]
<1>1. c0 \in Cdr /\ q.cur = c0 /\ q.quote \in Price /\ q.pc = "debit" /\ k0 \in Customer
  BY CdrAssumption DEF DebitCustomer, TypeOK
<1>2. t \in TxnWrites /\ Drafted(q, t) /\ NoQuote \notin Price
  BY QuoteAssumption DEF TypeOK, DraftInv
<1>3. t.rows[c0] = q.quote /\ bill \in Nat
  <2>1. AtCdr(w, c0)
    BY <1>1 DEF AtCdr
  <2>2. t.rows[c0] = q.quote
    BY <1>1, <2>1 DEF DebitInv, BatchInv, LoopTakesOnce
  <2> QED
    BY <1>1, <2>2 DEF Price
<1>4. PICK paid \in Nearest(bill) : paid \in Nat /\ Debited(t, u, c0, bill, paid)
  BY DebitEffect
<1>5. /\ u.rows = t.rows /\ u.debit = [t.debit EXCEPT ![k0] = @ + paid]
      /\ t.raised \subseteq u.raised /\ u.raised \subseteq t.raised \cup {c0}
      /\ \A v \in Worker \ {w} : txn'[v] = txn[v]
  <2>1. \A v \in Worker \ {w} : txn'[v] = txn[v]
    BY DebitEffect
  <2> QED
    BY <1>4, <2>1 DEF Debited
<1>6. /\ r.todo = q.todo /\ r.pc = "batch"
      /\ \A v \in Worker \ {w} : worker'[v] = worker[v]
  BY NextCdrLoop DEF DebitCustomer
<1>7. t.debit \in [Customer -> Nat]
  BY <1>2 DEF TxnWrites
<1>8. k0 = Owner[c0] /\ q.quote.sell = bill
  OBVIOUS
<1> HIDE DEF c0, k0, t, u, q, r, bill
<1>9. PICK taken : Takes(q, t, taken)
  BY <1>2 DEF Drafted
<1> DEFINE now == [taken EXCEPT ![c0] = paid]
<1>10. /\ taken \in [Cdr -> Int] /\ taken[c0] = 0
       /\ now \in [Cdr -> Int] /\ now[c0] = paid
       /\ \A c \in Cdr \ {c0} : now[c] = taken[c]
  <2>1. taken \in [Cdr -> Int] /\ taken[c0] \in Dues(q, t, c0)
    BY <1>1, <1>9 DEF Takes
  <2> QED
    BY <1>1, <1>4, <2>1 DEF Dues
<1> HIDE DEF now
<1>11. ASSUME NEW c \in Cdr PROVE now[c] \in Dues(r, u, c)
  <2>1. CASE c = c0
    <3>1. u.rows[c0] # NoQuote /\ u.rows[c0].sell = bill
      BY <1>1, <1>2, <1>3, <1>5, <1>8
    <3> QED
      BY <1>4, <1>6, <1>10, <2>1, <3>1 DEF Dues
  <2>2. CASE c # c0
    <3>1. now[c] \in Dues(q, t, c)
      BY <1>9, <1>10, <2>2 DEF Takes
    <3> QED
      BY <1>1, <1>5, <1>6, <2>2, <3>1 DEF Dues
  <2> QED
    BY <2>1, <2>2
<1>12. ASSUME NEW k \in Customer PROVE u.debit[k] = SumFunctionOnSet(now, OwnedBy(k))
  <2> DEFINE S == OwnedBy(k)
             before == SumFunctionOnSet(taken, S)
             after == SumFunctionOnSet(now, S)
             debit == t.debit
  <2>1. S \subseteq Cdr /\ IsFiniteSet(S) /\ (c0 \in S <=> k = k0)
    BY <1>1, <1>8, OwnedFinite DEF OwnedBy
  <2>2. debit[k] = before /\ debit \in [Customer -> Nat] /\ u.debit = [debit EXCEPT ![k0] = @ + paid]
    BY <1>5, <1>7, <1>9 DEF Takes
  <2> HIDE DEF S, debit
  <2>3. after = before + (IF c0 \in S THEN now[c0] - taken[c0] ELSE 0)
    BY <1>10, <2>1, SumChange
  <2>4. after \in Int /\ before \in Int
    BY <1>10, <2>1, SumInt
  <2> HIDE DEF before, after
  <2>5. u.debit[k] = IF k = k0 THEN before + paid ELSE before
    BY <1>1, <2>2
  <2>6. after = IF k = k0 THEN before + paid ELSE before
    BY <1>4, <1>10, <2>1, <2>3, <2>4
  <2> QED
    BY <2>5, <2>6 DEF after, S
<1>13. Takes(r, u, now)
  BY <1>10, <1>11, <1>12 DEF Takes
<1>14. \A c \in u.raised : u.rows[c] # NoQuote
  BY <1>1, <1>2, <1>3, <1>5 DEF Drafted
<1>15. Drafted(r, u)
  BY <1>2, <1>5, <1>6, <1>13, <1>14 DEF Drafted
<1> QED
  BY <1>5, <1>6, <1>15, OneLoop DEF r, u, t

\* A CDR whose debit has not been made raises with nothing taken.
LEMMA TimeoutDraft ==
  ASSUME TypeOK, DebitInv, DraftInv, NEW w \in Worker, LockWaitTimeout(w) PROVE DraftInv'
<1> DEFINE c0 == worker[w].cur
           t == txn[w]
           u == txn'[w]
           q == worker[w]
           r == worker'[w]
<1>1. /\ q.pc \in {"update", "debit"} /\ c0 \in Cdr /\ q.cur = c0
      /\ \A v \in Worker \ {w} : txn'[v] = txn[v]
      /\ u.rows = t.rows /\ u.debit = t.debit
      /\ u.raised = IF q.pc = "debit" THEN t.raised \cup {c0} ELSE t.raised
  BY TimeoutEffect
<1>2. /\ r.todo = q.todo /\ r.pc = "batch"
      /\ \A v \in Worker \ {w} : worker'[v] = worker[v]
  BY NextCdrLoop DEF LockWaitTimeout
<1>3. Drafted(q, t) /\ NoQuote \notin Price
  BY QuoteAssumption DEF DraftInv
<1>4. q.pc = "debit" => t.rows[c0] # NoQuote
  <2> SUFFICES ASSUME q.pc = "debit" PROVE t.rows[c0] # NoQuote
    OBVIOUS
  <2>1. AtCdr(w, c0) /\ q.quote \in Price
    BY <1>1 DEF AtCdr, TypeOK
  <2>2. t.rows[c0] = q.quote
    BY <1>1, <2>1 DEF DebitInv, BatchInv, LoopTakesOnce
  <2> QED
    BY <1>3, <2>1, <2>2
<1> HIDE DEF c0, t, u, q, r
<1>5. PICK taken : Takes(q, t, taken)
  BY <1>3 DEF Drafted
<1>6. ASSUME NEW c \in Cdr PROVE taken[c] \in Dues(r, u, c)
  <2>1. taken[c] \in Dues(q, t, c)
    BY <1>5 DEF Takes
  <2> QED
    BY <1>1, <1>2, <2>1 DEF Dues
<1>7. Takes(r, u, taken)
  BY <1>1, <1>5, <1>6 DEF Takes
<1>8. \A c \in u.raised : u.rows[c] # NoQuote
  BY <1>1, <1>3, <1>4 DEF Drafted
<1>9. Drafted(r, u)
  BY <1>1, <1>2, <1>3, <1>7, <1>8 DEF Drafted
<1> QED
  BY <1>1, <1>2, <1>9, OneLoop DEF r, u, t, q

\* A transaction that ends.
LEMMA EndDraft ==
  ASSUME TypeOK, DraftInv, NEW w \in Worker,
         Commit(w) \/ DeadlockVictim(w) \/ ScanDeadlockVictim(w) \/ Crash(w)
  PROVE  DraftInv'
<1>1. RollBack(w) /\ (worker' = [worker EXCEPT ![w] = Asleep] \/ NextCdr(w))
  BY DEF Commit, DeadlockVictim, ScanDeadlockVictim, Victim, Crash
<1>2. /\ txn'[w] = NoWrites /\ \A v \in Worker \ {w} : txn'[v] = txn[v]
      /\ \A v \in Worker \ {w} : worker'[v] = worker[v]
  BY <1>1 DEF RollBack, NextCdr, TypeOK
<1>3. worker'[w].pc \in {"sleep", "batch"} /\ worker'[w].todo \subseteq Answered
  <2>1. CASE worker' = [worker EXCEPT ![w] = Asleep]
    <3>1. worker'[w] = Asleep
      BY <2>1 DEF TypeOK
    <3> QED
      BY <3>1 DEF Asleep, At
  <2>2. CASE NextCdr(w)
    BY <2>2, NextCdrLoop DEF DraftInv, Drafted
  <2> QED
    BY <1>1, <2>1, <2>2
<1> QED
  BY <1>2, <1>3, NothingDrafted, OneLoop

LEMMA DraftInvariant == Spec => []DraftInv
<1>1. Init => DraftInv
  <2> SUFFICES ASSUME Init PROVE DraftInv
    OBVIOUS
  <2>1. \A w \in Worker : txn[w] = NoWrites /\ worker[w].pc = "sleep" /\ worker[w].todo = {}
    BY DEF Init, Asleep, At
  <2> QED
    BY <2>1, NothingDrafted DEF DraftInv
<1>2. TypeOK /\ DebitInv /\ DraftInv /\ [Next]_vars => DraftInv'
  <2> SUFFICES ASSUME TypeOK, DebitInv, DraftInv, [Next]_vars PROVE DraftInv'
    OBVIOUS
  <2>1. ASSUME UNCHANGED <<worker, txn>> PROVE DraftInv'
    BY <2>1 DEF DraftInv
  <2>2. ASSUME NEW c \in Cdr, KamailioInsert(c) \/ IngestCdr(c) \/ Expire(c) PROVE DraftInv'
    BY <2>1, <2>2 DEF KamailioInsert, IngestCdr, Expire
  <2>3. ASSUME NEW k \in Customer, ApplyBalanceChange(k) PROVE DraftInv'
    BY <2>1, <2>3 DEF ApplyBalanceChange
  <2>4. CASE UNCHANGED vars
    BY <2>1, <2>4 DEF vars
  <2> QED
    BY <2>2, <2>3, <2>4, SelectDraft, CalcBillDraft, UpdateDraft, DebitDraft, TimeoutDraft,
       EndDraft
    DEF Next, WorkerStep
<1> QED
  BY <1>1, <1>2, DebitInvariant, PTL DEF Spec

\* The abstract module's sum is the one of the lemmas.
LEMMA AtomicSum ==
  ASSUME NEW f
  PROVE  Atomic!SumFunction(f) = SumFunctionOnSet(f, DOMAIN f)
BY DEF Atomic!SumFunction, Atomic!SumFunctionOnSet, Atomic!FoldFunctionOnSet, Atomic!MapThenFoldSet,
       SumFunctionOnSet, FoldFunctionOnSet, MapThenFoldSet

\* And so is its rounding.
LEMMA AtomicNearest == \A x : Atomic!Nearest(x) = Nearest(x)
BY DEF Atomic!Nearest, Atomic!Close, Nearest, Close

\* A commit prices and charges every CDR that the transaction has written.
LEMMA CommitIsCharge ==
  ASSUME TypeOK, DebitInv, DraftInv, victims = {}, NEW w \in Worker, Commit(w)
  PROVE  Atomic!Next
<1> DEFINE t == txn[w]
           q == worker[w]
           calls == {c \in Cdr : t.rows[c] # NoQuote}
<1>1. t \in TxnWrites /\ q.pc = "batch" /\ Drafted(q, t)
  BY DEF TypeOK, DraftInv, Commit
<1>2. /\ cdrs' = [c \in Cdr |-> IF t.rows[c] = NoQuote THEN cdrs[c] ELSE t.rows[c]]
      /\ balance' = [k \in Customer |-> balance[k] - t.debit[k]]
      /\ half' = half \cup t.raised
  BY DEF Commit
<1>3. \A c \in calls : cdrs[c] = Unrated
  <2>1. LockInv
    BY DEF DebitInv
  <2> QED
    BY <2>1, WrittenIsPending
<1>4. \A c \in calls : c \in Answered /\ t.rows[c] \in Quote[c] \ {RateError}
  BY <1>1 DEF Drafted, Answers
<1> HIDE DEF t, q
<1>5. \A c \in Cdr : IF c \in calls THEN cdrs'[c] \in Quote[c] \ {RateError}
                                     ELSE cdrs'[c] = cdrs[c]
  BY <1>2, <1>4
<1>6. cdrs' \in [Cdr -> {cdrs[c] : c \in Cdr} \cup UNION {Quote[c] : c \in calls}]
  <2>1. \A c \in Cdr : cdrs'[c] \in {cdrs[d] : d \in Cdr} \cup UNION {Quote[d] : d \in calls}
    BY <1>5
  <2> QED
    BY <1>2, <2>1
<1>7. t.raised \subseteq calls
  <2>1. t.raised \subseteq Cdr
    BY <1>1 DEF TxnWrites
  <2> QED
    BY <1>1, <2>1 DEF Drafted
<1>8. PICK taken : Takes(q, t, taken)
  BY <1>1 DEF Drafted
<1> DEFINE due(c) == Atomic!Due(c, t.raised)
           paid == [c \in calls |-> taken[c]]
<1>9. ASSUME NEW c \in calls PROVE taken[c] \in due(c)
  <2>1. taken[c] \in Dues(q, t, c)
    BY <1>8 DEF Takes
  <2>2. cdrs'[c].sell = t.rows[c].sell
    BY <1>2
  <2> QED
    BY <1>1, <2>1, <2>2, AtomicNearest DEF Dues, Atomic!Due
<1>10. paid \in [calls -> UNION {due(c) : c \in calls}] /\ \A c \in calls : paid[c] \in due(c)
  BY <1>9
<1>11. ASSUME NEW k \in Customer
       PROVE  t.debit[k] = Atomic!SumFunction([c \in {d \in calls : Owner[d] = k} |-> paid[c]])
  <2> DEFINE S == OwnedBy(k)
             A == {d \in calls : Owner[d] = k}
             B == S \ A
             h == [c \in A |-> paid[c]]
  <2>1. A \subseteq Cdr /\ B \subseteq Cdr /\ S = A \cup B /\ A \cap B = {}
    BY DEF OwnedBy
  <2>2. \A c \in A : taken[c] = h[c]
    OBVIOUS
  <2>3. \A c \in B : taken[c] = 0
    <3> TAKE c \in B
    <3>1. c \in Cdr /\ t.rows[c] = NoQuote
      BY DEF OwnedBy
    <3>2. taken[c] \in Dues(q, t, c)
      BY <1>8, <3>1 DEF Takes
    <3> QED
      BY <3>1, <3>2 DEF Dues
  <2>4. \A c \in Cdr : taken[c] \in Int
    BY <1>8 DEF Takes
  <2>5. t.debit[k] = SumFunctionOnSet(taken, S)
    BY <1>8 DEF Takes
  <2>6. DOMAIN h = A
    OBVIOUS
  <2>7. IsFiniteSet(A) /\ IsFiniteSet(B) /\ IsFiniteSet(S)
    BY <2>1, CdrAssumption, OwnedFinite, FS_Subset
  <2> HIDE DEF S, A, B, h
  <2>8. SumFunctionOnSet(taken, S) = SumFunctionOnSet(taken, A) + SumFunctionOnSet(taken, B)
    <3>1. \A x \in S : taken[x] \in Int
      BY <2>1, <2>4
    <3> QED
      BY <2>1, <2>7, <3>1, SumUnion
  <2>9. SumFunctionOnSet(taken, B) = 0
    BY <2>3, <2>7, SumZero
  <2>10. SumFunctionOnSet(taken, A) = SumFunctionOnSet(h, A)
    BY <2>2, <2>7, SumSame
  <2>11. SumFunctionOnSet(taken, A) \in Int
    BY <2>1, <2>4, <2>7, SumInt
  <2>12. t.debit[k] = SumFunctionOnSet(h, A)
    BY <2>5, <2>8, <2>9, <2>10, <2>11
  <2>13. t.debit[k] = Atomic!SumFunction(h)
    BY <2>6, <2>12, AtomicSum
  <2> QED
    BY <2>13 DEF h, A
<1>12. balance' = [k \in Customer |-> balance[k] -
                     Atomic!SumFunction([c \in {d \in calls : Owner[d] = k} |-> paid[c]])]
  BY <1>2, <1>11
<1>13. \A c \in calls : cdrs[c] \in {Absent, Atomic!Unrated}
  BY <1>3 DEF Unrated, Atomic!Unrated
<1>14. calls \in SUBSET Billable
  BY <1>4, CdrAssumption
<1>15. Atomic!Priced(calls)
  BY <1>5, <1>6 DEF Atomic!Priced
<1> HIDE DEF calls, paid, due
<1>16. \E p \in [calls -> UNION {due(c) : c \in calls}] :
          /\ \A c \in calls : p[c] \in due(c)
          /\ balance' = [k \in Customer |-> balance[k] -
                            Atomic!SumFunction([c \in {d \in calls : Owner[d] = k} |-> p[c]])]
  BY <1>10, <1>12
<1>17. Atomic!Charge(calls, t.raised)
  BY <1>2, <1>13, <1>15, <1>16 DEF Atomic!Charge, due
<1> QED
  BY <1>7, <1>14, <1>17 DEF Atomic!Next

\* An ingest records the call or, when it has a price, charges it by itself.
LEMMA IngestIsAtomic ==
  ASSUME TypeOK, NEW c0 \in Cdr, IngestCdr(c0)
  PROVE  Atomic!Next
<1>1. PICK q \in Quote[c0] \ {RateError} :
        LET k     == Owner[c0]
            price == IF c0 \in Billable THEN q ELSE Unrated
            bill  == price.sell
        IN  /\ q \in Price /\ price \in Price /\ k \in Customer /\ bill \in Nat
            /\ cdrs' = [cdrs EXCEPT ![c0] = price]
            /\ bill = 0 => UNCHANGED <<balance, ledger>>
            /\ bill > 0 => /\ customerLock[k] = Nobody
                           /\ c0 \notin LongCallId
                           /\ \E taken \in Nearest(bill), e \in Entry :
                                 /\ taken \in Nat
                                 /\ e = CdrEntry(c0, bill, balance[k] - taken)
                                 /\ balance' = [balance EXCEPT ![k] = balance[k] - taken]
                                 /\ ledger' = [ledger EXCEPT ![k] = Append(@, e)]
  BY IngestEffect
<1> DEFINE k0 == Owner[c0]
<1>2. cdrs[c0] = Absent /\ k0 \in Customer /\ half' = half
  BY <1>1 DEF IngestCdr
<1>3. cdrs \in [Cdr -> Price \cup {Absent}] /\ balance \in [Customer -> Int]
  BY DEF TypeOK
<1>4. CASE c0 \notin Billable
  <2>1. cdrs' = [cdrs EXCEPT ![c0] = Unrated] /\ UNCHANGED balance
    BY <1>1, <1>4 DEF Unrated
  <2>2. Atomic!Record(c0)
    BY <1>2, <2>1 DEF Atomic!Record, Atomic!Unrated, Unrated
  <2> QED
    BY <2>2 DEF Atomic!Next
<1>5. CASE c0 \in Billable
  <2> DEFINE bill == q.sell
             calls == {c0}
  <2>1. cdrs' = [cdrs EXCEPT ![c0] = q] /\ bill \in Nat
    BY <1>1, <1>5
  <2>2. \E taken \in Nearest(bill) :
           taken \in Nat /\ balance' = [balance EXCEPT ![k0] = balance[k0] - taken]
    <3>1. CASE bill > 0
      BY <1>1, <1>5, <3>1
    <3>2. CASE bill = 0
      <4>1. balance' = balance
        BY <1>1, <1>5, <3>2
      <4>2. balance' = [balance EXCEPT ![k0] = balance[k0] - 0]
        BY <1>2, <1>3, <4>1
      <4>3. 0 \in Nearest(bill) /\ 0 \in Nat
        BY <3>2, NoDues
      <4> QED
        BY <4>2, <4>3
    <3>3. bill = 0 \/ bill > 0
      BY <2>1
    <3> QED
      BY <3>1, <3>2, <3>3
  <2> HIDE DEF bill, k0
  <2>3. PICK taken \in Nearest(bill) :
           taken \in Nat /\ balance' = [balance EXCEPT ![k0] = balance[k0] - taken]
    BY <2>2
  <2>4. \A c \in calls : cdrs[c] \in {Absent, Atomic!Unrated}
    BY <1>2
  <2>5. \A c \in Cdr : IF c \in calls THEN cdrs'[c] \in Quote[c] \ {RateError}
                                       ELSE cdrs'[c] = cdrs[c]
    BY <1>3, <2>1
  <2>6. cdrs' \in [Cdr -> {cdrs[c] : c \in Cdr} \cup UNION {Quote[c] : c \in calls}]
    <3>1. \A c \in Cdr : cdrs'[c] \in {cdrs[d] : d \in Cdr} \cup UNION {Quote[d] : d \in calls}
      BY <2>5
    <3> QED
      BY <1>3, <2>1, <3>1
  <2>7. Atomic!Priced(calls)
    BY <2>5, <2>6 DEF Atomic!Priced
  <2> DEFINE due(c) == Atomic!Due(c, {})
             paid == [c \in calls |-> taken]
  <2>8. taken \in due(c0)
    <3>1. cdrs'[c0].sell = bill
      BY <1>3, <2>1 DEF bill
    <3> QED
      BY <2>3, <3>1, AtomicNearest DEF Atomic!Due
  <2>9. /\ paid \in [calls -> UNION {due(c) : c \in calls}]
        /\ \A c \in calls : paid[c] \in due(c)
        /\ paid[c0] = taken
    BY <2>8
  <2>10. c0 \in calls /\ calls = {c0} /\ calls \in SUBSET Billable /\ {} \in SUBSET calls
    BY <1>5
  <2> HIDE DEF calls, due, paid
  <2>11. ASSUME NEW k \in Customer
         PROVE  balance'[k] = balance[k] -
                   Atomic!SumFunction([c \in {d \in calls : Owner[d] = k} |-> paid[c]])
    <3> DEFINE A == {d \in calls : Owner[d] = k}
               h == [c \in A |-> paid[c]]
               sum == SumFunctionOnSet(h, A)
    <3>1. DOMAIN h = A
      OBVIOUS
    <3>2. A = IF k = k0 THEN {c0} ELSE {}
      BY <2>10 DEF k0
    <3>3. k = k0 => h[c0] = taken
      BY <2>9, <3>2
    <3> HIDE DEF A, h
    <3>4. k # k0 => sum = 0
      BY <3>2, SumEmpty
    <3>5. ASSUME k = k0 PROVE sum = taken
      <4>1. A = {c0} /\ IsFiniteSet({c0}) /\ {c0} \ {c0} = {}
        BY <3>2, <3>5, FS_Singleton
      <4>2. \A x \in {c0} : h[x] \in Int
        BY <2>3, <3>3, <3>5
      <4>3. SumFunctionOnSet(h, {c0}) = h[c0] + SumFunctionOnSet(h, {c0} \ {c0})
        BY <4>1, <4>2, SumRemove
      <4>4. SumFunctionOnSet(h, {c0} \ {c0}) = 0
        BY <4>1, SumEmpty
      <4>5. h[c0] = taken /\ taken + 0 = taken
        BY <2>3, <3>3, <3>5
      <4>6. SumFunctionOnSet(h, {c0}) = taken
        BY <4>3, <4>4, <4>5, Zenon
      <4> QED
        BY <4>1, <4>6
    <3>6. sum = Atomic!SumFunction(h)
      BY <3>1, AtomicSum
    <3> HIDE DEF sum
    <3>7. balance'[k] = balance[k] - sum
      BY <1>2, <1>3, <2>3, <3>4, <3>5
    <3>8. balance'[k] = balance[k] - Atomic!SumFunction(h)
      BY <3>6, <3>7
    <3> QED
      BY <3>8 DEF h, A
  <2>12. balance' = [k \in Customer |-> balance[k] -
                       Atomic!SumFunction([c \in {d \in calls : Owner[d] = k} |-> paid[c]])]
    BY <1>3, <2>3, <2>11
  <2>13. \E p \in [calls -> UNION {due(c) : c \in calls}] :
            /\ \A c \in calls : p[c] \in due(c)
            /\ balance' = [k \in Customer |-> balance[k] -
                              Atomic!SumFunction([c \in {d \in calls : Owner[d] = k} |-> p[c]])]
    BY <2>9, <2>12
  <2>14. half' = half \cup {}
    BY <1>2
  <2>15. Atomic!Charge(calls, {})
    BY <2>4, <2>7, <2>13, <2>14 DEF Atomic!Charge, due
  <2> QED
    BY <2>10, <2>15 DEF Atomic!Next
<1> QED
  BY <1>4, <1>5

LEMMA StepIsAtomic ==
  TypeOK /\ DebitInv /\ DraftInv /\ [Next]_vars => [victims # {} \/ Atomic!Next]_Atomic!vars
<1> SUFFICES ASSUME TypeOK, DebitInv, DraftInv, victims = {}, [Next]_vars
             PROVE  [Atomic!Next]_Atomic!vars
  BY DEF Atomic!vars
<1>1. ASSUME UNCHANGED <<cdrs, balance, half>> PROVE [Atomic!Next]_Atomic!vars
  BY <1>1 DEF Atomic!vars
<1>2. ASSUME NEW w \in Worker,
             Select(w) \/ CalcBill(w) \/ UpdateCdr(w) \/ DebitCustomer(w) \/ LockWaitTimeout(w)
               \/ DeadlockVictim(w) \/ ScanDeadlockVictim(w) \/ Crash(w)
      PROVE  [Atomic!Next]_Atomic!vars
  <2>1. UNCHANGED <<cdrs, balance, half>>
    BY <1>2 DEF Select, CalcBill, UpdateCdr, DebitCustomer, LockWaitTimeout, DeadlockVictim,
                ScanDeadlockVictim, Victim, Crash
  <2> QED
    BY <1>1, <2>1
<1>3. ASSUME NEW c \in Cdr, KamailioInsert(c) PROVE [Atomic!Next]_Atomic!vars
  <2>1. Atomic!Record(c)
    BY <1>3 DEF KamailioInsert, Atomic!Record, Atomic!Unrated, Unrated
  <2> QED
    BY <2>1 DEF Atomic!Next
<1>4. ASSUME NEW c \in Cdr, Expire(c) PROVE [Atomic!Next]_Atomic!vars
  BY <1>1, <1>4 DEF Expire
<1>5. ASSUME NEW k \in Customer, ApplyBalanceChange(k) PROVE [Atomic!Next]_Atomic!vars
  <2>1. PICK amount \in Adjustment : \E given \in Nearest(amount) :
            balance' = [balance EXCEPT ![k] = @ + given]
    BY <1>5 DEF ApplyBalanceChange
  <2>2. UNCHANGED <<cdrs, half>>
    BY <1>5 DEF ApplyBalanceChange
  <2>3. Atomic!Adjust(k, amount)
    BY <2>1, <2>2, AtomicNearest DEF Atomic!Adjust
  <2> QED
    BY <2>3 DEF Atomic!Next
<1>6. CASE UNCHANGED vars
  BY <1>1, <1>6 DEF vars
<1> QED
  BY <1>2, <1>3, <1>4, <1>5, <1>6, CommitIsCharge, IngestIsAtomic DEF Next, WorkerStep

\* As long as no deadlock has claimed a victim, the statements of the batches,
\* the waits, those that expire and the crashes between them are invisible:
\* every commit is one charge of whole calls, each by the price it shows from
\* then on rounded to the balance's four decimals (main.py:80-140).
THEOREM BillingIsAtomic == Spec => AtomicSpec
<1>1. Init => Atomic!Init
  BY DEF Init, Atomic!Init
<1> QED
  BY <1>1, StepIsAtomic, DebitInvariant, DraftInvariant, PTL DEF Spec, AtomicSpec
=============================================================================
