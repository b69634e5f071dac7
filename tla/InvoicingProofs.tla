-------------------------- MODULE InvoicingProofs --------------------------
(***************************************************************************)
(* Payments, books and late mails, for any number of requests,             *)
(* invoices and customers, whatever requests are abandoned and whenever    *)
(* the module is reset.                                                    *)
(***************************************************************************)
EXTENDS Invoicing, Sums

\* The shape of the state, as far as the proofs depend on it.  Ids grow, and
\* the rows are those of ids already given.
Shape ==
    /\ consumed \in [Customer -> Nat]
    /\ invoices \in [Id -> Invoices \cup {Absent}]
    /\ issued \in Nat
    /\ \A i \in Id : Exists(i) => i <= issued
    /\ request = [r \in Request |-> request[r]]

\* What an invoice charges is never negative.
LEMMA TaxIsNat ==
    ASSUME NEW n \in Nat, NEW tax \in Int, 10000 * tax - 18 * n \in -5000 .. 5000
    PROVE  tax \in Nat
OBVIOUS

LEMMA TotalIsNat == ASSUME NEW n \in Nat, NEW total \in Totals(n) PROVE total \in Nat
<1>1. ASSUME NEW tax \in Taxes(n) PROVE tax \in Nat
  <2>1. tax \in Int /\ 10000 * tax - 18 * n \in -5000 .. 5000
    BY DEF Taxes
  <2> QED
    BY ONLY n \in Nat, <2>1, TaxIsNat
<1>2. PICK tax \in Taxes(n) : total \in Nearest(n + 100 * tax)
    BY DEF Totals
<1>3. n + 100 * tax \in Nat
    BY <1>1
<1> QED BY <1>2, <1>3, NearestNat

LEMMA ShapeInit == Init => Shape
<1> SUFFICES ASSUME Init PROVE Shape
    OBVIOUS
<1>1. issued \in Nat /\ \A i \in Id : Exists(i) => i <= issued
  <2>1. issued = Legacy /\ \A i \in Id : Exists(i) <=> i <= Legacy
    BY DEF Init
  <2> QED BY <2>1, InvoicingAssumption
<1>2. \A total \in Totals(MaxConsumed) : total \in Nat
    BY InvoicingAssumption, TotalIsNat
<1>3. invoices \in [Id -> Invoices \cup {Absent}]
  <2>1. \A k \in Customer, total \in Totals(MaxConsumed) :
            Invoice(k, total, "paid", FALSE, FALSE) \in Invoices
    BY <1>2 DEF Invoice, Invoices
  <2>2. \A total \in Totals(MaxConsumed) :
            {Invoice(k, total, "paid", FALSE, FALSE) : k \in Customer} \subseteq Invoices
    BY <2>1
  <2>3. invoices \in [Id -> {Absent} \cup
          UNION {{Invoice(k, total, "paid", FALSE, FALSE) : k \in Customer} :
                    total \in Totals(MaxConsumed)}]
    BY DEF Init
  <2>4. UNION {{Invoice(k, total, "paid", FALSE, FALSE) : k \in Customer} :
                  total \in Totals(MaxConsumed)} \subseteq Invoices
    BY <2>2, Zenon
  <2> QED BY <2>3, <2>4
<1>4. /\ consumed \in [Customer -> Nat]
      /\ request = [r \in Request |-> request[r]]
    BY DEF Init
<1> QED BY <1>1, <1>3, <1>4 DEF Shape

\* A request that only moves on.
LEMMA MoveShape ==
    ASSUME Shape, NEW r \in Request, NEW v, request' = [request EXCEPT ![r] = v],
           UNCHANGED <<consumed, invoices, issued, disk>>
    PROVE  Shape'
BY DEF Shape, Exists

LEMMA GenerateShape ==
    ASSUME Shape, NEW r \in Request, Generate(r)
    PROVE  /\ Shape'
           /\ issued' = issued + 1 /\ issued' \in Id /\ ~Exists(issued + 1)
           /\ \E k \in Customer, total \in Nat : invoices' = [invoices EXCEPT
                ![issued + 1] = Invoice(k, total, "draft", FALSE, FALSE)]
<1>1. issued' = issued + 1 /\ issued' \in Id
    BY InvoicingAssumption DEF Generate, Shape, Id
<1>2. ~Exists(issued + 1)
    BY <1>1 DEF Shape, Id
<1>0. PICK k \in Customer : \E total \in Totals(consumed[k]) : invoices' =
          [invoices EXCEPT ![issued + 1] = Invoice(k, total, "draft", FALSE, FALSE)]
    BY <1>1 DEF Generate
<1>3. PICK total \in Totals(consumed[k]) : invoices' =
          [invoices EXCEPT ![issued + 1] = Invoice(k, total, "draft", FALSE, FALSE)]
    BY <1>0
<1>8. total \in Nat
  <2>1. consumed[k] \in Nat
    BY DEF Shape
  <2> QED BY <2>1, TotalIsNat
<1>4. Invoice(k, total, "draft", FALSE, FALSE) \in Invoices
    BY <1>8 DEF Invoice, Invoices
<1>5. invoices' \in [Id -> Invoices \cup {Absent}]
    BY <1>3, <1>4 DEF Shape
<1>6. ASSUME NEW i \in Id, Exists(i)' PROVE i <= issued'
  <2>1. CASE i = issued'
    BY <1>1, <2>1 DEF Shape
  <2>2. CASE i # issued'
    <3>1. invoices'[i] = invoices[i]
      BY <1>1, <1>3, <2>2 DEF Shape
    <3>2. i <= issued
      BY <1>6, <3>1 DEF Shape, Exists
    <3>3. i \in Int /\ issued \in Int
      BY <3>2 DEF Shape, Id
    <3> QED BY <1>1, <3>2, <3>3
  <2> QED BY <2>1, <2>2
<1>7. Shape'
  <2>1. UNCHANGED consumed /\ request' = [s \in Request |-> request'[s]]
    BY DEF Generate, Shape
  <2>2. issued' \in Nat
    BY <1>1 DEF Shape
  <2> QED BY <1>5, <1>6, <2>1, <2>2 DEF Shape
<1> QED BY <1>1, <1>2, <1>3, <1>7, <1>8

\* What a step may do to the row of an invoice that exists: nothing, draw its
\* PDF, mark it as sent, or as paid and credited, or as credited.
Rewritten(i) ==
    /\ Exists(i)'
    /\ invoices'[i].customer = invoices[i].customer
    /\ invoices'[i].total = invoices[i].total
    /\ invoices[i].status = "paid" => invoices'[i].status = "paid"

LEMMA DrawShape ==
    ASSUME Shape, NEW r \in Request, DrawPdf(r), NEW j, j = request[r].id
    PROVE  /\ Shape'
           /\ \A i \in Id : Exists(i) <=> Exists(i)'
           /\ \A i \in Id : Exists(i) =>
                 Rewritten(i) /\ invoices'[i].credited = invoices[i].credited
<1>1. CASE j \in Id /\ Exists(j)
  <2>1. invoices[j] \in Invoices
    BY <1>1 DEF Shape, Exists
  <2>2. invoices' = [invoices EXCEPT ![j].pdf = TRUE]
    BY <1>1 DEF DrawPdf
  <2>3. \A i \in Id : i # j => invoices'[i] = invoices[i]
    BY <2>2 DEF Shape
  <2>4. invoices'[j] = [invoices[j] EXCEPT !.pdf = TRUE]
    BY <1>1, <2>2 DEF Shape
  <2>5. /\ invoices'[j] \in Invoices
        /\ invoices'[j].customer = invoices[j].customer /\ invoices'[j].total = invoices[j].total
        /\ invoices'[j].status = invoices[j].status /\ invoices'[j].credited = invoices[j].credited
    BY <2>1, <2>4 DEF Invoices
  <2>6. invoices' \in [Id -> Invoices \cup {Absent}]
    BY <2>2, <2>3, <2>5 DEF Shape
  <2>7. Exists(j)'
    BY <2>5, InvoicingAssumption DEF Exists
  <2>8. \A i \in Id : Exists(i) <=> Exists(i)'
    BY <1>1, <2>3, <2>7 DEF Exists
  <2>9. \A i \in Id : Exists(i) => Rewritten(i) /\ invoices'[i].credited = invoices[i].credited
    BY <2>3, <2>5, <2>8 DEF Rewritten
  <2>10. UNCHANGED <<consumed, issued>>
         /\ request' = [s \in Request |-> request'[s]]
    BY DEF DrawPdf, Shape
  <2> QED BY <2>6, <2>8, <2>9, <2>10 DEF Shape
<1>2. CASE ~(j \in Id /\ Exists(j))
  <2>1. invoices' = invoices
    BY <1>2 DEF DrawPdf, Shape
  <2>2. UNCHANGED <<consumed, issued>>
         /\ request' = [s \in Request |-> request'[s]]
    BY DEF DrawPdf, Shape
  <2> QED BY <2>1, <2>2 DEF Shape, Exists, Rewritten
<1> QED BY <1>1, <1>2

LEMMA SentShape ==
    ASSUME Shape, NEW r \in Request, EmailSent(r), NEW j, j = request[r].id
    PROVE  /\ Shape'
           /\ \A i \in Id : Exists(i) <=> Exists(i)'
           /\ \A i \in Id : Exists(i) =>
                 Rewritten(i) /\ invoices'[i].credited = invoices[i].credited
<1>0. UNCHANGED <<consumed, issued, disk>> /\ request' = [s \in Request |-> request'[s]]
    BY DEF EmailSent, Shape
<1>1. CASE j \in Id /\ Exists(j)
  <2>1. invoices[j] \in Invoices
    BY <1>1 DEF Shape, Exists
  <2>2. invoices' = [invoices EXCEPT ![j].status = Mailed(@)]
    BY <1>1 DEF EmailSent
  <2>3. \A i \in Id : i # j => invoices'[i] = invoices[i]
    BY <2>2 DEF Shape
  <2>4. invoices'[j] = [invoices[j] EXCEPT !.status = Mailed(@)]
    BY <1>1, <2>2 DEF Shape
  <2>5. /\ invoices'[j] \in Invoices
        /\ invoices'[j].customer = invoices[j].customer /\ invoices'[j].total = invoices[j].total
        /\ invoices[j].status = "paid" => invoices'[j].status = "paid"
        /\ invoices'[j].credited = invoices[j].credited
    BY <2>1, <2>4 DEF Invoices, Mailed
  <2>6. invoices' \in [Id -> Invoices \cup {Absent}]
    BY <2>2, <2>3, <2>5 DEF Shape
  <2>7. Exists(j)'
    BY <2>5, InvoicingAssumption DEF Exists
  <2>8. \A i \in Id : Exists(i) <=> Exists(i)'
    BY <1>1, <2>3, <2>7 DEF Exists
  <2>9. \A i \in Id : Exists(i) => Rewritten(i) /\ invoices'[i].credited = invoices[i].credited
    BY <2>3, <2>5, <2>8 DEF Rewritten
  <2> QED BY <1>0, <2>6, <2>8, <2>9 DEF Shape
<1>2. CASE ~(j \in Id /\ Exists(j))
  <2>1. invoices' = invoices
    BY <1>2 DEF EmailSent, Shape
  <2> QED BY <1>0, <2>1 DEF Shape, Exists, Rewritten
<1> QED BY <1>1, <1>2

LEMMA PayShape ==
    ASSUME Shape, NEW r \in Request, PayCommit(r), NEW j, j = request[r].id
    PROVE  /\ Shape'
           /\ \A i \in Id : Exists(i) <=> Exists(i)'
           /\ \A i \in Id : Exists(i) => Rewritten(i)
           /\ \A i \in Id : Exists(i) =>
                 invoices'[i].credited = (IF i = j THEN TRUE ELSE invoices[i].credited)
<1>0. UNCHANGED <<consumed, issued, disk>> /\ request' = [s \in Request |-> request'[s]]
    BY DEF PayCommit, Shape
<1>1. CASE j \in Id /\ Exists(j)
  <2>1. invoices[j] \in Invoices
    BY <1>1 DEF Shape, Exists
  <2>2. invoices' = [invoices EXCEPT ![j].status = "paid", ![j].credited = TRUE]
    BY <1>1 DEF PayCommit
  <2>3. \A i \in Id : i # j => invoices'[i] = invoices[i]
    BY <2>2 DEF Shape
  <2>4. invoices'[j] = [invoices[j] EXCEPT !.status = "paid", !.credited = TRUE]
    BY <1>1, <2>2 DEF Shape
  <2>5. /\ invoices'[j] \in Invoices
        /\ invoices'[j].customer = invoices[j].customer /\ invoices'[j].total = invoices[j].total
        /\ invoices'[j].status = "paid" /\ invoices'[j].credited = TRUE
    BY <2>1, <2>4 DEF Invoices
  <2>6. invoices' \in [Id -> Invoices \cup {Absent}]
    BY <2>2, <2>3, <2>5 DEF Shape
  <2>7. Exists(j)'
    BY <2>5, InvoicingAssumption DEF Exists
  <2>8. \A i \in Id : Exists(i) <=> Exists(i)'
    BY <1>1, <2>3, <2>7 DEF Exists
  <2>9. \A i \in Id : Exists(i) => Rewritten(i)
    BY <2>3, <2>5, <2>8 DEF Rewritten
  <2>10. Shape'
    BY <1>0, <2>6, <2>8 DEF Shape
  <2> QED BY <2>3, <2>5, <2>8, <2>9, <2>10
<1>2. CASE ~(j \in Id /\ Exists(j))
  <2>1. invoices' = invoices
    BY <1>2 DEF PayCommit, Shape
  <2>2. \A i \in Id : Exists(i) => i # j
    BY <1>2
  <2> QED BY <1>0, <2>1, <2>2 DEF Shape, Exists, Rewritten
<1> QED BY <1>1, <1>2

LEMMA FilledShape ==
    ASSUME Shape, NEW r \in Request, BackfillCommit(r)
    PROVE  /\ Shape'
           /\ \A i \in Id : Exists(i) <=> Exists(i)'
           /\ \A i \in Id : Exists(i) => Rewritten(i)
           /\ \A i \in Id : Exists(i) => invoices'[i].credited =
                 (IF i \in DOMAIN request[r].list THEN TRUE ELSE invoices[i].credited)
<1>0. UNCHANGED <<consumed, issued, disk>> /\ request' = [s \in Request |-> request'[s]]
    BY DEF BackfillCommit, Shape
<1>1. invoices' = [i \in Id |-> IF i \in DOMAIN request[r].list /\ Exists(i)
                                  THEN [invoices[i] EXCEPT !.credited = TRUE]
                                  ELSE invoices[i]]
    BY DEF BackfillCommit
<1>2. ASSUME NEW i \in Id, Exists(i)
      PROVE  /\ invoices'[i] \in Invoices
             /\ Rewritten(i)
             /\ invoices'[i].credited =
                  (IF i \in DOMAIN request[r].list THEN TRUE ELSE invoices[i].credited)
  <2>1. invoices[i] \in Invoices
    BY <1>2 DEF Shape, Exists
  <2>2. CASE i \in DOMAIN request[r].list
    <3>1. invoices'[i] = [invoices[i] EXCEPT !.credited = TRUE]
      BY <1>1, <1>2, <2>2
    <3>2. /\ invoices'[i] \in Invoices
          /\ invoices'[i].customer = invoices[i].customer /\ invoices'[i].total = invoices[i].total
          /\ invoices'[i].status = invoices[i].status /\ invoices'[i].credited = TRUE
      BY <2>1, <3>1 DEF Invoices
    <3>3. Exists(i)'
      BY <3>2, InvoicingAssumption DEF Exists
    <3> QED BY <2>2, <3>2, <3>3 DEF Rewritten
  <2>3. CASE i \notin DOMAIN request[r].list
    BY <1>1, <1>2, <2>1, <2>3 DEF Rewritten, Exists
  <2> QED BY <2>2, <2>3
<1>3. \A i \in Id : ~Exists(i) => invoices'[i] = Absent
    BY <1>1 DEF Exists
<1>4. \A i \in Id : Exists(i) <=> Exists(i)'
    BY <1>2, <1>3 DEF Rewritten, Exists
<1>5. invoices' \in [Id -> Invoices \cup {Absent}]
    BY <1>1, <1>2, <1>3
<1>6. Shape'
    BY <1>0, <1>4, <1>5 DEF Shape
<1> QED BY <1>2, <1>4, <1>6

LEMMA AroundShape ==
    ASSUME Shape, NEW k \in Customer, Consume(k) \/ Adjust(k) PROVE Shape'
<1>1. consumed' \in [Customer -> Nat]
    BY InvoicingAssumption DEF Shape, Consume, Adjust
<1> QED BY <1>1 DEF Shape, Consume, Adjust, Exists

LEMMA ResetShape ==
    ASSUME Shape, ResetBackup \/ ResetUnlink \/ ResetCommit \/ ResetFails PROVE Shape'
<1>1. CASE ResetCommit
    BY <1>1 DEF ResetCommit, Shape, Exists
<1>2. CASE ResetBackup \/ ResetUnlink \/ ResetFails
    BY <1>2 DEF ResetBackup, ResetUnlink, ResetFails, Shape, Exists
<1> QED BY <1>1, <1>2

\* The requests' steps that write no row.
Moves(r) ==
    \/ ReadId(r) \/ RegenPdf(r) \/ SendEmail(r) \/ MarkPaid(r) \/ Backfill(r) \/ GiveUp(r)

LEMMA MovesMove ==
    ASSUME NEW r \in Request, Moves(r)
    PROVE  /\ \E v : request' = [request EXCEPT ![r] = v]
           /\ UNCHANGED <<consumed, balance, postings, credits, invoices, issued, disk, reset>>
<1>1. CASE ReadId(r)
    BY <1>1 DEF ReadId
<1>2. CASE RegenPdf(r)
    BY <1>2 DEF RegenPdf
<1>3. CASE SendEmail(r)
    BY <1>3 DEF SendEmail
<1>4. CASE MarkPaid(r)
    BY <1>4 DEF MarkPaid
<1>5. CASE Backfill(r)
    BY <1>5 DEF Backfill
<1>6. CASE GiveUp(r)
    BY <1>6 DEF GiveUp
<1> QED BY <1>1, <1>2, <1>3, <1>4, <1>5, <1>6 DEF Moves

LEMMA ShapeNext == ASSUME Shape, [Next]_vars PROVE Shape'
<1>1. CASE UNCHANGED vars
    BY <1>1 DEF vars, Shape, Exists
<1>2. ASSUME NEW r \in Request, Moves(r) PROVE Shape'
    BY <1>2, MovesMove, MoveShape
<1>3. ASSUME NEW r \in Request, RequestStep(r) PROVE Shape'
    BY <1>2, <1>3, GenerateShape, DrawShape, SentShape, PayShape, FilledShape
    DEF RequestStep, Moves
<1> QED BY <1>1, <1>3, AroundShape, ResetShape DEF Next

\* A step deletes the row of a paid invoice, or leaves it paid.
LEMMA PaidStep ==
    ASSUME Shape, [Next]_vars, NEW i \in Id, Exists(i), invoices[i].status = "paid"
    PROVE  invoices'[i] = Absent \/ invoices'[i].status = "paid"
<1>1. CASE UNCHANGED invoices
    BY <1>1
<1>2. ASSUME NEW r \in Request, Moves(r) PROVE UNCHANGED invoices
    BY <1>2, MovesMove
<1>3. ASSUME NEW r \in Request, Generate(r) PROVE invoices'[i] = invoices[i]
    BY <1>3, GenerateShape DEF Shape
<1>4. ASSUME NEW r \in Request, DrawPdf(r) \/ EmailSent(r) \/ PayCommit(r) \/ BackfillCommit(r)
      PROVE  Rewritten(i)
    BY <1>4, DrawShape, SentShape, PayShape, FilledShape
<1>5. ASSUME NEW r \in Request, RequestStep(r)
      PROVE  invoices'[i] = Absent \/ invoices'[i].status = "paid"
    BY <1>1, <1>2, <1>3, <1>4, <1>5 DEF RequestStep, Moves, Rewritten
<1>6. ASSUME NEW k \in Customer, Consume(k) \/ Adjust(k) PROVE UNCHANGED invoices
    BY <1>6 DEF Consume, Adjust
<1>7. CASE ResetCommit
    BY <1>7 DEF ResetCommit
<1>8. CASE ResetBackup \/ ResetUnlink \/ ResetFails
    BY <1>1, <1>8 DEF ResetBackup, ResetUnlink, ResetFails
<1> QED BY <1>1, <1>5, <1>6, <1>7, <1>8 DEF Next, vars

\* A paid invoice stays paid until it is deleted, however late a mail is
\* answered or a script commits (invoices.py:201).
THEOREM PaidForGood == Spec => PaidStaysPaid
<1>1. Shape /\ [Next]_vars => Shape'
    BY ShapeNext
<1>2. Shape /\ [Next]_vars =>
         [\A i \in Id : Exists(i) /\ invoices[i].status = "paid"
             => invoices'[i] = Absent \/ invoices'[i].status = "paid"]_vars
    BY PaidStep
<1> QED BY ShapeInit, <1>1, <1>2, PTL DEF Spec, PaidStaysPaid

----------------------------------------------------------------------------
LEMMA AtFields ==
    ASSUME NEW pc, NEW id, NEW from, NEW list
    PROVE  /\ At(pc, id, from, list).pc = pc /\ At(pc, id, from, list).id = id
           /\ At(pc, id, from, list).from = from /\ At(pc, id, from, list).list = list
BY DEF At

\* The other requests stay where they are.
LEMMA OthersStay ==
    ASSUME Shape, NEW r \in Request, NEW v, request' = [request EXCEPT ![r] = v]
    PROVE  /\ request'[r] = v
           /\ \A s \in Request : s # r => request'[s] = request[s]
BY DEF Shape

----------------------------------------------------------------------------
(* Payments.                                                               *)

\* The rows of a ledger that credit an invoice.
Naming(s, i) == {n \in 1 .. Len(s) : s[n].ref = i}

LEMMA NamingAppend ==
    ASSUME NEW s \in Seq(Credits), NEW row \in Credits, NEW i
    PROVE  /\ Append(s, row) \in Seq(Credits)
           /\ row.ref # i => Naming(Append(s, row), i) = Naming(s, i)
           /\ row.ref = i /\ Naming(s, i) = {} => Naming(Append(s, row), i) = {Len(s) + 1}
           /\ Append(s, row)[Len(s) + 1] = row
           /\ \A n \in 1 .. Len(s) : Append(s, row)[n] = s[n]
<1> DEFINE t == Append(s, row)
<1>1. /\ t \in Seq(Credits) /\ Len(t) = Len(s) + 1 /\ t[Len(s) + 1] = row
      /\ \A n \in 1 .. Len(s) : t[n] = s[n]
    OBVIOUS
<1>2. Len(s) \in Nat
    OBVIOUS
<1> HIDE DEF t
<1>3. 1 .. Len(t) = (1 .. Len(s)) \cup {Len(s) + 1}
    BY <1>1, <1>2
<1>4. ASSUME row.ref # i PROVE Naming(t, i) = Naming(s, i)
    BY <1>1, <1>3, <1>4 DEF Naming
<1>5. ASSUME row.ref = i, Naming(s, i) = {} PROVE Naming(t, i) = {Len(s) + 1}
    BY <1>1, <1>3, <1>5 DEF Naming
<1> QED BY <1>1, <1>4, <1>5 DEF t

LEMMA NamingConcat ==
    ASSUME NEW s \in Seq(Credits), NEW t \in Seq(Credits), NEW i
    PROVE  /\ s \o t \in Seq(Credits)
           /\ Naming(t, i) = {} => Naming(s \o t, i) = Naming(s, i)
           /\ \A m : Naming(s, i) = {} /\ Naming(t, i) = {m} =>
                 Naming(s \o t, i) = {Len(s) + m} /\ (s \o t)[Len(s) + m] = t[m]
           /\ \A n \in 1 .. Len(s) : (s \o t)[n] = s[n]
<1> DEFINE u == s \o t
<1>1. /\ u \in Seq(Credits) /\ Len(u) = Len(s) + Len(t)
      /\ \A n \in 1 .. Len(s) : u[n] = s[n]
      /\ \A m \in 1 .. Len(t) : u[Len(s) + m] = t[m]
    OBVIOUS
<1>2. Len(s) \in Nat /\ Len(t) \in Nat
    OBVIOUS
<1> HIDE DEF u
<1>3. ASSUME NEW n \in 1 .. Len(u)
      PROVE  n \in 1 .. Len(s) \/ (n - Len(s) \in 1 .. Len(t) /\ u[n] = t[n - Len(s)])
  <2>1. CASE n <= Len(s)
    BY <1>2, <2>1
  <2>2. CASE n > Len(s)
    <3>1. n - Len(s) \in 1 .. Len(t) /\ Len(s) + (n - Len(s)) = n
      BY <1>1, <1>2, <2>2
    <3> QED BY <1>1, <3>1
  <2> QED BY <1>1, <1>2, <2>1, <2>2
<1>4. 1 .. Len(s) \subseteq 1 .. Len(u)
    BY <1>1, <1>2
<1>5. ASSUME Naming(t, i) = {} PROVE Naming(u, i) = Naming(s, i)
  <2>1. \A m \in 1 .. Len(t) : t[m].ref # i
    BY <1>5 DEF Naming
  <2>2. \A n \in 1 .. Len(u) : u[n].ref = i => n \in 1 .. Len(s)
    BY <1>3, <2>1
  <2>3. \A n \in 1 .. Len(s) : n \in 1 .. Len(u) /\ u[n] = s[n]
    BY <1>1, <1>4
  <2> QED BY <2>2, <2>3 DEF Naming
<1>6. ASSUME NEW m, Naming(s, i) = {}, Naming(t, i) = {m}
      PROVE  Naming(u, i) = {Len(s) + m} /\ u[Len(s) + m] = t[m]
  <2>1. m \in 1 .. Len(t) /\ t[m].ref = i
    BY <1>6 DEF Naming
  <2>2. Len(s) + m \in 1 .. Len(u) /\ u[Len(s) + m] = t[m]
    BY <1>1, <1>2, <2>1
  <2>3. ASSUME NEW n \in 1 .. Len(u), u[n].ref = i PROVE n = Len(s) + m
    <3>1. n \notin 1 .. Len(s)
      BY <1>1, <1>6, <2>3 DEF Naming
    <3>2. n - Len(s) \in 1 .. Len(t) /\ t[n - Len(s)].ref = i
      BY <1>3, <2>3, <3>1
    <3>3. n - Len(s) = m
      BY <1>6, <3>2 DEF Naming
    <3> QED BY <1>2, <2>1, <3>3
  <2> QED BY <2>1, <2>2, <2>3 DEF Naming
<1> QED BY <1>1, <1>5, <1>6 DEF u

\* A sequence of a finite set has each of its members once.
LEMMA SeqOfSet ==
    ASSUME NEW S, IsFiniteSet(S)
    PROVE  /\ SetToSeq(S) \in Seq(S)
           /\ \A x \in S : \E n \in 1 .. Len(SetToSeq(S)) : SetToSeq(S)[n] = x
           /\ \A m, n \in 1 .. Len(SetToSeq(S)) : SetToSeq(S)[m] = SetToSeq(S)[n] => m = n
<1> DEFINE N == Cardinality(S)
           f == SetToSeq(S)
<1>1. N \in Nat /\ ExistsBijection(1 .. N, S)
    BY FS_CardinalityType
<1>2. \E g \in [1 .. N -> S] : IsInjective(g)
    BY <1>1 DEF ExistsBijection, Bijection, Injection
<1>3. f \in [1 .. N -> S] /\ IsInjective(f)
    BY <1>2 DEF SetToSeq
<1>4. f \in Injection(1 .. N, S)
    BY <1>3 DEF Injection
<1>5. Cardinality(1 .. N) = N
    BY <1>1, FS_Interval
<1> HIDE DEF f
<1>6. f \in Surjection(1 .. N, S)
    BY <1>4, <1>5, FS_Injection
<1>7. f \in Seq(S) /\ Len(f) = N
    BY <1>1, <1>3
<1> QED BY <1>3, <1>6, <1>7 DEF f, Surjection, IsInjective

\* What a request that pays has read of the invoice is still so, if it is there.
Paying ==
    \A r \in Request : request[r].pc = "paying" =>
        /\ request[r].id \in Id /\ request[r].id <= issued
        /\ request[r].from \in Invoices
        /\ Exists(request[r].id) =>
              /\ invoices[request[r].id].customer = request[r].from.customer
              /\ invoices[request[r].id].total = request[r].from.total

\* The script runs alone, so that what it has listed is still so.
Listed(i, inv) ==
    /\ i \in Id /\ Exists(i) /\ ~invoices[i].credited
    /\ invoices[i].customer = inv.customer /\ invoices[i].total = inv.total

Filling ==
    \A r \in Request : request[r].pc = "filling" =>
        /\ reset = NoReset
        /\ \A s \in Request : request[s].pc \in {"paying", "filling"} => s = r
        /\ \A i \in DOMAIN request[r].list : Listed(i, request[r].list[i])

PaidInv ==
    /\ Shape
    /\ credits \in [Customer -> Seq(Credits)]
    /\ PaidOnce
    /\ Paying
    /\ Filling

LEMMA PaidInit == Init => PaidInv
<1> SUFFICES ASSUME Init PROVE PaidInv
    OBVIOUS
<1>1. \A r \in Request : request[r].pc = "idle"
    BY AtFields DEF Init, Idle
<1>2. Paying /\ Filling
    BY <1>1 DEF Paying, Filling
<1>3. credits = [k \in Customer |-> <<>>]
    BY DEF Init
<1>4. credits \in [Customer -> Seq(Credits)]
    BY <1>3
<1>5. \A k \in Customer : \A i \in Id : RowsOf(k, i) = {}
    BY <1>3 DEF RowsOf
<1>6. \A i \in Id : Exists(i) => invoices[i].credited = FALSE
  <2>1. \A k, total : Invoice(k, total, "paid", FALSE, FALSE).credited = FALSE
    BY DEF Invoice
  <2>2. invoices \in [Id -> {Absent} \cup
          UNION {{Invoice(k, total, "paid", FALSE, FALSE) : k \in Customer} :
                    total \in Totals(MaxConsumed)}]
    BY DEF Init
  <2>3. \A x \in UNION {{Invoice(k, total, "paid", FALSE, FALSE) : k \in Customer} :
                           total \in Totals(MaxConsumed)} : x.credited = FALSE
    BY <2>1, Zenon
  <2> DEFINE legacy == UNION {{Invoice(k, total, "paid", FALSE, FALSE) : k \in Customer} :
                                 total \in Totals(MaxConsumed)}
  <2> HIDE DEF legacy
  <2>4. invoices \in [Id -> {Absent} \cup legacy] /\ \A x \in legacy : x.credited = FALSE
    BY <2>2, <2>3 DEF legacy
  <2> QED BY <2>4 DEF Exists
<1>7. PaidOnce
    BY <1>5, <1>6 DEF PaidOnce
<1> QED BY <1>2, <1>4, <1>7, ShapeInit DEF PaidInv

\* The invoices that there are keep what a payment depends on.
Same ==
    \A i \in Id :
        /\ Exists(i) <=> Exists(i)'
        /\ Exists(i) => /\ invoices'[i].customer = invoices[i].customer
                        /\ invoices'[i].total = invoices[i].total
                        /\ invoices'[i].credited = invoices[i].credited

LEMMA OnceSame == ASSUME PaidOnce, Same, UNCHANGED credits PROVE PaidOnce'
<1>1. ASSUME NEW i \in Id, NEW k \in Customer
      PROVE  /\ RowsOf(k, i)' = RowsOf(k, i)
             /\ (Exists(i) /\ invoices[i].credited /\ invoices[i].customer = k)'
                   <=> (Exists(i) /\ invoices[i].credited /\ invoices[i].customer = k)
             /\ Exists(i) => invoices'[i].total = invoices[i].total
    BY DEF RowsOf, Same
<1> QED BY <1>1 DEF PaidOnce

\* A request that does not come to pay leaves those that do where they are.
LEMMA PayingStays ==
    ASSUME Shape, Shape', Paying, NEW r \in Request, NEW v,
           request' = [request EXCEPT ![r] = v], v.pc # "paying", issued <= issued',
           \A i \in Id : i <= issued /\ Exists(i)' =>
               /\ Exists(i)
               /\ invoices'[i].customer = invoices[i].customer
               /\ invoices'[i].total = invoices[i].total
    PROVE  Paying'
<1> SUFFICES ASSUME NEW s \in Request, request'[s].pc = "paying"
             PROVE  (/\ request[s].id \in Id /\ request[s].id <= issued
                     /\ request[s].from \in Invoices
                     /\ Exists(request[s].id) =>
                           /\ invoices[request[s].id].customer = request[s].from.customer
                           /\ invoices[request[s].id].total = request[s].from.total)'
    BY DEF Paying
<1>1. s # r /\ request'[s] = request[s]
    BY OthersStay
<1>2. /\ request[s].id \in Id /\ request[s].id <= issued
      /\ request[s].from \in Invoices
      /\ Exists(request[s].id) =>
            /\ invoices[request[s].id].customer = request[s].from.customer
            /\ invoices[request[s].id].total = request[s].from.total
    BY <1>1 DEF Paying
<1>3. request[s].id <= issued'
    BY <1>2 DEF Shape, Id
<1>4. Exists(request[s].id)' => Exists(request[s].id)
    BY <1>1, <1>2 DEF Exists
<1> QED BY <1>1, <1>2, <1>3, <1>4 DEF Exists

LEMMA FillingStays ==
    ASSUME Shape, Filling, NEW r \in Request, NEW v,
           request' = [request EXCEPT ![r] = v], v.pc \notin {"paying", "filling"},
           UNCHANGED reset,
           \A i \in Id : Exists(i) =>
               /\ Exists(i)'
               /\ invoices'[i].customer = invoices[i].customer
               /\ invoices'[i].total = invoices[i].total
               /\ invoices'[i].credited = invoices[i].credited
    PROVE  Filling'
<1> SUFFICES ASSUME NEW s \in Request, request'[s].pc = "filling"
             PROVE  /\ reset' = NoReset
                    /\ \A q \in Request : request'[q].pc \in {"paying", "filling"} => q = s
                    /\ \A i \in DOMAIN request'[s].list : Listed(i, request[s].list[i])'
    BY DEF Filling
<1>1. s # r /\ request'[s] = request[s]
    BY OthersStay
<1>2. \A q \in Request : request'[q].pc \in {"paying", "filling"} =>
          request[q].pc \in {"paying", "filling"}
    BY OthersStay
<1>3. /\ reset = NoReset
      /\ \A q \in Request : request[q].pc \in {"paying", "filling"} => q = s
      /\ \A i \in DOMAIN request[s].list : Listed(i, request[s].list[i])
    BY <1>1 DEF Filling
<1>4. \A i \in DOMAIN request'[s].list : Listed(i, request[s].list[i])'
    BY <1>1, <1>3 DEF Listed
<1> QED BY <1>2, <1>3, <1>4

\* While nothing is listed there is nothing to keep.
LEMMA FillingNone ==
    ASSUME \A s \in Request : request'[s].pc # "filling" PROVE Filling'
BY DEF Filling

\* A request that goes somewhere else than to pay or to fill, with the rows and
\* the ledger as they are.
LEMMA QuietPaid ==
    ASSUME PaidInv, Shape', NEW r \in Request, NEW v,
           request' = [request EXCEPT ![r] = v], v.pc \notin {"paying", "filling"},
           UNCHANGED <<credits, issued, reset>>, Same
    PROVE  PaidInv'
<1>1. issued <= issued'
    BY DEF PaidInv, Shape
<1>2. Paying'
    BY <1>1, PayingStays DEF PaidInv, Same
<1>3. Filling'
    BY FillingStays DEF PaidInv, Same
<1>4. PaidOnce'
    BY OnceSame DEF PaidInv
<1> QED BY <1>2, <1>3, <1>4 DEF PaidInv

LEMMA GeneratePaid == ASSUME PaidInv, NEW r \in Request, Generate(r) PROVE PaidInv'
<1>1. Shape
    BY DEF PaidInv
<1>2. PICK k \in Customer, total \in Nat : invoices' =
          [invoices EXCEPT ![issued + 1] = Invoice(k, total, "draft", FALSE, FALSE)]
    BY <1>1, GenerateShape
<1>3. Shape' /\ issued' = issued + 1 /\ issued + 1 \in Id /\ ~Exists(issued + 1)
    BY <1>1, GenerateShape
<1>4. \A i \in Id : i # issued + 1 => invoices'[i] = invoices[i]
    BY <1>1, <1>2 DEF Shape
<1>5. invoices'[issued + 1].credited = FALSE
    BY <1>1, <1>2, <1>3 DEF Shape, Invoice
<1>6. PICK v : request' = [request EXCEPT ![r] = v] /\ v.pc = "naming"
  <2>1. request' = [request EXCEPT ![r] = At("naming", issued', Absent, NoList)]
    BY DEF Generate
  <2>2. At("naming", issued', Absent, NoList).pc = "naming"
    BY AtFields
  <2> QED BY <2>1, <2>2
<1>7. issued <= issued' /\ \A i \in Id : i <= issued => i # issued + 1
    BY <1>1, <1>3 DEF Shape, Id
<1>8. Paying'
    BY <1>1, <1>3, <1>4, <1>6, <1>7, PayingStays DEF PaidInv, Exists
<1>9. \A i \in Id : Exists(i) => i # issued + 1
    BY <1>3
<1>10. Filling'
  <2>1. \A i \in Id : Exists(i) => Exists(i)' /\ invoices'[i] = invoices[i]
    BY <1>4, <1>9 DEF Exists
  <2>2. UNCHANGED reset /\ Filling
    BY DEF Generate, PaidInv
  <2>3. v.pc \notin {"paying", "filling"}
    BY <1>6
  <2> QED BY <1>1, <1>6, <2>1, <2>2, <2>3, FillingStays
<1>11. UNCHANGED credits
    BY DEF Generate
<1>12. PaidOnce'
  <2>1. ASSUME NEW i \in Id, NEW c \in Customer
        PROVE  /\ RowsOf(c, i)' = RowsOf(c, i)
               /\ (Exists(i) /\ invoices[i].credited /\ invoices[i].customer = c)'
                     <=> (Exists(i) /\ invoices[i].credited /\ invoices[i].customer = c)
               /\ Exists(i) => invoices'[i].total = invoices[i].total
    <3>1. RowsOf(c, i)' = RowsOf(c, i)
      BY <1>11 DEF RowsOf
    <3>2. CASE i = issued + 1
      BY <1>3, <1>5, <3>1, <3>2
    <3>3. CASE i # issued + 1
      BY <1>4, <3>1, <3>3 DEF Exists
    <3> QED BY <3>2, <3>3
  <2>2. PaidOnce
    BY DEF PaidInv
  <2> QED BY <1>11, <2>1, <2>2 DEF PaidOnce
<1> QED BY <1>3, <1>8, <1>10, <1>11, <1>12 DEF PaidInv

\* mark_paid reads while the script is not running, and reads what is there.
LEMMA MarkPaidInv ==
    ASSUME ~LiveBackfill, PaidInv, NEW r \in Request, MarkPaid(r) PROVE PaidInv'
<1>1. Shape
    BY DEF PaidInv
<1>2. PICK j \in Id :
          Exists(j) /\ request' = [request EXCEPT ![r] = At("paying", j, invoices[j], NoList)]
    BY DEF MarkPaid
<1>3. UNCHANGED <<consumed, balance, postings, credits, invoices, issued, disk, reset>>
    BY DEF MarkPaid
<1>4. Shape'
    BY <1>1, <1>2, <1>3, MoveShape
<1>5. \A s \in Request : request[s].pc # "filling"
    BY DEF MarkPaid, InFlight
<1>6. /\ request'[r].pc = "paying" /\ request'[r].id = j /\ request'[r].from = invoices[j]
      /\ \A s \in Request : s # r => request'[s] = request[s]
  <2> DEFINE v == At("paying", j, invoices[j], NoList)
  <2>1. v.pc = "paying" /\ v.id = j /\ v.from = invoices[j]
    BY AtFields
  <2> HIDE DEF v
  <2>2. request'[r] = v /\ \A s \in Request : s # r => request'[s] = request[s]
    BY <1>1, <1>2, OthersStay DEF v
  <2> QED BY <2>1, <2>2
<1>7. Filling'
    BY <1>5, <1>6, FillingNone
<1>8. Paying'
  <2>1. j <= issued /\ invoices[j] \in Invoices
    BY <1>1, <1>2 DEF Shape, Exists
  <2> QED BY <1>2, <1>3, <1>6, <2>1 DEF PaidInv, Paying, Exists
<1>9. PaidOnce'
    BY <1>3, OnceSame DEF PaidInv, Same, Exists
<1> QED BY <1>3, <1>4, <1>7, <1>8, <1>9 DEF PaidInv

LEMMA BackfillPaid ==
    ASSUME ~LiveBackfill, PaidInv, NEW r \in Request, Backfill(r) PROVE PaidInv'
<1> DEFINE pending == {i \in Id : Exists(i) /\ invoices[i].status = "paid" /\ ~invoices[i].credited}
<1>1. Shape
    BY DEF PaidInv
<1>2. PICK list :
      /\ list = [i \in pending |-> invoices[i]]
      /\ request' = [request EXCEPT ![r] = At("filling", Absent, Absent, list)]
      /\ UNCHANGED <<consumed, balance, postings, credits, invoices, issued, disk, reset>>
    BY DEF Backfill
<1>3. reset = NoReset /\ \A s \in Request : request[s].pc \notin {"paying", "filling"}
    BY DEF Backfill, InFlight
<1>4. \A i \in DOMAIN list : Listed(i, list[i])
    BY <1>2 DEF Listed
<1>5. Shape'
    BY <1>1, <1>2, MoveShape
<1>6. /\ request'[r].pc = "filling" /\ request'[r].list = list
      /\ \A s \in Request : s # r => request'[s] = request[s]
  <2> DEFINE v == At("filling", Absent, Absent, list)
  <2>1. v.pc = "filling" /\ v.list = list
    BY AtFields
  <2> HIDE DEF v
  <2>2. request'[r] = v /\ \A s \in Request : s # r => request'[s] = request[s]
    BY <1>1, <1>2, OthersStay DEF v
  <2> QED BY <2>1, <2>2
<1>7. Paying'
    BY <1>3, <1>6 DEF Paying
<1>8. \A i \in DOMAIN list : Listed(i, list[i])'
    BY <1>2, <1>4 DEF Listed, Exists
<1>9. Filling'
    BY <1>2, <1>3, <1>6, <1>8 DEF Filling
<1>10. PaidOnce'
    BY <1>2, OnceSame DEF PaidInv, Same, Exists
<1> QED BY <1>2, <1>5, <1>7, <1>9, <1>10 DEF PaidInv

\* An adjustment adds a row that credits no invoice.
LEMMA AdjustPaid == ASSUME PaidInv, NEW k \in Customer, Adjust(k) PROVE PaidInv'
<1>1. PICK amount \in TopUp :
          credits' = [credits EXCEPT ![k] = Append(credits[k], Credit(Absent, amount))]
    BY DEF Adjust
<1> DEFINE row == Credit(Absent, amount)
<1>2. row \in Credits /\ row.ref = Absent
    BY InvoicingAssumption DEF Credit, Credits
<1>3. UNCHANGED <<consumed, invoices, issued, disk, request, reset>>
    BY DEF Adjust
<1>4. credits \in [Customer -> Seq(Credits)]
    BY DEF PaidInv
<1> HIDE DEF row
<1>5. /\ credits' \in [Customer -> Seq(Credits)]
      /\ \A c \in Customer : credits'[c] = IF c = k THEN Append(credits[k], row) ELSE credits[c]
  <2>1. Append(credits[k], row) \in Seq(Credits)
    BY <1>2, <1>4
  <2> QED BY <1>1, <1>4, <2>1 DEF row
<1>6. ASSUME NEW i \in Id, NEW c \in Customer
      PROVE  /\ RowsOf(c, i)' = RowsOf(c, i)
             /\ \A n \in 1 .. Len(credits[c]) :
                    n \in 1 .. Len(credits'[c]) /\ credits'[c][n] = credits[c][n]
  <2>1. CASE c = k
    <3>1. row.ref # i
      BY <1>2, InvoicingAssumption
    <3>2. credits[k] \in Seq(Credits) /\ credits'[k] = Append(credits[k], row)
      BY <1>4, <1>5
    <3>3. Naming(credits'[k], i) = Naming(credits[k], i)
      BY <1>2, <3>1, <3>2, NamingAppend
    <3>4. \A n \in 1 .. Len(credits[k]) :
              n \in 1 .. Len(credits'[k]) /\ credits'[k][n] = credits[k][n]
      BY <1>2, <3>2
    <3> QED BY <2>1, <3>3, <3>4 DEF Naming, RowsOf
  <2>2. CASE c # k
    BY <1>5, <2>2 DEF RowsOf
  <2> QED BY <2>1, <2>2
<1>7. PaidOnce'
  <2>1. PaidOnce
    BY DEF PaidInv
  <2>2. ASSUME NEW i \in Id, NEW c \in Customer
        PROVE  IF Exists(i)' /\ invoices'[i].credited /\ invoices'[i].customer = c
                 THEN \E n \in 1 .. Len(credits'[c]) :
                         RowsOf(c, i)' = {n} /\ credits'[c][n].amount = invoices'[i].total
                 ELSE RowsOf(c, i)' = {}
    <3>1. invoices'[i] = invoices[i] /\ (Exists(i)' <=> Exists(i))
      BY <1>3 DEF Exists
    <3>2. CASE Exists(i) /\ invoices[i].credited /\ invoices[i].customer = c
      <4>1. PICK n \in 1 .. Len(credits[c]) :
                RowsOf(c, i) = {n} /\ credits[c][n].amount = invoices[i].total
        BY <2>1, <3>2 DEF PaidOnce
      <4> QED BY <1>6, <3>1, <3>2, <4>1
    <3>3. CASE ~(Exists(i) /\ invoices[i].credited /\ invoices[i].customer = c)
      BY <1>6, <2>1, <3>1, <3>3 DEF PaidOnce
    <3> QED BY <3>2, <3>3
  <2> QED BY <2>2 DEF PaidOnce
<1>8. Shape' /\ Paying' /\ Filling'
    BY <1>3 DEF PaidInv, Shape, Paying, Filling, Listed, Exists
<1> QED BY <1>5, <1>7, <1>8 DEF PaidInv

LEMMA ResetPaid ==
    ASSUME ~LiveBackfill, PaidInv, ResetBackup \/ ResetUnlink \/ ResetCommit \/ ResetFails
    PROVE  PaidInv'
<1>1. \A s \in Request : request[s].pc # "filling"
  <2>1. CASE ResetBackup
    BY <2>1 DEF ResetBackup, InFlight
  <2>2. CASE ResetUnlink \/ ResetCommit \/ ResetFails
    <3>1. NoReset.pc = "idle"
      BY DEF NoReset, Reset
    <3>2. reset # NoReset
      BY <2>2, <3>1 DEF ResetUnlink, ResetCommit, ResetFails
    <3> QED BY <3>2 DEF PaidInv, Filling
  <2> QED BY <2>1, <2>2
<1>2. UNCHANGED request
    BY DEF ResetBackup, ResetUnlink, ResetCommit, ResetFails
<1>3. Filling'
    BY <1>1, <1>2, FillingNone
<1>4. Shape'
    BY ResetShape DEF PaidInv
<1>5. CASE ResetBackup \/ ResetUnlink \/ ResetFails
  <2>1. UNCHANGED <<credits, invoices, issued, request>>
    BY <1>5 DEF ResetBackup, ResetUnlink, ResetFails
  <2>2. PaidOnce'
    BY <2>1, OnceSame DEF PaidInv, Same, Exists
  <2>3. Paying'
    BY <2>1 DEF PaidInv, Paying, Exists
  <2> QED BY <1>3, <1>4, <2>1, <2>2, <2>3 DEF PaidInv
<1>6. CASE ResetCommit
  <2>1. /\ credits' = [k \in Customer |-> <<>>]
        /\ invoices' = [i \in Id |-> Absent] /\ UNCHANGED <<issued, request>>
    BY <1>6 DEF ResetCommit
  <2>2. \A i \in Id : ~Exists(i)'
    BY <2>1 DEF Exists
  <2>3. \A k \in Customer : \A i \in Id : RowsOf(k, i)' = {}
    BY <2>1 DEF RowsOf
  <2>4. PaidOnce'
    BY <2>2, <2>3 DEF PaidOnce
  <2>5. Paying'
    BY <2>1, <2>2 DEF PaidInv, Paying
  <2> QED BY <1>3, <1>4, <2>1, <2>4, <2>5 DEF PaidInv
<1> QED BY <1>5, <1>6

\* The requests other than the one that has paid or filled do neither at the
\* same time as a script: nothing listed is disturbed.
LEMMA AlonePaid ==
    ASSUME Shape, Filling, NEW r \in Request, request[r].pc \in {"paying", "filling"},
           request' = [request EXCEPT ![r] = Idle]
    PROVE  Filling'
<1>1. Idle.pc = "idle"
    BY AtFields DEF Idle
<1>2. request'[r] = Idle /\ \A s \in Request : s # r => request'[s] = request[s]
    BY OthersStay
<1>3. \A s \in Request : s # r => request[s].pc # "filling"
    BY DEF Filling
<1> QED BY <1>1, <1>2, <1>3, FillingNone

\* The UPDATE that finds the invoice not credited is the only one that adds a
\* row for it; the others find it credited, or gone, and add none.
LEMMA PayPaid == ASSUME PaidInv, NEW r \in Request, PayCommit(r) PROVE PaidInv'
<1> DEFINE inv == request[r].from
<1>1. Shape /\ PaidOnce /\ credits \in [Customer -> Seq(Credits)]
    BY DEF PaidInv
<1>2. request[r].pc = "paying" /\ request' = [request EXCEPT ![r] = Idle] /\ issued' = issued
    BY DEF PayCommit
<1>3. PICK j \in Id :
      /\ j = request[r].id /\ inv \in Invoices
      /\ Exists(j) => invoices[j].customer = inv.customer /\ invoices[j].total = inv.total
    BY <1>2 DEF PaidInv, Paying
<1>4. /\ Shape'
      /\ \A i \in Id : Exists(i) <=> Exists(i)'
      /\ \A i \in Id : Exists(i) => Rewritten(i)
      /\ \A i \in Id : Exists(i) =>
            invoices'[i].credited = (IF i = j THEN TRUE ELSE invoices[i].credited)
    BY <1>1, <1>3, PayShape
<1>5. Filling'
    BY <1>1, <1>2, AlonePaid DEF PaidInv
<1>6. Paying'
  <2>1. Idle.pc # "paying" /\ issued <= issued'
    BY <1>1, <1>2, AtFields DEF Idle, Shape
  <2> QED BY <1>1, <1>2, <1>4, <2>1, PayingStays DEF PaidInv, Rewritten
<1>7. CASE ~Gate(j, inv)
  <2>1. UNCHANGED credits
    BY <1>3, <1>7 DEF PayCommit
  <2>2. Exists(j) => invoices[j].credited
    BY <1>7 DEF Gate
  <2>3. \A i \in Id : Exists(i) => invoices[i].credited \in BOOLEAN
    BY <1>1 DEF Shape, Exists, Invoices
  <2>4. Same
    BY <1>4, <2>2, <2>3 DEF Same, Rewritten
  <2>5. PaidOnce'
    BY <1>1, <2>1, <2>4, OnceSame
  <2> QED BY <1>1, <1>4, <1>5, <1>6, <2>1, <2>5 DEF PaidInv
<1>8. CASE Gate(j, inv)
  <2> DEFINE k == inv.customer
             row == Credit(j, inv.total)
  <2>1. k \in Customer /\ row \in Credits /\ row.ref = j /\ row.amount = inv.total
    BY <1>3 DEF Invoices, Credit, Credits
  <2>2. credits' = [credits EXCEPT ![k] = Append(@, row)]
    BY <1>3, <1>8 DEF PayCommit
  <2>3. Exists(j) /\ ~invoices[j].credited
    BY <1>8 DEF Gate
  <2>4. \A c \in Customer : RowsOf(c, j) = {}
    BY <1>1, <2>3 DEF PaidOnce
  <2> HIDE DEF row, k
  <2>5. /\ credits' \in [Customer -> Seq(Credits)]
        /\ credits'[k] = Append(credits[k], row)
        /\ \A c \in Customer : c # k => credits'[c] = credits[c]
    BY <1>1, <2>1, <2>2
  <2>6. credits[k] \in Seq(Credits)
    BY <1>1, <2>1
  <2>7. ASSUME NEW i \in Id, NEW c \in Customer
        PROVE  IF Exists(i)' /\ invoices'[i].credited /\ invoices'[i].customer = c
                 THEN \E n \in 1 .. Len(credits'[c]) :
                         RowsOf(c, i)' = {n} /\ credits'[c][n].amount = invoices'[i].total
                 ELSE RowsOf(c, i)' = {}
    <3>1. CASE i = j /\ c = k
      <4>1. Naming(credits[k], j) = {}
        BY <2>1, <2>4 DEF Naming, RowsOf
      <4>2. /\ Naming(credits'[k], j) = {Len(credits[k]) + 1}
            /\ credits'[k][Len(credits[k]) + 1] = row
        <5>1. /\ Naming(Append(credits[k], row), j) = {Len(credits[k]) + 1}
              /\ Append(credits[k], row)[Len(credits[k]) + 1] = row
          BY <2>1, <2>6, <4>1, NamingAppend
        <5> QED BY <2>5, <5>1
      <4>3. Len(credits[k]) + 1 \in 1 .. Len(credits'[k])
        BY <4>2 DEF Naming
      <4>4. /\ Exists(j)' /\ invoices'[j].credited /\ invoices'[j].customer = k
            /\ invoices'[j].total = row.amount
        BY <1>3, <1>4, <2>1, <2>3 DEF Rewritten, k
      <4> QED BY <3>1, <4>2, <4>3, <4>4 DEF Naming, RowsOf
    <3>2. CASE i = j /\ c # k
      <4>1. RowsOf(c, i)' = {}
        BY <2>4, <2>5, <3>2 DEF RowsOf
      <4>2. invoices'[i].customer # c
        BY <1>3, <1>4, <2>3, <3>2 DEF Rewritten, k
      <4> QED BY <4>1, <4>2
    <3>3. CASE i # j
      <4>1. /\ RowsOf(c, i)' = RowsOf(c, i)
            /\ \A n \in 1 .. Len(credits[c]) :
                  n \in 1 .. Len(credits'[c]) /\ credits'[c][n] = credits[c][n]
        <5>1. CASE c = k
          <6>1. Naming(credits'[k], i) = Naming(credits[k], i)
            BY <2>1, <2>5, <2>6, <3>3, NamingAppend
          <6>2. \A n \in 1 .. Len(credits[k]) :
                    n \in 1 .. Len(credits'[k]) /\ credits'[k][n] = credits[k][n]
            BY <2>1, <2>5, <2>6
          <6> QED BY <5>1, <6>1, <6>2 DEF Naming, RowsOf
        <5>2. CASE c # k
          BY <2>5, <5>2 DEF RowsOf
        <5> QED BY <5>1, <5>2
      <4>2. /\ Exists(i)' <=> Exists(i)
            /\ Exists(i) => /\ invoices'[i].credited = invoices[i].credited
                            /\ invoices'[i].customer = invoices[i].customer
                            /\ invoices'[i].total = invoices[i].total
        BY <1>4, <3>3 DEF Rewritten
      <4>3. CASE Exists(i) /\ invoices[i].credited /\ invoices[i].customer = c
        <5>1. PICK n \in 1 .. Len(credits[c]) :
                  RowsOf(c, i) = {n} /\ credits[c][n].amount = invoices[i].total
          BY <1>1, <4>3 DEF PaidOnce
        <5> QED BY <4>1, <4>2, <4>3, <5>1
      <4>4. CASE ~(Exists(i) /\ invoices[i].credited /\ invoices[i].customer = c)
        BY <1>1, <4>1, <4>2, <4>4 DEF PaidOnce
      <4> QED BY <4>3, <4>4
    <3> QED BY <3>1, <3>2, <3>3
  <2>8. PaidOnce'
    BY <2>7 DEF PaidOnce
  <2> QED BY <1>4, <1>5, <1>6, <2>5, <2>8 DEF PaidInv
<1> QED BY <1>7, <1>8

\* The rows that credit some invoices with their totals; and a sequence that
\* names each of these invoices once, and no other.
RowsFor(S, list, rows) ==
    /\ S \subseteq Id
    /\ \A i \in S : list[i].total \in Int
    /\ \A x : x \in rows <=> \E i \in S : x = Credit(i, list[i].total)

OneEach(t, S, list) ==
    /\ t \in Seq(Credits)
    /\ \A i : i \notin S => Naming(t, i) = {}
    /\ \A i \in S : \E m \in 1 .. Len(t) : Naming(t, i) = {m} /\ t[m].amount = list[i].total

LEMMA ScriptRows ==
    ASSUME NEW S, NEW list, NEW rows, RowsFor(S, list, rows)
    PROVE  OneEach(SetToSeq(rows), S, list)
<1>0. PICK t : t = SetToSeq(rows)
    OBVIOUS
<1>1. \A i \in S : /\ Credit(i, list[i].total) \in Credits
                   /\ Credit(i, list[i].total).ref = i
                   /\ Credit(i, list[i].total).amount = list[i].total
    BY DEF RowsFor, Credit, Credits
<1>2. IsFiniteSet(Id)
    BY InvoicingAssumption, FS_Interval DEF Id
<1>3. rows \subseteq Credits
    BY <1>1 DEF RowsFor
<1>4. \A x \in rows : x.ref \in S /\ x = Credit(x.ref, list[x.ref].total)
    BY <1>1 DEF RowsFor
<1>5. \A i \in S : Credit(i, list[i].total) \in rows
    BY DEF RowsFor
<1>6. IsFiniteSet(rows)
  <2> DEFINE g == [x \in rows |-> x.ref]
  <2>1. g \in Injection(rows, Id)
    BY <1>4 DEF RowsFor, Injection, IsInjective
  <2> QED BY <1>2, <2>1, FS_Injection
<1>7. /\ t \in Seq(rows)
      /\ \A x \in rows : \E n \in 1 .. Len(t) : t[n] = x
      /\ \A m, n \in 1 .. Len(t) : t[m] = t[n] => m = n
  <2>1. /\ SetToSeq(rows) \in Seq(rows)
        /\ \A x \in rows : \E n \in 1 .. Len(SetToSeq(rows)) : SetToSeq(rows)[n] = x
        /\ \A m, n \in 1 .. Len(SetToSeq(rows)) : SetToSeq(rows)[m] = SetToSeq(rows)[n] => m = n
    BY <1>6, SeqOfSet
  <2> QED BY <1>0, <2>1
<1>8. \A n \in 1 .. Len(t) : t[n] \in rows
    BY <1>7
<1>9. t \in Seq(Credits)
    BY <1>3, <1>7
<1>10. \A i : i \notin S => Naming(t, i) = {}
    BY <1>4, <1>8 DEF Naming
<1>11. ASSUME NEW i \in S
       PROVE  \E m \in 1 .. Len(t) : Naming(t, i) = {m} /\ t[m].amount = list[i].total
  <2>1. PICK m \in 1 .. Len(t) : t[m] = Credit(i, list[i].total)
    BY <1>5, <1>7
  <2>2. t[m].ref = i /\ t[m].amount = list[i].total
    BY <1>1, <2>1
  <2>3. ASSUME NEW n \in 1 .. Len(t), t[n].ref = i PROVE n = m
    <3>1. t[n] = Credit(i, list[i].total)
      BY <1>4, <1>8, <2>3
    <3> QED BY <1>7, <2>1, <3>1
  <2> QED BY <2>2, <2>3 DEF Naming
<1> QED BY <1>0, <1>9, <1>10, <1>11 DEF OneEach

\* What the script has listed is not credited when it commits, so that each
\* invoice of the list gets the only row it has.
LEMMA FillPaid == ASSUME PaidInv, NEW r \in Request, BackfillCommit(r) PROVE PaidInv'
<1>1. Shape /\ PaidOnce /\ credits \in [Customer -> Seq(Credits)]
    BY DEF PaidInv
<1>2. request[r].pc = "filling" /\ request' = [request EXCEPT ![r] = Idle] /\ issued' = issued
    BY DEF BackfillCommit
<1>3. PICK list : list = request[r].list
    OBVIOUS
<1>4. \A i \in DOMAIN list : Listed(i, list[i])
    BY <1>2, <1>3 DEF PaidInv, Filling
<1>5. /\ Shape'
      /\ \A i \in Id : Exists(i) <=> Exists(i)'
      /\ \A i \in Id : Exists(i) => Rewritten(i)
      /\ \A i \in Id : Exists(i) => invoices'[i].credited =
            (IF i \in DOMAIN list THEN TRUE ELSE invoices[i].credited)
    BY <1>1, <1>3, FilledShape
<1>6. Filling'
    BY <1>1, <1>2, AlonePaid DEF PaidInv
<1>7. Paying'
  <2>1. Idle.pc # "paying" /\ issued <= issued'
    BY <1>1, <1>2, AtFields DEF Idle, Shape
  <2> QED BY <1>1, <1>2, <1>5, <2>1, PayingStays DEF PaidInv, Rewritten
<1> DEFINE of(k) == {i \in DOMAIN list : list[i].customer = k}
           added(k) == SetToSeq({Credit(i, list[i].total) : i \in of(k)})
<1>8. credits' = [k \in Customer |-> credits[k] \o added(k)]
    BY <1>3 DEF BackfillCommit
<1>9. ASSUME NEW k \in Customer
      PROVE  /\ added(k) \in Seq(Credits)
             /\ \A i : i \notin of(k) => Naming(added(k), i) = {}
             /\ \A i \in of(k) : \E m \in 1 .. Len(added(k)) :
                   Naming(added(k), i) = {m} /\ added(k)[m].amount = list[i].total
  <2>1. of(k) \in SUBSET Id
    BY <1>4 DEF Listed
  <2>2. \A i \in of(k) : list[i].total \in Int
    <3> SUFFICES ASSUME NEW i \in of(k) PROVE list[i].total \in Int
      OBVIOUS
    <3>1. Listed(i, list[i])
      BY <1>4
    <3>2. invoices[i] \in Invoices /\ invoices[i].total = list[i].total
      BY <1>1, <3>1 DEF Listed, Shape, Exists
    <3> QED BY <3>2 DEF Invoices
  <2>3. PICK S, rows : S = of(k) /\ rows = {Credit(i, list[i].total) : i \in S}
    OBVIOUS
  <2>4. RowsFor(S, list, rows)
    BY <2>1, <2>2, <2>3 DEF RowsFor
  <2>5. OneEach(SetToSeq(rows), S, list)
    BY <2>4, ScriptRows
  <2>6. added(k) = SetToSeq(rows)
    BY <2>3
  <2> HIDE DEF of, added
  <2>7. OneEach(added(k), of(k), list)
    BY <2>3, <2>5, <2>6
  <2> QED BY ONLY <2>7 DEF OneEach
<1> HIDE DEF added
<1>10. credits' \in [Customer -> Seq(Credits)]
  <2>1. \A k \in Customer : credits[k] \o added(k) \in Seq(Credits)
    BY <1>1, <1>9, NamingConcat
  <2> QED BY <1>8, <2>1
<1>11. ASSUME NEW i \in Id, NEW c \in Customer
       PROVE  IF Exists(i)' /\ invoices'[i].credited /\ invoices'[i].customer = c
                THEN \E n \in 1 .. Len(credits'[c]) :
                        RowsOf(c, i)' = {n} /\ credits'[c][n].amount = invoices'[i].total
                ELSE RowsOf(c, i)' = {}
  <2>0. PICK t : t = added(c)
    OBVIOUS
  <2>1. credits[c] \in Seq(Credits) /\ t \in Seq(Credits) /\ credits'[c] = credits[c] \o t
    BY <1>1, <1>8, <1>9, <2>0
  <2>2. RowsOf(c, i) = Naming(credits[c], i) /\ RowsOf(c, i)' = Naming(credits'[c], i)
    BY DEF RowsOf, Naming
  <2>3. CASE i \in of(c)
    <3>1. /\ Exists(i) /\ ~invoices[i].credited
          /\ invoices[i].customer = c /\ invoices[i].total = list[i].total
      BY <1>4, <2>3 DEF Listed
    <3>2. Naming(credits[c], i) = {}
      BY <1>1, <2>2, <3>1 DEF PaidOnce
    <3>3. PICK m \in 1 .. Len(t) :
              Naming(t, i) = {m} /\ t[m].amount = list[i].total
      BY <1>9, <2>0, <2>3
    <3>4. /\ Naming(credits[c] \o t, i) = {Len(credits[c]) + m}
          /\ (credits[c] \o t)[Len(credits[c]) + m] = t[m]
      <4>1. \A x : Naming(credits[c], i) = {} /\ Naming(t, i) = {x} =>
                 /\ Naming(credits[c] \o t, i) = {Len(credits[c]) + x}
                 /\ (credits[c] \o t)[Len(credits[c]) + x] = t[x]
        BY <2>1, NamingConcat
      <4> QED BY <3>2, <3>3, <4>1
    <3>5. Len(credits[c]) + m \in 1 .. Len(credits'[c])
      BY <2>1, <3>4 DEF Naming
    <3>6. /\ Exists(i)' /\ invoices'[i].credited /\ invoices'[i].customer = c
          /\ invoices'[i].total = list[i].total
      BY <1>5, <2>3, <3>1 DEF Rewritten
    <3> QED BY <2>1, <2>2, <3>3, <3>4, <3>5, <3>6
  <2>4. CASE i \notin of(c)
    <3>1. Naming(t, i) = {}
      BY <1>9, <2>0, <2>4
    <3>2. /\ Naming(credits'[c], i) = Naming(credits[c], i)
          /\ \A n \in 1 .. Len(credits[c]) : credits'[c][n] = credits[c][n]
      BY <2>1, <3>1, NamingConcat
    <3>3. CASE i \in DOMAIN list
      <4>1. /\ Exists(i) /\ ~invoices[i].credited /\ invoices[i].customer = list[i].customer
        BY <1>4, <3>3 DEF Listed
      <4>2. invoices'[i].customer # c
        BY <1>5, <2>4, <3>3, <4>1 DEF Rewritten
      <4>3. RowsOf(c, i) = {}
        BY <1>1, <4>1 DEF PaidOnce
      <4> QED BY <2>2, <3>2, <4>2, <4>3
    <3>4. CASE i \notin DOMAIN list
      <4>1. /\ Exists(i)' <=> Exists(i)
            /\ Exists(i) => /\ invoices'[i].credited = invoices[i].credited
                            /\ invoices'[i].customer = invoices[i].customer
                            /\ invoices'[i].total = invoices[i].total
        BY <1>5, <3>4 DEF Rewritten
      <4>2. CASE Exists(i) /\ invoices[i].credited /\ invoices[i].customer = c
        <5>1. PICK n \in 1 .. Len(credits[c]) :
                  RowsOf(c, i) = {n} /\ credits[c][n].amount = invoices[i].total
          BY <1>1, <4>2 DEF PaidOnce
        <5>2. n \in 1 .. Len(credits'[c])
          BY <2>2, <3>2, <5>1 DEF Naming
        <5>3. RowsOf(c, i)' = {n} /\ credits'[c][n].amount = invoices'[i].total
          BY <2>2, <3>2, <4>1, <4>2, <5>1
        <5> QED BY <4>1, <4>2, <5>2, <5>3
      <4>3. CASE ~(Exists(i) /\ invoices[i].credited /\ invoices[i].customer = c)
        BY <1>1, <2>2, <3>2, <4>1, <4>3 DEF PaidOnce
      <4> QED BY <4>2, <4>3
    <3> QED BY <3>3, <3>4
  <2> QED BY <2>3, <2>4
<1>12. PaidOnce'
    BY <1>11 DEF PaidOnce
<1> QED BY <1>5, <1>6, <1>7, <1>10, <1>12 DEF PaidInv

LEMMA PaidNext == ASSUME ~LiveBackfill, PaidInv, [Next]_vars PROVE PaidInv'
<1>1. Shape
    BY DEF PaidInv
<1>2. Idle.pc = "idle"
    BY AtFields DEF Idle
<1>3. ASSUME UNCHANGED invoices PROVE Same
    BY <1>3 DEF Same, Exists
<1>4. ASSUME NEW r \in Request, DrawPdf(r) PROVE PaidInv'
  <2>1. Shape' /\ Same
    BY <1>1, <1>4, DrawShape DEF Same, Rewritten
  <2>2. PICK v : request' = [request EXCEPT ![r] = v] /\ v.pc \in {"idle", "mailing"}
    BY <1>2, <1>4, AtFields DEF DrawPdf
  <2>3. UNCHANGED <<credits, issued, reset>>
    BY <1>4 DEF DrawPdf
  <2> QED BY <2>1, <2>2, <2>3, QuietPaid
<1>5. ASSUME NEW r \in Request, EmailSent(r) PROVE PaidInv'
  <2>1. Shape' /\ Same
    BY <1>1, <1>5, SentShape DEF Same, Rewritten
  <2>2. request' = [request EXCEPT ![r] = Idle] /\ UNCHANGED <<credits, issued, reset>>
    BY <1>5 DEF EmailSent
  <2> QED BY <1>2, <2>1, <2>2, QuietPaid
<1>6. ASSUME NEW r \in Request, ReadId(r) \/ RegenPdf(r) \/ SendEmail(r) \/ GiveUp(r) PROVE PaidInv'
  <2>1. PICK v : /\ request' = [request EXCEPT ![r] = v]
                 /\ v.pc \in {"drawing", "redrawing", "mailing", "idle"}
    <3>1. CASE ReadId(r)
      <4>1. PICK i : request' = [request EXCEPT ![r] = At("drawing", i, Absent, NoList)]
        BY <3>1 DEF ReadId
      <4>2. At("drawing", i, Absent, NoList).pc = "drawing"
        BY AtFields
      <4> QED BY <4>1, <4>2
    <3>2. CASE RegenPdf(r)
      <4>1. PICK i : request' = [request EXCEPT ![r] = At("redrawing", i, Absent, NoList)]
        BY <3>2 DEF RegenPdf
      <4>2. At("redrawing", i, Absent, NoList).pc = "redrawing"
        BY AtFields
      <4> QED BY <4>1, <4>2
    <3>3. CASE SendEmail(r)
      <4>1. PICK i : request' = [request EXCEPT ![r] = At("mailing", i, Absent, NoList)]
        BY <3>3 DEF SendEmail
      <4>2. At("mailing", i, Absent, NoList).pc = "mailing"
        BY AtFields
      <4> QED BY <4>1, <4>2
    <3>4. CASE GiveUp(r)
      BY <1>2, <3>4 DEF GiveUp
    <3> QED BY <1>6, <3>1, <3>2, <3>3, <3>4
  <2>2. UNCHANGED <<consumed, balance, postings, credits, invoices, issued, disk, reset>>
    BY <1>6, MovesMove DEF Moves
  <2>3. Shape'
    BY <1>1, <2>1, <2>2, MoveShape
  <2> QED BY <1>3, <2>1, <2>2, <2>3, QuietPaid
<1>7. ASSUME NEW r \in Request, RequestStep(r) PROVE PaidInv'
    BY <1>4, <1>5, <1>6, <1>7, GeneratePaid, MarkPaidInv, PayPaid, BackfillPaid, FillPaid
    DEF RequestStep
<1>8. ASSUME UNCHANGED <<credits, invoices, issued, request, reset>>, Shape' PROVE PaidInv'
  <2>1. Paying' /\ Filling'
    BY <1>8 DEF PaidInv, Paying, Filling, Listed, Exists
  <2>2. PaidOnce'
    BY <1>3, <1>8, OnceSame DEF PaidInv
  <2> QED BY <1>8, <2>1, <2>2 DEF PaidInv
<1>9. ASSUME NEW k \in Customer, Consume(k) PROVE PaidInv'
    BY <1>1, <1>8, <1>9, AroundShape DEF Consume
<1>10. CASE UNCHANGED vars
    BY <1>1, <1>8, <1>10, ShapeNext DEF vars
<1> QED BY <1>7, <1>9, <1>10, AdjustPaid, ResetPaid DEF Next

\* If the script never overlaps a payment, a credited invoice has exactly one
\* row in the ledger, of its customer and with its total, and any other has
\* none, whatever is clicked twice, retried, abandoned or reset meanwhile
\* (invoices.py:270-280).
THEOREM AlwaysPaidOnce == ASSUME ~LiveBackfill PROVE Spec => []PaidOnce
<1>1. PaidInv /\ [Next]_vars => PaidInv'
    BY PaidNext
<1>2. PaidInv => PaidOnce
    BY DEF PaidInv
<1> QED BY PaidInit, <1>1, <1>2, PTL DEF Spec

----------------------------------------------------------------------------
(* What a ledger adds up to.                                               *)

Amounts(s) == SumFunction([n \in DOMAIN s |-> s[n].amount])

\* The sum of a function over its domain, from another that agrees with it.
LEMMA SumOverDomain ==
    ASSUME NEW S, IsFiniteSet(S), NEW f, NEW g, DOMAIN f = S, \A x \in S : f[x] = g[x]
    PROVE  SumFunction(f) = SumFunctionOnSet(g, S)
<1>1. SumFunction(f) = SumFunctionOnSet(f, S)
    BY DEF SumFunction
<1> QED BY <1>1, SumSame

LEMMA AmountsInt ==
    ASSUME NEW s \in Seq(Credits)
    PROVE  /\ Amounts(s) \in Int
           /\ \A n \in 1 .. Len(s) : s[n].amount \in Int
           /\ DOMAIN s = 1 .. Len(s) /\ IsFiniteSet(1 .. Len(s)) /\ Len(s) \in Nat
<1>1. DOMAIN s = 1 .. Len(s) /\ Len(s) \in Nat /\ \A n \in 1 .. Len(s) : s[n] \in Credits
    OBVIOUS
<1>2. IsFiniteSet(1 .. Len(s))
    BY <1>1, FS_Interval
<1>3. \A n \in 1 .. Len(s) : s[n].amount \in Int
    BY <1>1 DEF Credits
<1> DEFINE f == [n \in DOMAIN s |-> s[n].amount]
<1>4. DOMAIN f = 1 .. Len(s) /\ \A n \in 1 .. Len(s) : f[n] \in Int
    BY <1>1, <1>3
<1> HIDE DEF f
<1>5. SumFunction(f) \in Int
    BY <1>2, <1>4, SumOverDomain, SumInt
<1> QED BY <1>1, <1>2, <1>3, <1>5 DEF Amounts, f

LEMMA AmountsEmpty == Amounts(<<>>) = 0
<1> DEFINE f == [n \in DOMAIN <<>> |-> <<>>[n].amount]
<1>1. DOMAIN f = {}
    OBVIOUS
<1> HIDE DEF f
<1>2. SumFunction(f) = 0
    BY <1>1, SumEmpty DEF SumFunction
<1> QED BY <1>2 DEF Amounts, f

\* The ledger after another: the rows of each are counted once.
LEMMA AmountsConcat ==
    ASSUME NEW s \in Seq(Credits), NEW t \in Seq(Credits)
    PROVE  Amounts(s \o t) = Amounts(s) + Amounts(t)
<1> DEFINE u == s \o t
           f == [n \in DOMAIN u |-> u[n].amount]
           g == [n \in DOMAIN s |-> s[n].amount]
           h == [n \in DOMAIN t |-> t[n].amount]
           m == Len(s)
           DU == 1 .. Len(u)
           DT == 1 .. Len(t)
           A == 1 .. m
           B == m + 1 .. m + Len(t)
           b == [n \in 1 .. Len(t) |-> m + n]
<1>1. /\ u \in Seq(Credits) /\ Len(u) = m + Len(t)
      /\ \A n \in 1 .. m : u[n] = s[n]
      /\ \A n \in 1 .. Len(t) : u[m + n] = t[n]
    OBVIOUS
<1>2. m \in Nat /\ Len(t) \in Nat
    OBVIOUS
<1> HIDE DEF u
<1>3. /\ \A n \in 1 .. Len(u) : u[n].amount \in Int
      /\ DOMAIN u = 1 .. Len(u) /\ IsFiniteSet(1 .. Len(u))
    BY <1>1, AmountsInt
<1>4. \A n \in 1 .. Len(u) : f[n] \in Int
    BY <1>3
<1>5. \A n \in A : f[n] = g[n] /\ DOMAIN g = A
  <2>1. \A n \in A : n \in 1 .. Len(u)
    BY <1>1, <1>2
  <2> QED BY <1>1, <1>3, <2>1
<1>6. \A n \in 1 .. Len(t) : h[n] \in Int /\ f[b[n]] = h[n]
  <2>1. \A n \in 1 .. Len(t) : m + n \in 1 .. Len(u)
    BY <1>1, <1>2
  <2>2. \A n \in 1 .. Len(t) : t[n].amount \in Int
    BY AmountsInt
  <2>3. \A n \in 1 .. Len(t) : h[n] = t[n].amount
    OBVIOUS
  <2> QED BY <1>1, <1>3, <2>1, <2>2, <2>3
<1>7. /\ b \in [1 .. Len(t) -> B]
      /\ \A x, y \in 1 .. Len(t) : b[x] = b[y] => x = y
      /\ \A z \in B : \E x \in 1 .. Len(t) : b[x] = z
  <2>1. \A n \in 1 .. Len(t) : b[n] \in B
    BY <1>2
  <2>2. \A z \in B : z - m \in 1 .. Len(t) /\ b[z - m] = z
    BY <1>2
  <2>3. \A x, y \in 1 .. Len(t) : b[x] = b[y] => x = y
    BY <1>2
  <2> QED BY <2>1, <2>2, <2>3
<1>8. /\ 1 .. Len(u) = A \cup B /\ A \cap B = {}
      /\ IsFiniteSet(A) /\ IsFiniteSet(B) /\ IsFiniteSet(1 .. Len(t))
  <2>1. 1 .. Len(u) = A \cup B /\ A \cap B = {}
    BY <1>1, <1>2
  <2>2. m \in Int /\ m + 1 \in Int /\ m + Len(t) \in Int /\ Len(t) \in Int /\ 1 \in Int
    BY <1>2
  <2>3. \A x, y \in Int : IsFiniteSet(x .. y)
    BY FS_Interval
  <2> QED BY <2>1, <2>2, <2>3
<1>9. DOMAIN f = 1 .. Len(u) /\ DOMAIN g = A /\ DOMAIN h = 1 .. Len(t)
    BY <1>3
<1>10. /\ DU = A \cup B /\ A \cap B = {} /\ IsFiniteSet(DU) /\ \A n \in DU : f[n] \in Int
    BY <1>3, <1>4, <1>8
<1>11. /\ IsFiniteSet(DT) /\ IsFiniteSet(B)
       /\ \A n \in DT : h[n] \in Int /\ f[b[n]] = h[n]
       /\ b \in [DT -> B]
       /\ \A x, y \in DT : b[x] = b[y] => x = y
       /\ \A z \in B : \E x \in DT : b[x] = z
    BY <1>6, <1>7, <1>8
<1>12. DOMAIN f = DU /\ DOMAIN h = DT
    BY <1>9
<1> HIDE DEF f, g, h, A, B, b, m, DU, DT
<1>13. SumFunctionOnSet(f, DU) = SumFunctionOnSet(f, A) + SumFunctionOnSet(f, B)
    BY <1>10, SumUnion
<1>14. SumFunctionOnSet(h, DT) = SumFunctionOnSet(f, B)
    BY <1>11, SumRenamed
<1>15. SumFunction(f) = SumFunctionOnSet(f, DU)
    BY <1>10, <1>12, SumOverDomain
<1>16. SumFunction(g) = SumFunctionOnSet(f, A)
    BY <1>5, <1>8, <1>9, SumOverDomain
<1>17. SumFunction(h) = SumFunctionOnSet(h, DT)
    BY <1>11, <1>12, SumOverDomain
<1>18. SumFunction(f) = SumFunction(g) + SumFunction(h)
    BY <1>13, <1>14, <1>15, <1>16, <1>17
<1> QED BY <1>18 DEF Amounts, f, g, h, u

LEMMA AmountsAppend ==
    ASSUME NEW s \in Seq(Credits), NEW row \in Credits
    PROVE  Amounts(Append(s, row)) = Amounts(s) + row.amount
<1>1. <<row>> \in Seq(Credits) /\ Append(s, row) = s \o <<row>>
    OBVIOUS
<1>2. Amounts(<<row>>) = row.amount
  <2> DEFINE f == [n \in DOMAIN <<row>> |-> <<row>>[n].amount]
  <2>1. DOMAIN f = {1} /\ f[1] = row.amount
    OBVIOUS
  <2>2. row.amount \in Int
    BY DEF Credits
  <2> HIDE DEF f
  <2>3. SumFunctionOnSet(f, {1}) = f[1] + SumFunctionOnSet(f, {1} \ {1})
    BY <2>1, <2>2, SumRemove, FS_Singleton
  <2>4. {1} \ {1} = {}
    OBVIOUS
  <2>5. SumFunctionOnSet(f, {1} \ {1}) = 0
    BY <2>4, SumEmpty
  <2>6. SumFunctionOnSet(f, {1}) = row.amount
    BY <2>1, <2>2, <2>3, <2>5
  <2>7. SumFunction(f) = row.amount
    BY <2>1, <2>6 DEF SumFunction
  <2> QED BY <2>7 DEF Amounts, f
<1> QED BY <1>1, <1>2, AmountsConcat

\* The rows of the script add up to the totals of the invoices it has listed,
\* in whatever order they are written.
LEMMA AmountsOfRows ==
    ASSUME NEW S, NEW list, NEW rows, RowsFor(S, list, rows)
    PROVE  Amounts(SetToSeq(rows)) = SumFunction([i \in S |-> list[i].total])
<1> DEFINE t == SetToSeq(rows)
           f == [n \in DOMAIN t |-> t[n].amount]
           g == [i \in S |-> list[i].total]
           b == [n \in 1 .. Len(t) |-> t[n].ref]
           DT == 1 .. Len(t)
<1>1. OneEach(t, S, list)
    BY ScriptRows
<1>2. /\ t \in Seq(Credits)
      /\ \A i : i \notin S => Naming(t, i) = {}
      /\ \A i \in S : \E m \in 1 .. Len(t) : Naming(t, i) = {m} /\ t[m].amount = list[i].total
    BY <1>1 DEF OneEach
<1> HIDE DEF t
<1>3. /\ \A n \in 1 .. Len(t) : t[n].amount \in Int
      /\ DOMAIN t = 1 .. Len(t) /\ IsFiniteSet(1 .. Len(t))
    BY <1>2, AmountsInt
<1>4. S \subseteq Id /\ IsFiniteSet(S)
  <2>1. IsFiniteSet(Id)
    BY InvoicingAssumption, FS_Interval DEF Id
  <2> QED BY <2>1, FS_Subset DEF RowsFor
<1>5. ASSUME NEW n \in 1 .. Len(t)
      PROVE  t[n].ref \in S /\ Naming(t, t[n].ref) = {n} /\ t[n].amount = list[t[n].ref].total
  <2>1. n \in Naming(t, t[n].ref)
    BY DEF Naming
  <2>2. t[n].ref \in S
    BY <1>2, <2>1
  <2>3. PICK m \in 1 .. Len(t) :
            Naming(t, t[n].ref) = {m} /\ t[m].amount = list[t[n].ref].total
    BY <1>2, <2>2
  <2> QED BY <2>1, <2>2, <2>3
<1>6. /\ b \in [1 .. Len(t) -> S]
      /\ \A x, y \in 1 .. Len(t) : b[x] = b[y] => x = y
  <2>1. \A x \in 1 .. Len(t) : b[x] = t[x].ref
    OBVIOUS
  <2>2. ASSUME NEW x \in 1 .. Len(t), NEW y \in 1 .. Len(t), b[x] = b[y] PROVE x = y
    <3>1. {x} = {y}
      BY <1>5, <2>1, <2>2
    <3> QED BY <3>1
  <2>3. \A x \in 1 .. Len(t) : b[x] \in S
    BY <1>5, <2>1
  <2>4. b \in [1 .. Len(t) -> S]
    BY <2>3
  <2> QED BY <2>2, <2>4
<1>7. \A z \in S : \E x \in 1 .. Len(t) : b[x] = z
  <2> TAKE z \in S
  <2>1. PICK m \in 1 .. Len(t) : Naming(t, z) = {m}
    BY <1>2
  <2>2. t[m].ref = z
    BY <2>1 DEF Naming
  <2> QED BY <2>2
<1>8. \A n \in 1 .. Len(t) : f[n] \in Int /\ g[b[n]] = f[n]
    BY <1>3, <1>5
<1>9. DOMAIN f = DT /\ DOMAIN g = S /\ IsFiniteSet(DT)
    BY <1>3
<1>10. /\ \A n \in DT : f[n] \in Int /\ g[b[n]] = f[n]
       /\ b \in [DT -> S]
       /\ \A x, y \in DT : b[x] = b[y] => x = y
       /\ \A z \in S : \E x \in DT : b[x] = z
    BY <1>6, <1>7, <1>8
<1> HIDE DEF f, g, b, DT
<1>11. SumFunctionOnSet(f, DT) = SumFunctionOnSet(g, S)
    BY <1>4, <1>9, <1>10, SumRenamed
<1>12. SumFunction(f) = SumFunction(g)
    BY <1>4, <1>9, <1>11, SumOverDomain
<1> QED BY <1>12 DEF Amounts, f, g, t

----------------------------------------------------------------------------
(* Type correctness and the books, whoever pays, and however the script, the *)
(* payments and the reset overlap.                                           *)

\* What a request holds, where it is.
Typed(q) ==
    /\ q.pc \in {"idle", "naming", "drawing", "redrawing", "mailing", "paying", "filling"}
    /\ q.pc \in {"naming", "drawing", "redrawing", "mailing", "paying"} => q.id \in Id
    /\ q.pc = "paying" => q.from \in Invoices
    /\ q.pc = "filling" => /\ DOMAIN q.list \subseteq Id
                           /\ \A i \in DOMAIN q.list : q.list[i] \in Invoices

TypeInv ==
    /\ Shape
    /\ consumed \in [Customer -> 0 .. MaxConsumed]
    /\ balance \in [Customer -> Int]
    /\ postings \in [Customer -> Nat]
    /\ credits \in [Customer -> Seq(Credits)]
    /\ issued <= MaxInvoices
    /\ disk \subseteq Id
    /\ \A r \in Request : Typed(request[r])
    /\ reset.pc \in {"idle", "backed up", "unlinked"}
    /\ reset.pdfs \subseteq Id

\* A balance b explains what was credited and consumed, to n roundings.
Explains(b, credited, used, n) == 100 * (b - credited) + used \in -50 * n .. 50 * n

Books ==
    \A k \in Customer : Explains(balance[k], Amounts(credits[k]), consumed[k], postings[k])

LEMMA BooksAre == Books <=> BooksBalance
BY DEF Books, BooksBalance, Amounts, Explains

LEMMA TypeInvIsTypeOK == TypeInv => TypeOK
<1> SUFFICES ASSUME TypeInv PROVE TypeOK
    OBVIOUS
<1>1. /\ consumed \in [Customer -> 0 .. MaxConsumed] /\ balance \in [Customer -> Int]
      /\ postings \in [Customer -> Nat]
      /\ \A k \in Customer : credits[k] \in Seq(Credits)
    BY DEF TypeInv
<1>2. /\ invoices \in [Id -> Invoices \cup {Absent}]
      /\ \A i \in Id : Exists(i) => i <= issued
    BY DEF TypeInv, Shape
<1>3. issued \in 0 .. MaxInvoices
  <2>1. issued \in Nat /\ issued <= MaxInvoices
    BY DEF TypeInv, Shape
  <2>2. MaxInvoices \in Nat
    BY InvoicingAssumption
  <2> QED BY <2>1, <2>2
<1>4. /\ disk \subseteq Id
      /\ reset.pc \in {"idle", "backed up", "unlinked"} /\ reset.pdfs \subseteq Id
    BY DEF TypeInv
<1>5. \A r \in Request : request[r].pc \in
          {"idle", "naming", "drawing", "redrawing", "mailing", "paying", "filling"}
    BY DEF TypeInv, Typed
<1> QED BY <1>1, <1>2, <1>3, <1>4, <1>5 DEF TypeOK

LEMMA IdleTyped == Typed(Idle)
<1>1. Idle.pc = "idle"
    BY AtFields DEF Idle
<1> QED BY <1>1 DEF Typed

LEMMA BooksInit == Init => TypeInv /\ Books
<1> SUFFICES ASSUME Init PROVE TypeInv /\ Books
    OBVIOUS
<1>1. /\ consumed = [k \in Customer |-> 0] /\ balance = [k \in Customer |-> 0]
      /\ postings = [k \in Customer |-> 0]
      /\ credits = [k \in Customer |-> <<>>] /\ issued = Legacy
      /\ disk = {} /\ reset = NoReset
      /\ \A r \in Request : request[r] = Idle
    BY DEF Init
<1>2. <<>> \in Seq(Credits)
    OBVIOUS
<1>3. reset.pc = "idle" /\ reset.pdfs = {}
    BY <1>1 DEF NoReset, Reset
<1>4. 0 \in 0 .. MaxConsumed /\ Legacy <= MaxInvoices
    BY InvoicingAssumption
<1>5. TypeInv
    BY <1>1, <1>2, <1>3, <1>4, ShapeInit, IdleTyped DEF TypeInv
<1>6. Books
  <2>1. 100 * (0 - 0) + 0 \in -50 * 0 .. 50 * 0
    OBVIOUS
  <2> QED BY <1>1, <2>1, AmountsEmpty DEF Books, Explains
<1> QED BY <1>5, <1>6

\* A request goes on, and money stays where it is.
LEMMA QuietBooks ==
    ASSUME TypeInv, Books, [Next]_vars, NEW r \in Request,
           NEW v, request' = [request EXCEPT ![r] = v], Typed(v),
           UNCHANGED <<consumed, balance, postings, credits, issued, reset>>,
           disk' \subseteq Id
    PROVE  TypeInv' /\ Books'
<1>1. Shape /\ Shape'
    BY ShapeNext DEF TypeInv
<1>2. \A s \in Request : Typed(request[s]')
    BY <1>1, OthersStay DEF TypeInv
<1> QED BY <1>1, <1>2 DEF TypeInv, Books, Typed

LEMMA GenerateBooks ==
    ASSUME TypeInv, Books, [Next]_vars, NEW r \in Request, Generate(r) PROVE TypeInv' /\ Books'
<1> DEFINE v == At("naming", issued', Absent, NoList)
<1>1. Shape /\ Shape'
    BY ShapeNext DEF TypeInv
<1>2. issued' \in Id /\ issued' <= MaxInvoices
  <2>1. issued' \in Id
    BY <1>1, GenerateShape
  <2> QED BY <2>1, InvoicingAssumption DEF Id
<1>3. Typed(v)
    BY <1>2, AtFields DEF Typed
<1>4. request' = [request EXCEPT ![r] = v] /\ UNCHANGED <<consumed, balance, postings, credits, disk, reset>>
    BY DEF Generate
<1> HIDE DEF v
<1>5. \A s \in Request : Typed(request'[s])
    BY <1>1, <1>3, <1>4, OthersStay DEF TypeInv
<1> QED BY <1>1, <1>2, <1>4, <1>5 DEF TypeInv, Books, Typed

\* The requests' steps that write no money.
LEMMA MovesBooks ==
    ASSUME TypeInv, Books, [Next]_vars, NEW r \in Request,
           Moves(r) \/ DrawPdf(r) \/ EmailSent(r)
    PROVE  TypeInv' /\ Books'
<1>1. /\ invoices \in [Id -> Invoices \cup {Absent}] /\ disk \subseteq Id
      /\ Typed(request[r])
    BY DEF TypeInv, Shape
<1>2. \E v : /\ request' = [request EXCEPT ![r] = v]
             /\ Typed(v)
  <2>1. CASE ReadId(r)
    <3>1. PICK i \in LastInsertId(r) :
              request' = [request EXCEPT ![r] = At("drawing", i, Absent, NoList)]
      BY <2>1 DEF ReadId
    <3>2. request[r].id \in Id /\ i \in Id
      BY <1>1, <2>1, InvoicingAssumption DEF ReadId, LastInsertId, Typed
    <3>3. Typed(At("drawing", i, Absent, NoList))
      BY <3>2, AtFields DEF Typed
    <3> QED BY <3>1, <3>3
  <2>2. CASE RegenPdf(r)
    <3>1. PICK i \in Id : request' = [request EXCEPT ![r] = At("redrawing", i, Absent, NoList)]
      BY <2>2 DEF RegenPdf
    <3>2. Typed(At("redrawing", i, Absent, NoList))
      BY AtFields DEF Typed
    <3> QED BY <3>1, <3>2
  <2>3. CASE SendEmail(r)
    <3>1. PICK i \in Id : request' = [request EXCEPT ![r] = At("mailing", i, Absent, NoList)]
      BY <2>3 DEF SendEmail
    <3>2. Typed(At("mailing", i, Absent, NoList))
      BY AtFields DEF Typed
    <3> QED BY <3>1, <3>2
  <2>4. CASE MarkPaid(r)
    <3>1. PICK i \in Id : /\ Exists(i)
                          /\ request' = [request EXCEPT ![r] = At("paying", i, invoices[i], NoList)]
      BY <2>4 DEF MarkPaid
    <3>2. invoices[i] \in Invoices
      BY <1>1, <3>1 DEF Exists
    <3>3. Typed(At("paying", i, invoices[i], NoList))
      BY <3>2, AtFields DEF Typed
    <3> QED BY <3>1, <3>3
  <2>5. CASE Backfill(r)
    <3> DEFINE pending == {i \in Id : /\ Exists(i) /\ invoices[i].status = "paid"
                                      /\ ~invoices[i].credited}
               list == [i \in pending |-> invoices[i]]
    <3>1. request' = [request EXCEPT ![r] = At("filling", Absent, Absent, list)]
      BY <2>5 DEF Backfill
    <3>2. DOMAIN list \subseteq Id /\ \A i \in DOMAIN list : list[i] \in Invoices
      BY <1>1 DEF Exists
    <3> HIDE DEF list
    <3>3. Typed(At("filling", Absent, Absent, list))
      BY <3>2, AtFields DEF Typed
    <3> QED BY <3>1, <3>3
  <2>6. CASE GiveUp(r)
    BY <2>6, IdleTyped DEF GiveUp
  <2>7. CASE EmailSent(r)
    BY <2>7, IdleTyped DEF EmailSent
  <2>8. CASE DrawPdf(r)
    <3>1. CASE request' = [request EXCEPT ![r] = Idle]
      BY <3>1, IdleTyped
    <3>2. CASE request' = [request EXCEPT ![r] = At("mailing", request[r].id, Absent, NoList)]
      <4>1. request[r].id \in Id
        BY <1>1, <2>8 DEF DrawPdf, Typed
      <4>2. Typed(At("mailing", request[r].id, Absent, NoList))
        BY <4>1, AtFields DEF Typed
      <4> QED BY <3>2, <4>2
    <3> QED BY <2>8, <3>1, <3>2 DEF DrawPdf
  <2> QED BY <2>1, <2>2, <2>3, <2>4, <2>5, <2>6, <2>7, <2>8 DEF Moves
<1>3. disk' \subseteq Id
  <2>1. CASE DrawPdf(r)
    <3>1. request[r].id \in Id /\ disk' = disk \cup {request[r].id}
      BY <1>1, <2>1 DEF DrawPdf, Typed
    <3> QED BY <1>1, <3>1
  <2>2. CASE Moves(r)
    BY <1>1, <2>2, MovesMove
  <2>3. CASE EmailSent(r)
    BY <1>1, <2>3 DEF EmailSent
  <2> QED BY <2>1, <2>2, <2>3
<1>4. UNCHANGED <<consumed, balance, postings, credits, issued, reset>>
    BY MovesMove DEF DrawPdf, EmailSent
<1> QED BY <1>2, <1>3, <1>4, QuietBooks

\* A price that is rounded into a balance is one rounding more.
LEMMA ConsumeBooks ==
    ASSUME TypeInv, Books, [Next]_vars, NEW k \in Customer, Consume(k) PROVE TypeInv' /\ Books'
<1>1. PICK amount \in Charge :
          /\ consumed[k] + amount <= MaxConsumed
          /\ consumed' = [consumed EXCEPT ![k] = @ + amount]
          /\ \E taken \in Nearest(amount) : balance' = [balance EXCEPT ![k] = @ - taken]
          /\ postings' = [postings EXCEPT ![k] = @ + (IF amount > 0 THEN 1 ELSE 0)]
    BY DEF Consume
<1>2. amount \in Nat /\ MaxConsumed \in Nat
    BY InvoicingAssumption
<1>3. /\ consumed \in [Customer -> 0 .. MaxConsumed] /\ balance \in [Customer -> Int]
      /\ postings \in [Customer -> Nat]
      /\ UNCHANGED <<credits, issued, disk, request, reset>>
    BY DEF TypeInv, Consume
<1>4. PICK taken \in Nearest(amount) : balance' = [balance EXCEPT ![k] = @ - taken]
    BY <1>1
<1>5. taken \in Int /\ 100 * taken - amount \in -50 .. 50
    BY <1>2, NearestClose DEF Close
<1> DEFINE n == IF amount > 0 THEN 1 ELSE 0
<1>6. n \in Nat /\ postings' = [postings EXCEPT ![k] = @ + n]
    BY <1>1
<1>7. 100 * taken - amount \in -50 * n .. 50 * n
  <2>1. CASE amount = 0
    <3>1. n = 0 /\ taken = 0
      BY <1>5, <2>1
    <3> QED BY <2>1, <3>1
  <2>2. CASE amount > 0
    <3>1. n = 1
      BY <2>2
    <3> QED BY <1>5, <3>1
  <2> QED BY <1>2, <2>1, <2>2
<1> HIDE DEF n
<1>8. /\ consumed' \in [Customer -> 0 .. MaxConsumed] /\ balance' \in [Customer -> Int]
      /\ postings' \in [Customer -> Nat]
  <2>1. consumed[k] + amount \in 0 .. MaxConsumed /\ balance[k] - taken \in Int
        /\ postings[k] + n \in Nat
    BY <1>1, <1>2, <1>3, <1>5, <1>6
  <2> QED BY <1>1, <1>3, <1>4, <1>6, <2>1
<1>9. Shape'
    BY ShapeNext DEF TypeInv
<1>10. TypeInv'
    BY <1>3, <1>8, <1>9 DEF TypeInv, Typed
<1>11. ASSUME NEW c \in Customer
       PROVE  Explains(balance'[c], Amounts(credits'[c]), consumed'[c], postings'[c])
  <2> DEFINE a == Amounts(credits[c])
             b == balance[c]
             u == consumed[c]
             p == postings[c]
  <2>1. a \in Int /\ b \in Int /\ u \in Int /\ p \in Nat /\ credits' = credits
    <3>1. a \in Int
      BY AmountsInt DEF TypeInv
    <3>2. b \in Int /\ u \in Int /\ p \in Nat
      BY <1>2, <1>3
    <3> QED BY <1>3, <3>1, <3>2
  <2>2. Explains(b, a, u, p)
    BY DEF Books
  <2>3. CASE c # k
    <3>1. balance'[c] = b /\ consumed'[c] = u /\ postings'[c] = p
      BY <1>1, <1>3, <1>4, <1>6, <2>3
    <3> QED BY <2>1, <2>2, <3>1
  <2>4. CASE c = k
    <3>1. balance'[c] = b - taken /\ consumed'[c] = u + amount /\ postings'[c] = p + n
      BY <1>1, <1>3, <1>4, <1>6, <2>4
    <3>2. 100 * (b - a) + u \in -50 * p .. 50 * p
      BY <2>2 DEF Explains
    <3>3. /\ a \in Int /\ b \in Int /\ u \in Int /\ p \in Nat /\ n \in Nat
          /\ taken \in Int /\ amount \in Nat
      BY <1>2, <1>5, <1>6, <2>1
    <3> HIDE DEF a, b, u, p
    <3>4. 100 * ((b - taken) - a) + (u + amount) \in -50 * (p + n) .. 50 * (p + n)
      BY ONLY <1>7, <3>2, <3>3
    <3>5. Explains(b - taken, a, u + amount, p + n)
      BY <3>4 DEF Explains
    <3> QED BY <2>1, <3>1, <3>5 DEF a
  <2> QED BY <2>3, <2>4
<1> QED BY <1>10, <1>11 DEF Books

\* What a credit adds to a balance and to its ledger explains it as before.
LEMMA SameExplained ==
    ASSUME NEW b \in Int, NEW a \in Int, NEW u \in Int, NEW n \in Nat, NEW m \in Int,
           Explains(b, a, u, n)
    PROVE  Explains(b + m, a + m, u, n)
<1>1. (b + m) - (a + m) = b - a
    OBVIOUS
<1> QED BY <1>1 DEF Explains

\* One more row in a customer's ledger, and its amount on the balance.
LEMMA RowBooks ==
    ASSUME TypeInv, Books, Shape', NEW k \in Customer, NEW row \in Credits,
           balance' = [balance EXCEPT ![k] = @ + row.amount],
           credits' = [credits EXCEPT ![k] = Append(@, row)],
           UNCHANGED <<consumed, postings, issued, disk, reset>>,
           \A s \in Request : Typed(request'[s])
    PROVE  TypeInv' /\ Books'
<1>1. /\ balance \in [Customer -> Int] /\ credits \in [Customer -> Seq(Credits)]
      /\ consumed \in [Customer -> 0 .. MaxConsumed] /\ postings \in [Customer -> Nat]
      /\ row.amount \in Int
    BY DEF TypeInv, Credits
<1>2. Append(credits[k], row) \in Seq(Credits)
    BY <1>1
<1>3. balance' \in [Customer -> Int] /\ credits' \in [Customer -> Seq(Credits)]
    BY <1>1, <1>2
<1>4. TypeInv'
    BY <1>3 DEF TypeInv, Typed
<1>5. ASSUME NEW c \in Customer
      PROVE  Explains(balance'[c], Amounts(credits'[c]), consumed[c], postings[c])
  <2> DEFINE a == Amounts(credits[c])
             b == Amounts(credits'[c])
  <2>1. /\ a \in Int /\ b \in Int /\ balance[c] \in Int /\ consumed[c] \in Int
        /\ postings[c] \in Nat
        /\ Explains(balance[c], a, consumed[c], postings[c])
    <3>1. a \in Int
      BY <1>1, AmountsInt
    <3>2. b \in Int
      BY <1>3, AmountsInt
    <3>3. Explains(balance[c], a, consumed[c], postings[c])
      BY DEF Books
    <3>4. consumed[c] \in Int /\ balance[c] \in Int /\ postings[c] \in Nat
      BY <1>1, InvoicingAssumption
    <3> QED BY <3>1, <3>2, <3>3, <3>4
  <2>2. b = IF c = k THEN a + row.amount ELSE a
    <3>1. CASE c = k
      <4>1. credits'[c] = Append(credits[c], row)
        BY <1>1, <3>1
      <4> QED BY <1>1, <3>1, <4>1, AmountsAppend
    <3>2. CASE c # k
      BY <1>1, <3>2
    <3> QED BY <3>1, <3>2
  <2> HIDE DEF a, b
  <2>3. CASE c = k
    <3>1. balance'[c] = balance[c] + row.amount /\ b = a + row.amount
      BY <1>1, <2>2, <2>3
    <3>2. Explains(balance[c] + row.amount, a + row.amount, consumed[c], postings[c])
      BY <1>1, <2>1, SameExplained
    <3> QED BY <3>1, <3>2 DEF b
  <2>4. CASE c # k
    <3>1. balance'[c] = balance[c] /\ b = a
      BY <1>1, <2>2, <2>4
    <3> QED BY <2>1, <3>1 DEF b
  <2> QED BY <2>3, <2>4
<1> QED BY <1>4, <1>5 DEF Books

LEMMA AdjustBooks ==
    ASSUME TypeInv, Books, [Next]_vars, NEW k \in Customer, Adjust(k) PROVE TypeInv' /\ Books'
<1>1. PICK amount \in TopUp :
          /\ balance' = [balance EXCEPT ![k] = @ + amount]
          /\ credits' = [credits EXCEPT ![k] = Append(@, Credit(Absent, amount))]
    BY DEF Adjust
<1>2. Credit(Absent, amount) \in Credits /\ Credit(Absent, amount).amount = amount
    BY InvoicingAssumption DEF Credit, Credits
<1>3. UNCHANGED <<consumed, postings, issued, disk, request, reset>>
    BY DEF Adjust
<1>4. Shape' /\ \A s \in Request : Typed(request'[s])
    BY <1>3, ShapeNext DEF TypeInv
<1> QED BY <1>1, <1>2, <1>3, <1>4, RowBooks

\* A payment writes its row and its balance together, or neither.
LEMMA PayBooks ==
    ASSUME TypeInv, Books, [Next]_vars, NEW r \in Request, PayCommit(r) PROVE TypeInv' /\ Books'
<1>1. PICK inv, i : inv = request[r].from /\ i = request[r].id
    OBVIOUS
<1>2. inv \in Invoices /\ i \in Id
    BY <1>1 DEF PayCommit, TypeInv, Typed
<1>3. inv.customer \in Customer /\ inv.total \in Int
    BY <1>2 DEF Invoices
<1>4. request' = [request EXCEPT ![r] = Idle] /\ UNCHANGED <<consumed, postings, issued, disk, reset>>
    BY DEF PayCommit
<1>5. Shape /\ Shape'
    BY ShapeNext DEF TypeInv
<1>6. \A s \in Request : Typed(request'[s])
    BY <1>4, <1>5, OthersStay, IdleTyped DEF TypeInv
<1>7. CASE /\ balance' = [balance EXCEPT ![inv.customer] = @ + inv.total]
           /\ credits' = [credits EXCEPT ![inv.customer] = Append(@, Credit(i, inv.total))]
  <2>1. Credit(i, inv.total) \in Credits /\ Credit(i, inv.total).amount = inv.total
    BY <1>2, <1>3 DEF Credit, Credits
  <2> QED BY <1>3, <1>4, <1>5, <1>6, <1>7, <2>1, RowBooks
<1>8. CASE UNCHANGED <<balance, credits>>
    BY <1>4, <1>5, <1>6, <1>8 DEF TypeInv, Books, Typed
<1> QED BY <1>1, <1>7, <1>8 DEF PayCommit

\* The script writes its rows and the balances together.
LEMMA FillBooks ==
    ASSUME TypeInv, Books, [Next]_vars, NEW r \in Request, BackfillCommit(r)
    PROVE  TypeInv' /\ Books'
<1>0. PICK list : list = request[r].list
    OBVIOUS
<1> DEFINE of(k) == {i \in DOMAIN list : list[i].customer = k}
           amount(k) == SumFunction([i \in of(k) |-> list[i].total])
           added(k) == SetToSeq({Credit(i, list[i].total) : i \in of(k)})
<1>1. /\ balance' = [k \in Customer |-> balance[k] + amount(k)]
      /\ credits' = [k \in Customer |-> credits[k] \o added(k)]
      /\ request' = [request EXCEPT ![r] = Idle]
      /\ UNCHANGED <<consumed, postings, issued, disk, reset>>
    BY <1>0 DEF BackfillCommit
<1>2. DOMAIN list \subseteq Id /\ \A i \in DOMAIN list : list[i] \in Invoices
    BY <1>0 DEF BackfillCommit, TypeInv, Typed
<1>3. Shape /\ Shape'
    BY ShapeNext DEF TypeInv
<1>4. \A s \in Request : Typed(request'[s])
    BY <1>1, <1>3, OthersStay, IdleTyped DEF TypeInv
<1>5. ASSUME NEW k \in Customer
      PROVE  added(k) \in Seq(Credits) /\ amount(k) = Amounts(added(k))
  <2>1. PICK S, rows : S = of(k) /\ rows = {Credit(i, list[i].total) : i \in S}
    OBVIOUS
  <2>2. RowsFor(S, list, rows)
    <3>1. \A i \in S : list[i] \in Invoices /\ i \in Id
      BY <1>2, <2>1
    <3>2. \A i \in S : list[i].total \in Int
      BY <3>1 DEF Invoices
    <3> QED BY <2>1, <3>1, <3>2 DEF RowsFor
  <2>3. /\ SetToSeq(rows) \in Seq(Credits)
        /\ Amounts(SetToSeq(rows)) = SumFunction([i \in S |-> list[i].total])
    BY <2>2, ScriptRows, AmountsOfRows DEF OneEach
  <2> QED BY <2>1, <2>3
<1> HIDE DEF amount, added
<1>6. /\ balance \in [Customer -> Int] /\ credits \in [Customer -> Seq(Credits)]
      /\ consumed \in [Customer -> 0 .. MaxConsumed] /\ postings \in [Customer -> Nat]
    BY DEF TypeInv
<1>7. \A k \in Customer : amount(k) \in Int /\ credits[k] \o added(k) \in Seq(Credits)
  <2> TAKE k \in Customer
  <2>1. credits[k] \in Seq(Credits) /\ added(k) \in Seq(Credits) /\ amount(k) \in Int
    BY <1>5, <1>6, AmountsInt
  <2> QED BY <2>1
<1>8. balance' \in [Customer -> Int] /\ credits' \in [Customer -> Seq(Credits)]
    BY <1>1, <1>6, <1>7
<1>9. TypeInv'
    BY <1>1, <1>3, <1>4, <1>8 DEF TypeInv, Typed
<1>10. ASSUME NEW c \in Customer
       PROVE  Explains(balance'[c], Amounts(credits'[c]), consumed[c], postings[c])
  <2> DEFINE a == Amounts(credits[c])
             b == Amounts(credits'[c])
             m == amount(c)
  <2>1. /\ a \in Int /\ m \in Int /\ balance[c] \in Int /\ consumed[c] \in Int
        /\ postings[c] \in Nat
        /\ Explains(balance[c], a, consumed[c], postings[c])
    BY <1>6, <1>7, AmountsInt DEF Books
  <2>2. b = a + m
    <3>1. credits'[c] = credits[c] \o added(c) /\ credits[c] \in Seq(Credits)
      BY <1>1, <1>6
    <3>2. Amounts(credits[c] \o added(c)) = Amounts(credits[c]) + Amounts(added(c))
      BY <1>5, <3>1, AmountsConcat
    <3> QED BY <1>5, <3>1, <3>2
  <2>3. balance'[c] = balance[c] + m
    BY <1>1
  <2> HIDE DEF a, b, m
  <2>4. Explains(balance[c] + m, a + m, consumed[c], postings[c])
    BY <2>1, SameExplained
  <2> QED BY <2>2, <2>3, <2>4 DEF b
<1> QED BY <1>1, <1>9, <1>10 DEF Books

LEMMA ResetBooks ==
    ASSUME TypeInv, Books, [Next]_vars, ResetBackup \/ ResetUnlink \/ ResetCommit \/ ResetFails
    PROVE  TypeInv' /\ Books'
<1>1. Shape'
    BY ShapeNext DEF TypeInv
<1>2. UNCHANGED <<consumed, issued, request>>
    BY DEF ResetBackup, ResetUnlink, ResetCommit, ResetFails
<1>3. disk' \subseteq Id
    BY DEF ResetBackup, ResetUnlink, ResetCommit, ResetFails, TypeInv
<1>4. reset'.pc \in {"idle", "backed up", "unlinked"} /\ reset'.pdfs \subseteq Id
  <2>1. CASE ResetBackup
    <3> DEFINE pdfs == {i \in Id : Exists(i) /\ invoices[i].pdf}
    <3>1. reset' = [pc |-> "backed up", pdfs |-> pdfs] /\ pdfs \subseteq Id
      BY <2>1 DEF ResetBackup, Reset
    <3> HIDE DEF pdfs
    <3> QED BY <3>1
  <2>2. CASE ResetUnlink
    <3>1. reset' = [pc |-> "unlinked", pdfs |-> {}]
      BY <2>2 DEF ResetUnlink, Reset
    <3> QED BY <3>1
  <2>3. CASE ResetCommit \/ ResetFails
    <3>1. reset' = [pc |-> "idle", pdfs |-> {}]
      BY <2>3 DEF ResetCommit, ResetFails, NoReset, Reset
    <3> QED BY <3>1
  <2> QED BY <2>1, <2>2, <2>3
<1>5. consumed \in [Customer -> 0 .. MaxConsumed] /\ MaxConsumed \in Nat
    BY InvoicingAssumption DEF TypeInv
<1>6. CASE ResetCommit
  <2>1. /\ balance' = [k \in Customer |-> Stored(-consumed[k])]
        /\ postings' = [k \in Customer |-> IF consumed[k] = 0 THEN 0 ELSE 1]
        /\ credits' = [k \in Customer |-> <<>>]
    BY <1>6 DEF ResetCommit, Owed
  <2>2. \A k \in Customer : consumed[k] \in Nat /\ -consumed[k] \in Int
    BY <1>5
  <2>3. /\ balance' \in [Customer -> Int] /\ credits' \in [Customer -> Seq(Credits)]
        /\ postings' \in [Customer -> Nat]
    BY <2>1, <2>2, StoredClose
  <2>4. TypeInv'
    BY <1>1, <1>2, <1>3, <1>4, <2>3 DEF TypeInv, Typed
  <2>5. ASSUME NEW k \in Customer
        PROVE  Explains(balance'[k], 0, consumed[k], postings'[k])
    <3> DEFINE b == Stored(-consumed[k])
               u == consumed[k]
    <3>1. b \in Int /\ Close(b, -u)
      BY <2>2, StoredClose
    <3>2. u \in Nat /\ balance'[k] = b /\ postings'[k] = IF u = 0 THEN 0 ELSE 1
      BY <2>1, <2>2
    <3> HIDE DEF b, u
    <3>3. 100 * b + u \in -50 .. 50
      BY <3>1, <3>2 DEF Close
    <3>4. CASE u = 0
      <4>1. b = 0
        BY <3>1, <3>3, <3>4
      <4>2. 100 * (b - 0) + u \in -50 * 0 .. 50 * 0
        BY <3>4, <4>1
      <4> QED BY <3>2, <3>4, <4>2 DEF Explains, u
    <3>5. CASE u # 0
      <4>1. 100 * (b - 0) + u \in -50 * 1 .. 50 * 1
        BY <3>1, <3>2, <3>3
      <4> QED BY <3>2, <3>5, <4>1 DEF Explains, u
    <3> QED BY <3>4, <3>5
  <2>6. Books'
    BY <1>2, <2>1, <2>5, AmountsEmpty DEF Books
  <2> QED BY <2>4, <2>6
<1>7. CASE ResetBackup \/ ResetUnlink \/ ResetFails
  <2>1. UNCHANGED <<balance, postings, credits>>
    BY <1>7 DEF ResetBackup, ResetUnlink, ResetFails
  <2> QED BY <1>1, <1>2, <1>3, <1>4, <2>1 DEF TypeInv, Books, Typed
<1> QED BY <1>6, <1>7

LEMMA BooksNext == ASSUME TypeInv, Books, [Next]_vars PROVE TypeInv' /\ Books'
<1>1. CASE UNCHANGED vars
  <2>1. Shape'
    BY ShapeNext DEF TypeInv
  <2> QED BY <1>1, <2>1 DEF vars, TypeInv, Books, Typed
<1>2. ASSUME NEW r \in Request, RequestStep(r) PROVE TypeInv' /\ Books'
    BY <1>2, GenerateBooks, MovesBooks, PayBooks, FillBooks DEF RequestStep, Moves
<1> QED BY <1>1, <1>2, ConsumeBooks, AdjustBooks, ResetBooks DEF Next

\* The state keeps its shape, and no row has an id that was never given
\* (invoices.py:248-405).
THEOREM InvoicingTypeOK == Spec => []TypeOK
<1>1. (TypeInv /\ Books) /\ [Next]_vars => (TypeInv /\ Books)'
    BY BooksNext
<1> QED BY BooksInit, <1>1, TypeInvIsTypeOK, PTL DEF Spec

\* A balance is what has been credited less what has been consumed, to half a
\* ten-thousandth for each price rounded into it, and for all of them together
\* after a reset; even where the script overlaps payments or a reset deletes what
\* is being paid (invoices.py:248-405,
\* backfill_invoice_balance_credit.py:105-122).
THEOREM InvoicingBooksBalance == Spec => []BooksBalance
<1>1. (TypeInv /\ Books) /\ [Next]_vars => (TypeInv /\ Books)'
    BY BooksNext
<1> QED BY BooksInit, <1>1, BooksAre, PTL DEF Spec
=============================================================================
