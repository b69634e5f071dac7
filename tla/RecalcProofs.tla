---------------------------- MODULE RecalcProofs ----------------------------
(***************************************************************************)
(* Proofs about Recalc, for any number of CDRs, customers, jobs and        *)
(* prices: its types, and that the books balance for every customer whose  *)
(* books no job has upset.                                                 *)
(***************************************************************************)
EXTENDS Recalc, Sums

(* Type correctness.                                                       *)

\* What a sale adds up to is a number.
LEMMA SellInt == ASSUME TypeOK, NEW c \in Cdr PROVE Sell(c) \in Nat
BY DEF TypeOK, Sell, Price

LEMMA UnratedPrice == Unrated \in Price
BY DEF Unrated, Price

LEMMA IdleType ==
    Idle \in JobType /\ Idle.pc = "idle" /\ Idle.todo = {} /\ Idle.written = {}
<1>1. [c \in Cdr |-> Unrated] \in [Cdr -> Price] /\ [c \in Cdr |-> 0] \in [Cdr -> Nat]
    BY UnratedPrice
<1> QED BY <1>1 DEF Idle, Running, JobType

LEMMA OwnedFinite == ASSUME NEW k \in Customer PROVE OwnedBy(k) \subseteq Cdr /\ IsFiniteSet(OwnedBy(k))
<1>1. OwnedBy(k) \subseteq Cdr
    BY DEF OwnedBy
<1> QED BY <1>1, RecalcAssumption, FS_Subset

\* The sum of a function written for the very set it is summed over.
LEMMA SumOver ==
    ASSUME NEW S, NEW f, DOMAIN f = S
    PROVE  SumFunction(f) = SumFunctionOnSet(f, S)
BY DEF SumFunction

\* The sums over some of a customer's CDRs, of one function for all CDRs.
LEMMA PartSum ==
    ASSUME NEW k \in Customer, NEW rows \in SUBSET OwnedBy(k), NEW f, NEW g,
           DOMAIN f = rows, \A c \in rows : f[c] = g[c]
    PROVE  SumFunction(f) = SumFunctionOnSet(g, rows)
<1>1. IsFiniteSet(rows)
    BY OwnedFinite, FS_Subset
<1> QED BY <1>1, SumOver, SumSame

\* The corrections and their rounding are numbers.
LEMMA DeltaInt ==
    ASSUME TypeOK, NEW j \in Job, NEW k \in Customer, NEW rows \in SUBSET Cdr
    PROVE  Delta(j, k, rows) \in Int
<1> DEFINE S == rows \cap OwnedBy(k)
           f == [c \in S |-> job[j].prices[c].sell - job[j].seen[c]]
<1>1. S \subseteq Cdr /\ IsFiniteSet(S)
    BY RecalcAssumption, FS_Subset
<1>2. \A c \in S : f[c] \in Int
  <2> TAKE c \in S
  <2>1. job[j].prices \in [Cdr -> Price] /\ job[j].seen \in [Cdr -> Nat]
    BY DEF TypeOK, JobType
  <2>2. job[j].prices[c] \in Price /\ job[j].seen[c] \in Nat
    BY <1>1, <2>1
  <2> QED BY <2>2 DEF Price
<1>3. DOMAIN f = S
    OBVIOUS
<1> HIDE DEF f
<1>4. SumFunction(f) \in Int
    BY <1>1, <1>2, <1>3, SumOver, SumInt
<1> QED BY <1>4 DEF f, Delta

LEMMA CreditInt ==
    ASSUME TypeOK, NEW j \in Job, NEW k \in Customer
    PROVE  Credit(j, k) \in Int
<1>1. job[j].todo \cup job[j].written \in SUBSET Cdr
    BY DEF TypeOK, JobType
<1> QED BY <1>1, DeltaInt DEF Credit

LEMMA TypeInit == Init => TypeOK
<1> SUFFICES ASSUME Init PROVE TypeOK
    OBVIOUS
<1>1. \A c \in Cdr : PricesOf[c] \subseteq Price
    BY RecalcAssumption
<1> DEFINE known == UNION {PricesOf[c] : c \in Cdr}
<1>0. known \subseteq Price
    BY <1>1
<1>2. cdrs \in [Cdr -> Price \cup {Absent}]
  <2>1. cdrs \in [Cdr -> known \cup {Absent, Unrated}]
    BY DEF Init
  <2> QED BY <2>1, <1>0, UnratedPrice
<1>3. rate \in [Cdr -> Price]
  <2>1. rate \in [Cdr -> known]
    BY DEF Init
  <2> QED BY <2>1, <1>0
<1> HIDE DEF known
<1>4. balance \in [Customer -> Int]
  <2>1. balance = [k \in Customer |-> -SumFunction([c \in OwnedBy(k) |-> Stored(Sell(c))])]
    BY DEF Init
  <2>2. ASSUME NEW k \in Customer
        PROVE  SumFunction([c \in OwnedBy(k) |-> Stored(Sell(c))]) \in Int
    <3> DEFINE f == [c \in OwnedBy(k) |-> Stored(Sell(c))]
    <3>1. OwnedBy(k) \subseteq Cdr /\ IsFiniteSet(OwnedBy(k))
      BY OwnedFinite
    <3>2. \A c \in OwnedBy(k) : f[c] \in Int
      <4> TAKE c \in OwnedBy(k)
      <4>1. Sell(c) \in Int
        BY <1>2, <3>1 DEF Sell, Price
      <4> QED BY <4>1, StoredClose
    <3>3. DOMAIN f = OwnedBy(k)
      OBVIOUS
    <3> HIDE DEF f
    <3>4. SumFunction(f) \in Int
      BY <3>1, <3>2, <3>3, SumOver, SumInt
    <3> QED BY <3>4 DEF f
  <2> QED BY <2>1, <2>2
<1>5. postings \in [Customer -> Nat]
  <2>1. ASSUME NEW k \in Customer PROVE Cardinality({c \in OwnedBy(k) : Sell(c) > 0}) \in Nat
    <3>1. IsFiniteSet({c \in OwnedBy(k) : Sell(c) > 0})
      BY OwnedFinite, FS_Subset
    <3> QED BY <3>1, FS_CardinalityType
  <2> QED BY <2>1 DEF Init
<1>6. job = [j \in Job |-> Idle]
    BY DEF Init
<1>7. job \in [Job -> JobType] /\ \A j \in Job : job[j] = Idle /\ ~Applying(j)
    BY <1>6, IdleType DEF Applying
<1>8. issued \subseteq Customer /\ scans \in Nat /\ upset \subseteq Customer
    BY DEF Init
<1> QED BY <1>2, <1>3, <1>4, <1>5, <1>7, <1>8 DEF TypeOK

\* The jobs are left alone, and no row is taken out of the table.
LEMMA JobsLeftAlone ==
    ASSUME TypeOK, job' = job, \A c \in Cdr : InTable(c) => InTable(c)'
    PROVE  /\ job' \in [Job -> JobType]
           /\ \A j \in Job : IF Applying(j)' THEN \A c \in job[j].todo : InTable(c)'
                                             ELSE job'[j] = Idle
<1>1. job \in [Job -> JobType] /\ \A j \in Job : job[j].todo \subseteq Cdr
    BY DEF TypeOK, JobType
<1> QED BY <1>1 DEF TypeOK, Applying

LEMMA AroundType ==
    ASSUME TypeOK, NEW c \in Cdr, KamailioInsert(c) \/ Bill(c) \/ EditRate(c)
    PROVE  TypeOK'
<1>1. /\ cdrs \in [Cdr -> Price \cup {Absent}] /\ rate \in [Cdr -> Price]
      /\ balance \in [Customer -> Int] /\ postings \in [Customer -> Nat]
    BY DEF TypeOK
<1>2. UNCHANGED <<issued, job, scans, upset>>
    BY DEF KamailioInsert, Bill, EditRate
<1>3. /\ cdrs' \in [Cdr -> Price \cup {Absent}]
      /\ \A d \in Cdr : InTable(d) => InTable(d)'
  <2>1. rate[c] \in Price /\ Unrated \in Price /\ Absent \notin Price
    BY <1>1, UnratedPrice, RecalcAssumption
  <2>2. CASE \E p \in Price : cdrs' = [cdrs EXCEPT ![c] = p]
    BY <1>1, <2>1, <2>2 DEF InTable
  <2>3. CASE cdrs' = cdrs
    BY <1>1, <2>3 DEF InTable
  <2> QED BY <2>1, <2>2, <2>3 DEF KamailioInsert, Bill, EditRate
<1>4. rate' \in [Cdr -> Price]
  <2>1. PricesOf[c] \subseteq Price
    BY RecalcAssumption
  <2> QED BY <1>1, <2>1 DEF KamailioInsert, Bill, EditRate
<1>5. balance' \in [Customer -> Int]
  <2>1. CASE Bill(c)
    <3>1. PICK taken \in Nearest(rate[c].sell) :
              balance' = [balance EXCEPT ![Owner[c]] = @ - taken]
      BY <2>1 DEF Bill
    <3>2. rate[c] \in Price
      BY <1>1
    <3>3. rate[c].sell \in Int
      BY <3>2 DEF Price
    <3>4. taken \in Int
      BY <3>3, NearestClose
    <3>5. Owner[c] \in Customer
      BY RecalcAssumption
    <3>6. balance[Owner[c]] - taken \in Int
      BY <1>1, <3>4, <3>5
    <3>7. balance' = [balance EXCEPT ![Owner[c]] = balance[Owner[c]] - taken]
      BY <3>1
    <3> QED BY <1>1, <3>6, <3>7
  <2> QED BY <1>1, <2>1 DEF KamailioInsert, EditRate
<1>6. postings' \in [Customer -> Nat]
  <2>1. CASE Bill(c)
    <3>1. PICK n \in Nat : postings' = [postings EXCEPT ![Owner[c]] = @ + n]
      <4>1. (IF rate[c].sell > 0 THEN 1 ELSE 0) \in Nat
        OBVIOUS
      <4> QED BY <2>1, <4>1 DEF Bill
    <3>2. Owner[c] \in Customer
      BY RecalcAssumption
    <3>3. postings[Owner[c]] + n \in Nat
      BY <1>1, <3>2
    <3>4. postings' = [postings EXCEPT ![Owner[c]] = postings[Owner[c]] + n]
      BY <3>1
    <3> QED BY <1>1, <3>3, <3>4
  <2> QED BY <1>1, <2>1 DEF KamailioInsert, EditRate
<1>7. /\ job' \in [Job -> JobType]
      /\ \A j \in Job : IF Applying(j)' THEN \A d \in job[j].todo : InTable(d)'
                                        ELSE job'[j] = Idle
    BY <1>2, <1>3, JobsLeftAlone
<1> QED BY <1>2, <1>3, <1>4, <1>5, <1>6, <1>7 DEF TypeOK

LEMMA ScanType == ASSUME TypeOK, NEW j \in Job, Scan(j) PROVE TypeOK'
<1>0. PICK scope \in Scope : Scan(j)!3!(scope)
    BY DEF Scan
<1>1. PICK rows \in SUBSET {c \in scope : InTable(c) /\ rate[c] # cdrs[c]} :
          job' = [job EXCEPT ![j] =
                Running("apply", rows, {},
                        [c \in Cdr |-> IF c \in rows THEN cdrs[c].sell ELSE 0],
                        [c \in Cdr |-> IF c \in rows THEN rate[c] ELSE Unrated])]
    BY <1>0
<1> DEFINE seen == [c \in Cdr |-> IF c \in rows THEN cdrs[c].sell ELSE 0]
           prices == [c \in Cdr |-> IF c \in rows THEN rate[c] ELSE Unrated]
           new == Running("apply", rows, {}, seen, prices)
<1>2. rows \in SUBSET Cdr /\ \A c \in rows : InTable(c)
    BY RecalcAssumption
<1>3. job' = [job EXCEPT ![j] = new]
    BY <1>1
<1>4. UNCHANGED <<cdrs, rate, balance, issued, postings, upset>> /\ scans' = scans + 1
    BY DEF Scan
<1>5. seen \in [Cdr -> Nat]
  <2>1. \A c \in rows : cdrs[c] \in Price
    BY <1>2 DEF InTable, TypeOK
  <2>2. \A c \in rows : cdrs[c].sell \in Nat
    BY <2>1 DEF Price
  <2> QED BY <2>2
<1>6. prices \in [Cdr -> Price]
    BY UnratedPrice DEF TypeOK
<1> HIDE DEF seen, prices
<1>7. new \in JobType /\ new.pc = "apply" /\ new.todo = rows
    BY <1>2, <1>5, <1>6 DEF JobType, Running
<1> HIDE DEF new
<1>8. /\ job' \in [Job -> JobType]
      /\ \A i \in Job : job'[i] = IF i = j THEN new ELSE job[i]
    BY <1>3, <1>7 DEF TypeOK
<1>9. \A i \in Job : IF job'[i].pc = "apply" THEN \A c \in job'[i].todo : InTable(c)
                                             ELSE job'[i] = Idle
    BY <1>2, <1>7, <1>8 DEF TypeOK, Applying
<1> QED BY <1>4, <1>8, <1>9 DEF TypeOK, Applying, InTable

LEMMA ChunksAre ==
    ASSUME NEW todo, NEW rows \in Chunks(todo) PROVE rows \in SUBSET todo
BY DEF Chunks, WholeChunks

\* What ApplyChunk makes of the job.
LEMMA ChunkJob ==
    ASSUME TypeOK, NEW j \in Job, NEW rows \in SUBSET Cdr,
           job' = [job EXCEPT ![j].todo = @ \ rows, ![j].written = @ \cup rows]
    PROVE  /\ \A i \in Job : i # j => job'[i] = job[i]
           /\ job'[j] = Running(job[j].pc, job[j].todo \ rows, job[j].written \cup rows,
                                job[j].seen, job[j].prices)
           /\ job' \in [Job -> JobType]
<1>1. job \in [Job -> JobType] /\ job[j] \in JobType
    BY DEF TypeOK
<1>2. \A i \in Job : i # j => job'[i] = job[i]
    BY <1>1
<1> DEFINE new == Running(job[j].pc, job[j].todo \ rows, job[j].written \cup rows,
                          job[j].seen, job[j].prices)
<1>3. job'[j] = new
  <2>1. job'[j] = [job[j] EXCEPT !.todo = @ \ rows, !.written = @ \cup rows]
    BY <1>1
  <2>2. job[j] = Running(job[j].pc, job[j].todo, job[j].written, job[j].seen, job[j].prices)
    BY <1>1 DEF JobType, Running
  <2>3. job'[j] = [job[j] EXCEPT !.todo = job[j].todo \ rows,
                                 !.written = job[j].written \cup rows]
    BY <2>1
  <2> DEFINE r == job[j]
             p == r.pc
             s == r.seen
             q == r.prices
             w == r.written
             a == r.todo \ rows
             b == w \cup rows
  <2>4. r = Running(p, r.todo, w, s, q) /\ job'[j] = [r EXCEPT !.todo = a, !.written = b]
    BY <2>2, <2>3
  <2> HIDE DEF r, p, s, q, w, a, b
  <2>5. [r EXCEPT !.todo = a, !.written = b] = [[r EXCEPT !.todo = a] EXCEPT !.written = b]
    BY <2>4, Z3 DEF Running
  <2>6. [r EXCEPT !.todo = a] = Running(p, a, w, s, q)
    BY <2>4, Z3 DEF Running
  <2>7. [Running(p, a, w, s, q) EXCEPT !.written = b] = Running(p, a, b, s, q)
    BY Z3 DEF Running
  <2>8. job'[j] = Running(p, a, b, s, q)
    BY <2>4, <2>5, <2>6, <2>7
  <2> QED BY <2>8 DEF r, p, s, q, w, a, b
<1>4. new \in JobType
    BY <1>1 DEF JobType, Running
<1> HIDE DEF new
<1>5. job' \in [Job -> JobType]
  <2>1. DOMAIN job' = Job /\ job' = [i \in Job |-> job'[i]]
    BY <1>1
  <2>2. \A i \in Job : job'[i] \in JobType
    BY <1>1, <1>2, <1>3, <1>4
  <2> QED BY <2>1, <2>2
<1> QED BY <1>2, <1>3, <1>5 DEF new

LEMMA ChunkType == ASSUME TypeOK, NEW j \in Job, ApplyChunk(j) PROVE TypeOK'
<1>1. PICK rows \in Chunks(job[j].todo) :
          /\ cdrs' = [c \in Cdr |-> IF c \in rows THEN job[j].prices[c] ELSE cdrs[c]]
          /\ job' = [job EXCEPT ![j].todo = @ \ rows, ![j].written = @ \cup rows]
          /\ upset' = upset \cup {Owner[c] : c \in {d \in rows : Sell(d) # job[j].seen[d]}}
    BY DEF ApplyChunk
<1>2. UNCHANGED <<rate, balance, issued, scans, postings>> /\ job[j].pc = "apply"
    BY DEF ApplyChunk, Applying
<1>3. job[j] \in JobType /\ cdrs \in [Cdr -> Price \cup {Absent}]
    BY DEF TypeOK
<1>4. rows \in SUBSET Cdr
    BY <1>3, ChunksAre DEF JobType
<1>5. /\ cdrs' \in [Cdr -> Price \cup {Absent}]
      /\ \A c \in Cdr : InTable(c) => InTable(c)'
  <2>1. job[j].prices \in [Cdr -> Price] /\ Absent \notin Price
    BY <1>3, RecalcAssumption DEF JobType
  <2>2. \A c \in Cdr : /\ cdrs'[c] = IF c \in rows THEN job[j].prices[c] ELSE cdrs[c]
                       /\ job[j].prices[c] \in Price
    BY <1>1, <2>1
  <2>3. cdrs' = [c \in Cdr |-> cdrs'[c]]
    BY <1>1
  <2> QED BY <1>3, <2>1, <2>2, <2>3 DEF InTable
<1>6. upset' \subseteq Customer
    BY <1>1, <1>4, RecalcAssumption DEF TypeOK
<1>7. /\ \A i \in Job : i # j => job'[i] = job[i]
      /\ job'[j] = Running(job[j].pc, job[j].todo \ rows, job[j].written \cup rows,
                           job[j].seen, job[j].prices)
      /\ job' \in [Job -> JobType]
    BY <1>1, <1>4, ChunkJob
<1>8. job'[j].pc = "apply" /\ job'[j].todo \subseteq job[j].todo
    BY <1>2, <1>7 DEF Running
<1>9. \A i \in Job : IF job'[i].pc = "apply" THEN \A c \in job'[i].todo : InTable(c)'
                                             ELSE job'[i] = Idle
  <2> TAKE i \in Job
  <2>1. job[i].todo \subseteq Cdr
    BY DEF TypeOK, JobType
  <2> QED BY <1>2, <1>5, <1>7, <1>8, <2>1 DEF TypeOK, Applying
<1> QED BY <1>2, <1>5, <1>6, <1>7, <1>9 DEF TypeOK, Applying

\* What a job that ends leaves.
LEMMA EndedJob ==
    ASSUME TypeOK, NEW j \in Job, job' = [job EXCEPT ![j] = Idle], cdrs' = cdrs
    PROVE  /\ job' \in [Job -> JobType]
           /\ \A i \in Job : job'[i] = IF i = j THEN Idle ELSE job[i]
           /\ \A i \in Job : IF Applying(i)' THEN \A c \in job'[i].todo : InTable(c)'
                                             ELSE job'[i] = Idle
<1>1. /\ job' \in [Job -> JobType]
      /\ \A i \in Job : job'[i] = IF i = j THEN Idle ELSE job[i]
    BY IdleType DEF TypeOK
<1> QED BY <1>1, IdleType DEF TypeOK, Applying, InTable

LEMMA AdjustType == ASSUME TypeOK, NEW j \in Job, AdjustBalances(j) PROVE TypeOK'
<1>1. PICK given \in [Customer -> UNION {Nearest(Credit(j, k)) : k \in Customer}] :
          /\ \A k \in Customer : given[k] \in Nearest(Credit(j, k))
          /\ balance' = [k \in Customer |-> balance[k] + given[k]]
    BY DEF AdjustBalances, Corrected
<1>2. balance' \in [Customer -> Int]
  <2>1. \A k \in Customer : given[k] \in Int
    BY <1>1, CreditInt, NearestClose
  <2> QED BY <1>1, <2>1 DEF TypeOK
<1>3. postings' \in [Customer -> Nat]
  <2>1. \A k \in Customer : (IF Credit(j, k) = 0 THEN 0 ELSE 1) \in Nat
    OBVIOUS
  <2>2. postings' = [k \in Customer |-> postings[k] + (IF Credit(j, k) = 0 THEN 0 ELSE 1)]
    BY DEF AdjustBalances, Corrected
  <2> QED BY <2>1, <2>2 DEF TypeOK
<1>4. job' = [job EXCEPT ![j] = Idle] /\ UNCHANGED <<cdrs, rate, issued, scans, upset>>
    BY DEF AdjustBalances
<1> QED BY <1>2, <1>3, <1>4, EndedJob DEF TypeOK

LEMMA AbortType == ASSUME TypeOK, NEW j \in Job, Abort(j) PROVE TypeOK'
<1>1. /\ job' = [job EXCEPT ![j] = Idle]
      /\ UNCHANGED <<cdrs, rate, balance, issued, scans, postings>>
    BY DEF Abort
<1>2. upset' \subseteq Customer
  <2>1. job[j].written \subseteq Cdr
    BY DEF TypeOK, JobType
  <2> QED BY <2>1, RecalcAssumption DEF Abort, TypeOK
<1> QED BY <1>1, <1>2, EndedJob DEF TypeOK

LEMMA TypeNext == ASSUME TypeOK, [Next]_vars PROVE TypeOK'
<1>1. CASE UNCHANGED vars
    BY <1>1 DEF vars, TypeOK, Applying, InTable
<1>2. ASSUME NEW k \in Customer, IssueInvoice(k) PROVE TypeOK'
    BY <1>2 DEF IssueInvoice, TypeOK, Applying, InTable
<1> QED BY <1>1, <1>2, AroundType, ScanType, ChunkType, AdjustType, AbortType DEF Next

\* The state keeps its shape, a job that does not run has nothing left over from
\* the one before, and a job's CDRs stay in the table, whatever else goes on
\* (billing_recalc.py:278-373).
THEOREM RecalcTypeOK == Spec => []TypeOK
<1>1. TypeOK /\ [Next]_vars => TypeOK'
    BY TypeNext
<1> QED BY TypeInit, <1>1, PTL DEF Spec

----------------------------------------------------------------------------
(* The books.                                                              *)

\* What a customer's CDRs cost at the prices p.
SellAt(p) == [c \in Cdr |-> IF p[c] = Absent THEN 0 ELSE p[c].sell]

Sold(p, k) == SumFunctionOnSet(SellAt(p), OwnedBy(k))

\* What a job adds to a CDR's price, and what one that has written its rows has
\* added to a customer's CDRs.
Gain(r) == [c \in Cdr |-> r.prices[c].sell - r.seen[c]]

Gained(r, k) == SumFunctionOnSet(Gain(r), r.written \cap OwnedBy(k))

\* The same for all jobs.
Gains(jobs, k) == SumFunctionOnSet([j \in Job |-> Gained(jobs[j], k)], Job)

\* A job writes a row once.
WrittenOnce == \A j \in Job : job[j].todo \cap job[j].written = {}

BooksInv == TypeOK /\ WrittenOnce /\ BooksBalance

LEMMA SellAtInt ==
    ASSUME NEW p \in [Cdr -> Price \cup {Absent}], NEW c \in Cdr
    PROVE  SellAt(p)[c] \in Nat
BY DEF SellAt, Price

LEMMA SoldInt ==
    ASSUME NEW p \in [Cdr -> Price \cup {Absent}], NEW k \in Customer
    PROVE  Sold(p, k) \in Int
<1> DEFINE f == SellAt(p)
<1>1. \A c \in OwnedBy(k) : f[c] \in Int
    BY OwnedFinite, SellAtInt
<1> HIDE DEF f
<1>2. SumFunctionOnSet(f, OwnedBy(k)) \in Int
    BY <1>1, OwnedFinite, SumInt
<1> QED BY <1>2 DEF f, Sold

LEMMA GainInt == ASSUME NEW r \in JobType, NEW c \in Cdr PROVE Gain(r)[c] \in Int
<1>1. r.prices \in [Cdr -> Price] /\ r.seen \in [Cdr -> Nat]
    BY DEF JobType
<1>2. r.prices[c] \in Price /\ r.seen[c] \in Nat
    BY <1>1
<1> QED BY <1>2 DEF Gain, Price

LEMMA GainedInt ==
    ASSUME NEW r \in JobType, NEW k \in Customer, NEW rows \in SUBSET Cdr
    PROVE  SumFunctionOnSet(Gain(r), rows \cap OwnedBy(k)) \in Int
<1> DEFINE f == Gain(r)
           S == rows \cap OwnedBy(k)
<1>1. IsFiniteSet(S) /\ \A c \in S : f[c] \in Int
    BY OwnedFinite, FS_Subset, GainInt
<1> HIDE DEF f, S
<1>2. SumFunctionOnSet(f, S) \in Int
    BY <1>1, SumInt
<1> QED BY <1>2 DEF f, S

LEMMA GainsInt ==
    ASSUME NEW jobs \in [Job -> JobType], NEW k \in Customer
    PROVE  /\ \A j \in Job : Gained(jobs[j], k) \in Int
           /\ Gains(jobs, k) \in Int
<1>1. \A j \in Job : Gained(jobs[j], k) \in Int
  <2> TAKE j \in Job
  <2>1. jobs[j] \in JobType /\ jobs[j].written \in SUBSET Cdr
    BY DEF JobType
  <2> QED BY <2>1, GainedInt DEF Gained
<1> DEFINE f == [j \in Job |-> Gained(jobs[j], k)]
<1>2. \A j \in Job : f[j] \in Int
    BY <1>1
<1> HIDE DEF f
<1>3. SumFunctionOnSet(f, Job) \in Int
    BY <1>2, SumInt, RecalcAssumption
<1> QED BY <1>1, <1>3 DEF f, Gains

\* A sum of a job's differences is one of what it gains.
LEMMA DeltaIs ==
    ASSUME TypeOK, NEW j \in Job, NEW k \in Customer, NEW rows \in SUBSET Cdr
    PROVE  Delta(j, k, rows) = SumFunctionOnSet(Gain(job[j]), rows \cap OwnedBy(k))
<1> DEFINE S == rows \cap OwnedBy(k)
           f == [c \in S |-> job[j].prices[c].sell - job[j].seen[c]]
           g == Gain(job[j])
<1>1. DOMAIN f = S /\ S \in SUBSET OwnedBy(k)
    OBVIOUS
<1>2. \A c \in S : f[c] = g[c]
    BY DEF Gain
<1>3. SumFunction(f) = Delta(j, k, rows)
    BY DEF Delta
<1> HIDE DEF f, g, S
<1>4. SumFunction(f) = SumFunctionOnSet(g, S)
    BY <1>1, <1>2, PartSum
<1> QED BY <1>3, <1>4 DEF g, S

\* The books, in these terms.
LEMMA BooksAre ==
    TypeOK => \A k \in Customer :
        Books(k) = 100 * balance[k] + Sold(cdrs, k) - Gains(job, k)
<1> SUFFICES ASSUME TypeOK, NEW k \in Customer
    PROVE  /\ SumFunction([c \in OwnedBy(k) |-> Sell(c)]) = Sold(cdrs, k)
           /\ SumFunction([j \in Job |-> Owed(j, k)]) = Gains(job, k)
    BY DEF Books
<1>1. SumFunction([c \in OwnedBy(k) |-> Sell(c)]) = Sold(cdrs, k)
  <2> DEFINE f == [c \in OwnedBy(k) |-> Sell(c)]
             g == SellAt(cdrs)
  <2>1. DOMAIN f = OwnedBy(k) /\ \A c \in OwnedBy(k) : f[c] = g[c]
    BY OwnedFinite DEF SellAt, Sell
  <2> HIDE DEF f, g
  <2>2. SumFunction(f) = SumFunctionOnSet(g, OwnedBy(k))
    BY <2>1, PartSum
  <2> QED BY <2>2 DEF f, g, Sold
<1>2. SumFunction([j \in Job |-> Owed(j, k)]) = Gains(job, k)
  <2> DEFINE f == [j \in Job |-> Owed(j, k)]
             g == [j \in Job |-> Gained(job[j], k)]
  <2>1. \A j \in Job : f[j] = g[j]
    <3> TAKE j \in Job
    <3>1. job[j].written \in SUBSET Cdr
      BY DEF TypeOK, JobType
    <3> QED BY <3>1, DeltaIs DEF Owed, Gained
  <2>2. DOMAIN f = Job
    OBVIOUS
  <2>3. SumFunctionOnSet(f, Job) = SumFunctionOnSet(g, Job)
    BY <2>1, SumSame, RecalcAssumption
  <2>4. SumFunction(f) = SumFunctionOnSet(f, Job)
    BY <2>2 DEF SumFunction
  <2> QED BY <2>3, <2>4 DEF Gains
<1> QED BY <1>1, <1>2

LEMMA BooksAreNext ==
    TypeOK' => (\A k \in Customer :
        Books(k) = 100 * balance[k] + Sold(cdrs, k) - Gains(job, k))'
BY BooksAre, PTL

\* A step that moves a balance by b, the prices of its CDRs by s and the gains
\* of the jobs by o keeps the books if n roundings account for the difference.
Moves(k, b, s, o, n) ==
    /\ b \in Int /\ s \in Int /\ o \in Int /\ n \in Nat
    /\ balance'[k] = balance[k] + b
    /\ Sold(cdrs', k) = Sold(cdrs, k) + s
    /\ Gains(job', k) = Gains(job, k) + o
    /\ postings'[k] = postings[k] + n
    /\ 100 * b + s - o \in -50 * n .. 50 * n

LEMMA BooksStep ==
    ASSUME TypeOK, TypeOK', BooksBalance, NEW k \in Customer, k \notin upset,
           NEW b, NEW s, NEW o, NEW n, Moves(k, b, s, o, n)
    PROVE  (Books(k) \in -50 * postings[k] .. 50 * postings[k])'
<1> DEFINE bal == balance[k]
           sold == Sold(cdrs, k)
           gains == Gains(job, k)
           post == postings[k]
           bal2 == balance'[k]
           sold2 == Sold(cdrs', k)
           gains2 == Gains(job', k)
           post2 == postings'[k]
<1>1. bal \in Int /\ post \in Nat /\ sold \in Int /\ gains \in Int
    BY SoldInt, GainsInt DEF TypeOK
<1>2. 100 * bal + sold - gains \in -50 * post .. 50 * post
  <2>1. Books(k) = 100 * bal + sold - gains
    BY BooksAre
  <2>2. Books(k) \in -50 * post .. 50 * post
    BY DEF BooksBalance
  <2> HIDE DEF bal, sold, gains, post
  <2> QED BY <2>1, <2>2
<1>3. /\ b \in Int /\ s \in Int /\ o \in Int /\ n \in Nat
      /\ bal2 = bal + b /\ sold2 = sold + s /\ gains2 = gains + o /\ post2 = post + n
      /\ 100 * b + s - o \in -50 * n .. 50 * n
    BY DEF Moves
<1>4. Books(k)' = 100 * bal2 + sold2 - gains2
    BY BooksAreNext DEF OwnedBy, Sold, SellAt, Gains, Gained, Gain
<1> HIDE DEF bal, sold, gains, post, bal2, sold2, gains2, post2
<1>5. 100 * bal2 + sold2 - gains2 \in -50 * post2 .. 50 * post2
    BY ONLY <1>1, <1>2, <1>3
<1> QED BY <1>4, <1>5 DEF post2

LEMMA EmptyGained ==
    ASSUME NEW r, NEW k \in Customer, r.written \cap OwnedBy(k) = {} PROVE Gained(r, k) = 0
BY SumEmpty DEF Gained

LEMMA BooksInit == Init => BooksInv
<1> SUFFICES ASSUME Init PROVE BooksInv
    OBVIOUS
<1>1. TypeOK
    BY TypeInit
<1>2. \A j \in Job : job[j] = Idle
    BY DEF Init
<1>3. WrittenOnce
    BY <1>2, IdleType DEF WrittenOnce
<1>4. ASSUME NEW k \in Customer
      PROVE  Books(k) \in -50 * postings[k] .. 50 * postings[k]
  <2> DEFINE S == OwnedBy(k)
             charged == {c \in S : Sell(c) > 0}
             free == S \ charged
             f == [c \in S |-> Stored(Sell(c))]
             g == SellAt(cdrs)
  <2>1. IsFiniteSet(S) /\ S \subseteq Cdr /\ IsFiniteSet(charged) /\ IsFiniteSet(free)
    BY OwnedFinite, FS_Subset
  <2>2. \A c \in S : /\ f[c] \in Int /\ g[c] \in Int /\ Close(f[c], g[c])
                     /\ c \in free => g[c] = 0
    <3> TAKE c \in S
    <3>1. Sell(c) \in Nat /\ g[c] = Sell(c)
      BY <1>1, <2>1, SellInt DEF SellAt, Sell
    <3>2. Sell(c) \in Int
      BY <3>1
    <3>3. c \in free => Sell(c) = 0
      BY <3>1
    <3> QED BY <3>1, <3>2, <3>3, StoredClose
  <2>3. \A c \in free : f[c] = 0 /\ g[c] = 0
    <3> TAKE c \in free
    <3>1. g[c] = 0 /\ f[c] \in Int /\ Close(f[c], 0)
      BY <2>2
    <3> QED BY <3>1 DEF Close
  <2>4. S = charged \cup free /\ charged \cap free = {}
    OBVIOUS
  <2>5. balance[k] = -SumFunction(f) /\ postings[k] = Cardinality(charged) /\ DOMAIN f = S
    BY DEF Init
  <2>6. Sold(cdrs, k) = SumFunctionOnSet(g, S)
    BY DEF Sold
  <2> HIDE DEF S, charged, free, f, g
  <2>7. SumFunctionOnSet(f, free) = 0 /\ SumFunctionOnSet(g, free) = 0
    BY <2>1, <2>3, SumZero
  <2>8. /\ SumFunctionOnSet(f, S) = SumFunctionOnSet(f, charged) + SumFunctionOnSet(f, free)
        /\ SumFunctionOnSet(g, S) = SumFunctionOnSet(g, charged) + SumFunctionOnSet(g, free)
    BY <2>1, <2>2, <2>4, SumUnion
  <2>9. 100 * SumFunctionOnSet(f, charged) - SumFunctionOnSet(g, charged)
           \in -50 * Cardinality(charged) .. 50 * Cardinality(charged)
    BY <2>1, <2>2, <2>4, SumClose
  <2>10. SumFunctionOnSet(f, charged) \in Int /\ SumFunctionOnSet(g, charged) \in Int
    BY <2>1, <2>2, <2>4, SumInt
  <2>11. SumFunction(f) = SumFunctionOnSet(f, S)
    BY <2>5 DEF SumFunction
  <2>12. Gains(job, k) = 0
    <3>1. \A j \in Job : Gained(job[j], k) = 0
      BY <1>2, IdleType, EmptyGained
    <3>2. \A j \in Job : [i \in Job |-> Gained(job[i], k)][j] = 0
      BY <3>1
    <3> QED BY <3>2, SumZero, RecalcAssumption DEF Gains
  <2>13. Books(k) = 100 * balance[k] + Sold(cdrs, k) - Gains(job, k)
    BY <1>1, BooksAre
  <2>14. Cardinality(charged) \in Nat
    BY <2>1, FS_CardinalityType
  <2> DEFINE fc == SumFunctionOnSet(f, charged)
             gc == SumFunctionOnSet(g, charged)
             n  == Cardinality(charged)
  <2>15. /\ balance[k] = -(fc + 0) /\ Sold(cdrs, k) = gc + 0 /\ postings[k] = n
    BY <2>5, <2>6, <2>7, <2>8, <2>11
  <2>16. 100 * fc - gc \in -50 * n .. 50 * n /\ fc \in Int /\ gc \in Int /\ n \in Nat
    BY <2>9, <2>10, <2>14
  <2> HIDE DEF fc, gc, n
  <2>17. 100 * (-(fc + 0)) + (gc + 0) - 0 \in -50 * n .. 50 * n
    BY ONLY <2>16
  <2> QED BY <2>12, <2>13, <2>15, <2>17
<1> QED BY <1>1, <1>3, <1>4 DEF BooksInv, BooksBalance

LEMMA WrittenOnceNext == ASSUME TypeOK, WrittenOnce, [Next]_vars PROVE WrittenOnce'
<1>1. ASSUME NEW j \in Job, Scan(j) PROVE WrittenOnce'
  <2>1. PICK rows, seen, prices : job' = [job EXCEPT ![j] = Running("apply", rows, {}, seen, prices)]
    BY <1>1 DEF Scan
  <2> DEFINE new == Running("apply", rows, {}, seen, prices)
  <2>2. new.written = {}
    BY DEF Running
  <2> HIDE DEF new
  <2>3. \A i \in Job : job'[i] = IF i = j THEN new ELSE job[i]
    BY <2>1 DEF TypeOK, new
  <2> QED BY <2>2, <2>3 DEF WrittenOnce
<1>2. ASSUME NEW j \in Job, ApplyChunk(j) PROVE WrittenOnce'
  <2>1. PICK rows \in Chunks(job[j].todo) :
            job' = [job EXCEPT ![j].todo = @ \ rows, ![j].written = @ \cup rows]
    BY <1>2 DEF ApplyChunk
  <2>2. rows \in SUBSET job[j].todo /\ job[j].todo \in SUBSET Cdr
    BY ChunksAre DEF TypeOK, JobType
  <2>3. /\ \A i \in Job : i # j => job'[i] = job[i]
        /\ job'[j] = Running(job[j].pc, job[j].todo \ rows, job[j].written \cup rows,
                             job[j].seen, job[j].prices)
    BY <2>1, <2>2, ChunkJob
  <2>4. job'[j].todo = job[j].todo \ rows /\ job'[j].written = job[j].written \cup rows
    BY <2>3 DEF Running
  <2> QED BY <2>2, <2>3, <2>4 DEF WrittenOnce
<1>3. ASSUME NEW j \in Job, job' = [job EXCEPT ![j] = Idle] PROVE WrittenOnce'
  <2>1. \A i \in Job : job'[i] = IF i = j THEN Idle ELSE job[i]
    BY <1>3 DEF TypeOK
  <2> QED BY <2>1, IdleType DEF WrittenOnce
<1>4. ASSUME job' = job PROVE WrittenOnce'
    BY <1>4 DEF WrittenOnce
<1> QED BY <1>1, <1>2, <1>3, <1>4
        DEF Next, KamailioInsert, Bill, EditRate, IssueInvoice, AdjustBalances, Abort, vars

\* The books after a step, when each customer's have moved as they may.
LEMMA BooksNext ==
    ASSUME BooksInv, TypeOK', upset \subseteq upset',
           \A k \in Customer \ upset' : \E b, s, o, n : Moves(k, b, s, o, n)
    PROVE  BooksBalance'
<1>1. ASSUME NEW k \in Customer, k \notin upset'
      PROVE  (Books(k) \in -50 * postings[k] .. 50 * postings[k])'
  <2>1. PICK b, s, o, n : Moves(k, b, s, o, n)
    BY <1>1
  <2>2. k \notin upset
    BY <1>1
  <2> QED BY <2>1, <2>2, BooksStep DEF BooksInv
<1> QED BY <1>1 DEF BooksBalance

\* A rate is edited, an invoice is issued: neither is in the books.
LEMMA QuietBooks ==
    ASSUME BooksInv, TypeOK', UNCHANGED <<cdrs, balance, job, postings, upset>>
    PROVE  BooksBalance'
<1>1. ASSUME NEW k \in Customer PROVE Moves(k, 0, 0, 0, 0)
  <2>1. /\ balance[k] \in Int /\ postings[k] \in Nat
        /\ Sold(cdrs, k) \in Int /\ Gains(job, k) \in Int
    BY SoldInt, GainsInt DEF BooksInv, TypeOK
  <2>2. balance'[k] = balance[k] + 0 /\ postings'[k] = postings[k] + 0
    BY <2>1
  <2>3. Sold(cdrs', k) = Sold(cdrs, k) + 0
    BY <2>1
  <2>4. Gains(job', k) = Gains(job, k) + 0
    BY <2>1
  <2> QED BY <2>2, <2>3, <2>4 DEF Moves
<1> QED BY <1>1, BooksNext

\* What a customer's CDRs cost when one of them has another price.
LEMMA SoldAtOne ==
    ASSUME NEW p \in [Cdr -> Price \cup {Absent}], NEW q \in [Cdr -> Price \cup {Absent}],
           NEW e \in Cdr, \A c \in Cdr \ {e} : q[c] = p[c], NEW k \in Customer
    PROVE  Sold(q, k) = Sold(p, k) +
              (IF Owner[e] = k THEN SellAt(q)[e] - SellAt(p)[e] ELSE 0)
<1> DEFINE f == SellAt(p)
           g == SellAt(q)
           S == OwnedBy(k)
<1>1. S \subseteq Cdr /\ IsFiniteSet(S) /\ (e \in S <=> Owner[e] = k)
    BY OwnedFinite DEF OwnedBy
<1>2. /\ \A c \in S : f[c] \in Int /\ g[c] \in Int
      /\ \A c \in S \ {e} : g[c] = f[c]
  <2>1. \A c \in Cdr : f[c] \in Int /\ g[c] \in Int
    BY SellAtInt
  <2>2. \A c \in Cdr \ {e} : g[c] = f[c]
    BY DEF SellAt
  <2> QED BY <1>1, <2>1, <2>2
<1> HIDE DEF f, g, S
<1>3. SumFunctionOnSet(g, S) =
         SumFunctionOnSet(f, S) + (IF e \in S THEN g[e] - f[e] ELSE 0)
    BY <1>1, <1>2, SumChange
<1> QED BY <1>1, <1>3 DEF f, g, S, Sold

\* What the jobs gain when one of them has changed.
LEMMA GainsAtOne ==
    ASSUME NEW jobs \in [Job -> JobType], NEW next \in [Job -> JobType], NEW j \in Job,
           \A i \in Job \ {j} : next[i] = jobs[i], NEW k \in Customer
    PROVE  Gains(next, k) = Gains(jobs, k) + (Gained(next[j], k) - Gained(jobs[j], k))
<1> DEFINE f == [i \in Job |-> Gained(jobs[i], k)]
           g == [i \in Job |-> Gained(next[i], k)]
<1>1. /\ \A i \in Job : f[i] \in Int /\ g[i] \in Int
      /\ \A i \in Job \ {j} : g[i] = f[i]
    BY GainsInt
<1>2. f[j] = Gained(jobs[j], k) /\ g[j] = Gained(next[j], k)
    OBVIOUS
<1> HIDE DEF f, g
<1>3. SumFunctionOnSet(g, Job) = SumFunctionOnSet(f, Job) + (IF j \in Job THEN g[j] - f[j] ELSE 0)
    BY <1>1, SumChange, RecalcAssumption
<1> QED BY <1>2, <1>3 DEF f, g, Gains

LEMMA InsertBooks ==
    ASSUME BooksInv, TypeOK', NEW c \in Cdr, KamailioInsert(c) PROVE BooksBalance'
<1>1. /\ cdrs[c] = Absent /\ cdrs' = [cdrs EXCEPT ![c] = Unrated]
      /\ UNCHANGED <<balance, job, postings, upset>>
    BY DEF KamailioInsert
<1>2. ASSUME NEW k \in Customer PROVE Moves(k, 0, 0, 0, 0)
  <2>1. /\ balance[k] \in Int /\ postings[k] \in Nat
        /\ Sold(cdrs, k) \in Int /\ Gains(job, k) \in Int
    BY SoldInt, GainsInt DEF BooksInv, TypeOK
  <2>2. balance'[k] = balance[k] + 0 /\ postings'[k] = postings[k] + 0
    BY <1>1, <2>1
  <2>3. Sold(cdrs', k) = Sold(cdrs, k) + 0
    <3>1. /\ cdrs \in [Cdr -> Price \cup {Absent}] /\ cdrs' \in [Cdr -> Price \cup {Absent}]
          /\ \A d \in Cdr \ {c} : cdrs'[d] = cdrs[d]
          /\ cdrs'[c] = Unrated
      BY <1>1 DEF BooksInv, TypeOK
    <3>2. SellAt(cdrs')[c] = 0 /\ SellAt(cdrs)[c] = 0
      BY <1>1, <3>1 DEF SellAt, Unrated
    <3> QED BY <3>1, <3>2, SoldAtOne
  <2>4. Gains(job', k) = Gains(job, k) + 0
    BY <1>1, <2>1
  <2> QED BY <2>2, <2>3, <2>4 DEF Moves
<1> QED BY <1>1, <1>2, BooksNext

LEMMA BillBooks ==
    ASSUME BooksInv, TypeOK', NEW c \in Cdr, Bill(c) PROVE BooksBalance'
<1>1. PICK taken \in Nearest(rate[c].sell) :
          balance' = [balance EXCEPT ![Owner[c]] = @ - taken]
    BY DEF Bill
<1>2. /\ cdrs[c] = Unrated /\ cdrs' = [cdrs EXCEPT ![c] = rate[c]]
      /\ postings' = [postings EXCEPT ![Owner[c]] = @ + (IF rate[c].sell > 0 THEN 1 ELSE 0)]
      /\ UNCHANGED <<job, upset>>
    BY DEF Bill
<1>3. /\ balance \in [Customer -> Int] /\ postings \in [Customer -> Nat]
      /\ cdrs \in [Cdr -> Price \cup {Absent}] /\ cdrs' \in [Cdr -> Price \cup {Absent}]
      /\ rate[c] \in Price /\ Absent \notin Price /\ Unrated \in Price
    BY UnratedPrice, RecalcAssumption DEF BooksInv, TypeOK
<1> DEFINE x == rate[c].sell
           n == IF x > 0 THEN 1 ELSE 0
<1>4. x \in Nat
    BY <1>3 DEF Price
<1>5. taken \in Int /\ 100 * taken - x \in -50 .. 50
    BY <1>1, <1>4, NearestClose DEF Close
<1>6. SellAt(cdrs')[c] = x /\ SellAt(cdrs)[c] = 0
  <2>1. cdrs'[c] = rate[c] /\ cdrs[c] = Unrated
    BY <1>2, <1>3
  <2> QED BY <1>3, <2>1 DEF SellAt, Unrated
<1>7. postings' = [postings EXCEPT ![Owner[c]] = @ + n]
    BY <1>2
<1> HIDE DEF x, n
<1>8. ASSUME NEW k \in Customer PROVE \E b, s, o, m : Moves(k, b, s, o, m)
  <2>1. /\ balance[k] \in Int /\ postings[k] \in Nat
        /\ Sold(cdrs, k) \in Int /\ Gains(job, k) \in Int
    BY SoldInt, GainsInt DEF BooksInv, TypeOK
  <2>2. Gains(job', k) = Gains(job, k) + 0
    BY <1>2, <2>1
  <2>3. Sold(cdrs', k) = Sold(cdrs, k) + (IF Owner[c] = k THEN x - 0 ELSE 0)
    <3>1. \A d \in Cdr \ {c} : cdrs'[d] = cdrs[d]
      BY <1>2, <1>3
    <3> QED BY <1>3, <1>6, <3>1, SoldAtOne
  <2>4. CASE Owner[c] = k
    <3>1. n \in Nat /\ 100 * (-taken) + x - 0 \in -50 * n .. 50 * n
      <4>1. CASE x = 0
        <5>1. n = 0
          BY <4>1 DEF n
        <5>2. taken = 0
          BY <1>5, <4>1
        <5> QED BY <4>1, <5>1, <5>2
      <4>2. CASE x > 0
        <5>1. n = 1
          BY <4>2 DEF n
        <5> QED BY <1>4, <1>5, <5>1
      <4> QED BY <1>4, <4>1, <4>2
    <3>2. balance'[k] = balance[k] + (-taken)
      <4>1. balance'[k] = balance[k] - taken
        BY <1>1, <1>3, <2>4
      <4> QED BY <1>5, <2>1, <4>1
    <3>3. postings'[k] = postings[k] + n
      BY <1>3, <1>7, <2>4
    <3>4. Sold(cdrs', k) = Sold(cdrs, k) + x
      BY <1>4, <2>3, <2>4
    <3>5. x \in Int /\ -taken \in Int
      BY <1>4, <1>5
    <3>6. Moves(k, -taken, x, 0, n)
      BY <2>2, <3>1, <3>2, <3>3, <3>4, <3>5 DEF Moves
    <3> QED BY <3>6
  <2>5. CASE Owner[c] # k
    <3>1. balance'[k] = balance[k] + 0 /\ postings'[k] = postings[k] + 0
      BY <1>1, <1>3, <1>7, <2>1, <2>5
    <3>2. Sold(cdrs', k) = Sold(cdrs, k) + 0
      BY <2>3, <2>5
    <3>3. Moves(k, 0, 0, 0, 0)
      BY <2>2, <3>1, <3>2 DEF Moves
    <3> QED BY <3>3
  <2> QED BY <2>4, <2>5
<1> QED BY <1>2, <1>8, BooksNext

LEMMA ScanBooks ==
    ASSUME BooksInv, TypeOK', NEW j \in Job, Scan(j) PROVE BooksBalance'
<1>1. PICK rows, seen, prices : job' = [job EXCEPT ![j] = Running("apply", rows, {}, seen, prices)]
    BY DEF Scan
<1>2. job[j].pc = "idle" /\ UNCHANGED <<cdrs, balance, postings, upset>>
    BY DEF Scan
<1> DEFINE new == Running("apply", rows, {}, seen, prices)
<1>3. new.written = {}
    BY DEF Running
<1> HIDE DEF new
<1>4. /\ job \in [Job -> JobType] /\ job' \in [Job -> JobType]
      /\ \A i \in Job : job'[i] = IF i = j THEN new ELSE job[i]
    BY <1>1 DEF new, BooksInv, TypeOK
<1>5. job[j] = Idle
    BY <1>2 DEF BooksInv, TypeOK, Applying
<1>6. ASSUME NEW k \in Customer PROVE Moves(k, 0, 0, 0, 0)
  <2>1. /\ balance[k] \in Int /\ postings[k] \in Nat
        /\ Sold(cdrs, k) \in Int /\ Gains(job, k) \in Int
    BY SoldInt, GainsInt DEF BooksInv, TypeOK
  <2>2. balance'[k] = balance[k] + 0 /\ postings'[k] = postings[k] + 0
        /\ Sold(cdrs', k) = Sold(cdrs, k) + 0
    BY <1>2, <2>1
  <2>3. Gained(job'[j], k) = 0 /\ Gained(job[j], k) = 0
    BY <1>3, <1>4, <1>5, IdleType, EmptyGained
  <2>4. Gains(job', k) = Gains(job, k) + (Gained(job'[j], k) - Gained(job[j], k))
    BY <1>4, GainsAtOne
  <2>5. Gains(job', k) = Gains(job, k) + 0
    BY <2>3, <2>4
  <2> QED BY <2>2, <2>5 DEF Moves
<1> QED BY <1>2, <1>6, BooksNext

\* What a customer's CDRs cost when some of them have other prices.
LEMMA SoldMore ==
    ASSUME NEW p \in [Cdr -> Price \cup {Absent}], NEW q \in [Cdr -> Price \cup {Absent}],
           NEW rows \in SUBSET Cdr, NEW r \in JobType, NEW k \in Customer,
           \A c \in Cdr \ rows : q[c] = p[c],
           \A c \in rows \cap OwnedBy(k) : SellAt(q)[c] = SellAt(p)[c] + Gain(r)[c]
    PROVE  Sold(q, k) = Sold(p, k) + SumFunctionOnSet(Gain(r), rows \cap OwnedBy(k))
<1> DEFINE S == OwnedBy(k)
           f == SellAt(p)
           g == SellAt(q)
           d == Gain(r)
           z == [c \in Cdr |-> IF c \in rows THEN d[c] ELSE 0]
<1>1. S \subseteq Cdr /\ IsFiniteSet(S)
    BY OwnedFinite
<1>2. IsFiniteSet(rows \cap S) /\ IsFiniteSet(S \ rows)
    BY <1>1, FS_Subset
<1>3. \A c \in Cdr : f[c] \in Int /\ g[c] \in Int /\ d[c] \in Int
    BY SellAtInt, GainInt
<1>4. \A c \in S \ rows : g[c] = f[c]
    BY <1>1 DEF SellAt
<1>5. \A c \in rows \cap S : g[c] = f[c] + d[c]
    OBVIOUS
<1>6. /\ \A c \in rows \cap S : z[c] = d[c]
      /\ \A c \in S \ rows : z[c] = 0
    BY <1>1
<1>7. /\ S = (rows \cap S) \cup (S \ rows)
      /\ (rows \cap S) \cap (S \ rows) = {}
    OBVIOUS
<1> HIDE DEF S, f, g, d, z
<1>8. \A c \in S : z[c] \in Int /\ f[c] \in Int /\ g[c] = f[c] + z[c]
  <2> TAKE c \in S
  <2>1. CASE c \in rows
    BY <1>1, <1>3, <1>5, <1>6, <2>1
  <2>2. CASE c \notin rows
    BY <1>1, <1>3, <1>4, <1>6, <2>2
  <2> QED BY <2>1, <2>2
<1>9. SumFunctionOnSet(g, S) = SumFunctionOnSet(f, S) + SumFunctionOnSet(z, S)
    BY <1>1, <1>8, SumPlus
<1>10. SumFunctionOnSet(z, S) = SumFunctionOnSet(z, rows \cap S) + SumFunctionOnSet(z, S \ rows)
    BY <1>1, <1>7, <1>8, SumUnion
<1>11. SumFunctionOnSet(z, S \ rows) = 0
    BY <1>2, <1>6, SumZero
<1>12. SumFunctionOnSet(z, rows \cap S) = SumFunctionOnSet(d, rows \cap S)
    BY <1>2, <1>6, SumSame
<1>13. SumFunctionOnSet(z, rows \cap S) \in Int
    BY <1>2, <1>7, <1>8, SumInt
<1>14. SumFunctionOnSet(z, S) = SumFunctionOnSet(d, rows \cap S)
    BY <1>10, <1>11, <1>12, <1>13
<1> QED BY <1>9, <1>14 DEF S, f, g, d, Sold

\* What a job has gained when it has written more rows.
LEMMA GainedMore ==
    ASSUME NEW r \in JobType, NEW rows \in SUBSET Cdr, rows \cap r.written = {},
           NEW n, n.written = r.written \cup rows, n.prices = r.prices, n.seen = r.seen,
           NEW k \in Customer
    PROVE  Gained(n, k) = Gained(r, k) + SumFunctionOnSet(Gain(r), rows \cap OwnedBy(k))
<1> DEFINE A == r.written \cap OwnedBy(k)
           B == rows \cap OwnedBy(k)
           S == n.written \cap OwnedBy(k)
           f == Gain(r)
<1>1. Gain(n) = f
    BY DEF Gain
<1>2. r.written \in SUBSET Cdr
    BY DEF JobType
<1>3. S = A \cup B /\ A \cap B = {} /\ IsFiniteSet(S)
    BY OwnedFinite, FS_Subset
<1>4. \A c \in S : f[c] \in Int
    BY <1>2, GainInt
<1>5. Gained(r, k) = SumFunctionOnSet(f, A) /\ Gained(n, k) = SumFunctionOnSet(f, S)
    BY <1>1 DEF Gained
<1> HIDE DEF A, S, B, f
<1>6. SumFunctionOnSet(f, S) = SumFunctionOnSet(f, A) + SumFunctionOnSet(f, B)
    BY <1>3, <1>4, SumUnion
<1> QED BY <1>5, <1>6 DEF B, f

\* A chunk raises what the CDRs of a customer say and what its job has gained by
\* the same, unless a price had changed since the scan.
LEMMA ChunkBooks ==
    ASSUME BooksInv, TypeOK', NEW j \in Job, ApplyChunk(j) PROVE BooksBalance'
<1>1. PICK rows \in Chunks(job[j].todo) :
          /\ cdrs' = [c \in Cdr |-> IF c \in rows THEN job[j].prices[c] ELSE cdrs[c]]
          /\ job' = [job EXCEPT ![j].todo = @ \ rows, ![j].written = @ \cup rows]
          /\ upset' = upset \cup {Owner[c] : c \in {d \in rows : Sell(d) # job[j].seen[d]}}
    BY DEF ApplyChunk
<1>2. UNCHANGED <<balance, postings>> /\ Applying(j)
    BY DEF ApplyChunk
<1>3. /\ job \in [Job -> JobType] /\ job' \in [Job -> JobType] /\ job[j] \in JobType
      /\ cdrs \in [Cdr -> Price \cup {Absent}] /\ cdrs' \in [Cdr -> Price \cup {Absent}]
    BY DEF BooksInv, TypeOK
<1>4. /\ rows \in SUBSET Cdr /\ rows \cap job[j].written = {}
      /\ \A c \in rows : InTable(c)
  <2>1. rows \subseteq job[j].todo
    BY ChunksAre
  <2> QED BY <1>2, <1>3, <2>1 DEF JobType, BooksInv, TypeOK, WrittenOnce
<1>5. /\ \A i \in Job \ {j} : job'[i] = job[i]
      /\ job'[j].written = job[j].written \cup rows
      /\ job'[j].prices = job[j].prices /\ job'[j].seen = job[j].seen
  <2>1. /\ \A i \in Job : i # j => job'[i] = job[i]
        /\ job'[j] = Running(job[j].pc, job[j].todo \ rows, job[j].written \cup rows,
                             job[j].seen, job[j].prices)
    BY <1>1, <1>4, ChunkJob DEF BooksInv
  <2> QED BY <2>1 DEF Running
<1>6. ASSUME NEW k \in Customer, k \notin upset' PROVE \E b, s, o, n : Moves(k, b, s, o, n)
  <2> DEFINE more == SumFunctionOnSet(Gain(job[j]), rows \cap OwnedBy(k))
  <2>1. /\ balance[k] \in Int /\ postings[k] \in Nat /\ Gains(job, k) \in Int
        /\ Gained(job[j], k) \in Int /\ more \in Int
    BY <1>3, <1>4, GainsInt, GainedInt DEF BooksInv, TypeOK
  <2>2. \A c \in rows \cap OwnedBy(k) : SellAt(cdrs')[c] = SellAt(cdrs)[c] + Gain(job[j])[c]
    <3> TAKE c \in rows \cap OwnedBy(k)
    <3>1. Sell(c) = job[j].seen[c]
      BY <1>1, <1>6 DEF OwnedBy
    <3>2. c \in Cdr /\ cdrs'[c] = job[j].prices[c] /\ job[j].prices[c] \in Price
      BY <1>1, <1>3, <1>4 DEF JobType
    <3>3. SellAt(cdrs')[c] = job[j].prices[c].sell
      BY <3>2, RecalcAssumption DEF SellAt
    <3>4. SellAt(cdrs)[c] = Sell(c)
      BY <3>2 DEF SellAt, Sell
    <3>5. job[j].prices[c].sell \in Int /\ Sell(c) \in Int
      BY <3>2, SellInt DEF Price, BooksInv
    <3>6. Gain(job[j])[c] = job[j].prices[c].sell - Sell(c)
      BY <3>1, <3>2 DEF Gain
    <3> DEFINE u == job[j].prices[c].sell
               v == Sell(c)
    <3> HIDE DEF u, v
    <3>7. u \in Int /\ v \in Int
      BY <3>5 DEF u, v
    <3>8. u = v + (u - v)
      BY <3>7
    <3> QED BY <3>3, <3>4, <3>6, <3>8 DEF u, v
  <2>3. \A c \in Cdr \ rows : cdrs'[c] = cdrs[c]
    BY <1>1
  <2>4. Sold(cdrs', k) = Sold(cdrs, k) + more
    BY <1>3, <1>4, <2>2, <2>3, SoldMore
  <2>5. Gained(job'[j], k) = Gained(job[j], k) + more
    BY <1>3, <1>4, <1>5, GainedMore
  <2> HIDE DEF more
  <2>6. Gains(job', k) = Gains(job, k) + more
    <3>1. Gains(job', k) = Gains(job, k) + (Gained(job'[j], k) - Gained(job[j], k))
      BY <1>3, <1>5, GainsAtOne
    <3> DEFINE was == Gained(job[j], k)
    <3> HIDE DEF was
    <3>2. was \in Int /\ Gains(job', k) = Gains(job, k) + ((was + more) - was)
      BY <2>1, <2>5, <3>1 DEF was
    <3> QED BY <2>1, <3>2
  <2>7. balance'[k] = balance[k] + 0 /\ postings'[k] = postings[k] + 0
    BY <1>2, <2>1
  <2>8. 100 * 0 + more - more \in -50 * 0 .. 50 * 0
    BY <2>1
  <2>9. Moves(k, 0, more, more, 0)
    BY <2>1, <2>4, <2>6, <2>7, <2>8 DEF Moves
  <2> QED BY <2>9
<1> QED BY <1>1, <1>6, BooksNext

\* A job whose rows are not all written has a chunk of them to write.
LEMMA NoChunk == ASSUME NEW todo \in SUBSET Cdr, Chunks(todo) = {} PROVE todo = {}
<1>1. IsFiniteSet(todo) /\ Cardinality(todo) \in Nat /\ ChunkSize \in Nat \ {0}
    BY RecalcAssumption, FS_Subset, FS_CardinalityType
<1>2. Cardinality(todo) \notin 1 .. ChunkSize - 1 /\ WholeChunks(todo) = {}
    BY DEF Chunks
<1> DEFINE large == {s \in SUBSET todo : Cardinality(s) >= ChunkSize}
<1>0. /\ large \in SUBSET SUBSET todo
      /\ \A s \in SUBSET todo : s \in large <=> Cardinality(s) >= ChunkSize
    OBVIOUS
<1> HIDE DEF large
<1>3. large = {}
  <2> SUFFICES ASSUME large # {} PROVE FALSE
    OBVIOUS
  <2>1. PICK m \in large : \A u \in large : u \subseteq m => u = m
    BY <1>0, <1>1, MinimalSet
  <2>2. IsFiniteSet(m) /\ Cardinality(m) \in Nat /\ m \subseteq todo /\ Cardinality(m) >= ChunkSize
    BY <1>0, <1>1, FS_Subset, FS_CardinalityType
  <2>3. PICK x : x \in m
    BY <1>1, <2>2, FS_EmptySet
  <2>4. IsFiniteSet(m \ {x}) /\ Cardinality(m \ {x}) = Cardinality(m) - 1
    BY <2>2, <2>3, FS_RemoveElement
  <2>5. m \ {x} \notin large
    BY <2>1, <2>3
  <2>6. Cardinality(m) = ChunkSize
    BY <1>0, <1>1, <2>2, <2>4, <2>5
  <2> QED BY <1>2, <2>2, <2>6 DEF WholeChunks
<1>4. Cardinality(todo) < ChunkSize
    BY <1>0, <1>1, <1>3
<1>5. Cardinality(todo) = 0
    BY <1>1, <1>2, <1>4
<1> QED BY <1>1, <1>5, FS_EmptySet


\* A job that ends takes what it has gained with it.
LEMMA EndedGains ==
    ASSUME TypeOK, NEW j \in Job, job' = [job EXCEPT ![j] = Idle], NEW k \in Customer
    PROVE  /\ Gained(job[j], k) \in Int /\ Gains(job, k) \in Int
           /\ Gains(job', k) = Gains(job, k) + (-Gained(job[j], k))
<1>1. /\ job \in [Job -> JobType] /\ job' \in [Job -> JobType]
      /\ \A i \in Job \ {j} : job'[i] = job[i]
      /\ job'[j] = Idle
    BY IdleType DEF TypeOK
<1>2. Gained(job'[j], k) = 0
    BY <1>1, IdleType, EmptyGained
<1>3. Gains(job', k) = Gains(job, k) + (Gained(job'[j], k) - Gained(job[j], k))
    BY ONLY <1>1, GainsAtOne, j \in Job, k \in Customer
<1> DEFINE was == Gained(job[j], k)
<1>4. was \in Int /\ Gains(job, k) \in Int
    BY <1>1, GainsInt
<1> HIDE DEF was
<1>5. Gains(job', k) = Gains(job, k) + (0 - was)
    BY <1>2, <1>3 DEF was
<1>6. 0 - was = -was
    BY <1>4
<1> QED BY <1>4, <1>5, <1>6 DEF was

\* The corrections give back what the job has gained.
LEMMA AdjustBooks ==
    ASSUME BooksInv, TypeOK', NEW j \in Job, AdjustBalances(j) PROVE BooksBalance'
<1>1. PICK given \in [Customer -> UNION {Nearest(Credit(j, k)) : k \in Customer}] :
          /\ \A k \in Customer : given[k] \in Nearest(Credit(j, k))
          /\ balance' = [k \in Customer |-> balance[k] + given[k]]
    BY DEF AdjustBalances, Corrected
<1>2. /\ postings' = [k \in Customer |-> postings[k] + (IF Credit(j, k) = 0 THEN 0 ELSE 1)]
      /\ job' = [job EXCEPT ![j] = Idle] /\ UNCHANGED <<cdrs, upset>>
      /\ Chunks(job[j].todo) = {}
    BY DEF AdjustBalances, Corrected
<1>3. TypeOK /\ job[j] \in JobType
    BY DEF BooksInv, TypeOK
<1>4. job[j].todo = {} /\ job[j].written \in SUBSET Cdr
    BY <1>2, <1>3, NoChunk DEF JobType
<1>5. ASSUME NEW k \in Customer PROVE \E b, s, o, n : Moves(k, b, s, o, n)
  <2> DEFINE was == Gained(job[j], k)
             b == given[k]
             n == IF Credit(j, k) = 0 THEN 0 ELSE 1
  <2>1. was \in Int /\ Gains(job', k) = Gains(job, k) + (-was)
    BY <1>2, <1>3, EndedGains
  <2>2. Credit(j, k) = -was
    <3>1. job[j].todo \cup job[j].written = job[j].written
      BY <1>4
    <3>2. Delta(j, k, job[j].written) = was
      BY <1>3, <1>4, DeltaIs DEF Gained
    <3> QED BY <3>1, <3>2 DEF Credit
  <2>3. b \in Int /\ 100 * b - Credit(j, k) \in -50 .. 50
    BY <1>1, <1>3, CreditInt, NearestClose DEF Close
  <2>4. balance'[k] = balance[k] + b /\ postings'[k] = postings[k] + n
    BY <1>1, <1>2
  <2>5. Sold(cdrs', k) = Sold(cdrs, k) + 0
    <3>1. Sold(cdrs, k) \in Int
      BY <1>3, SoldInt DEF TypeOK
    <3> QED BY <1>2, <3>1
  <2>6. n = IF -was = 0 THEN 0 ELSE 1
    BY <2>2
  <2> HIDE DEF was, b, n
  <2>7. b \in Int /\ 100 * b - (-was) \in -50 .. 50
    BY <2>2, <2>3
  <2>8. n \in Nat /\ 100 * b + 0 - (-was) \in -50 * n .. 50 * n
    <3>1. CASE -was = 0
      <4>1. n = 0 /\ b = 0 /\ was = 0
        BY <2>1, <2>6, <2>7, <3>1
      <4> QED BY <4>1
    <3>2. CASE -was # 0
      <4>1. n = 1
        BY <2>6, <3>2
      <4> QED BY <2>1, <2>7, <4>1
    <3> QED BY <3>1, <3>2
  <2>9. -was \in Int
    BY <2>1
  <2>10. Moves(k, b, 0, -was, n)
    BY <2>1, <2>4, <2>5, <2>7, <2>8, <2>9 DEF Moves
  <2> QED BY <2>10
<1> QED BY <1>2, <1>5, BooksNext

\* A job that dies has gained nothing from the customers it has not upset.
LEMMA AbortBooks ==
    ASSUME BooksInv, TypeOK', NEW j \in Job, Abort(j) PROVE BooksBalance'
<1>1. /\ job' = [job EXCEPT ![j] = Idle] /\ UNCHANGED <<cdrs, balance, postings>>
      /\ upset' = upset \cup {Owner[c] : c \in job[j].written}
    BY DEF Abort
<1>2. TypeOK
    BY DEF BooksInv
<1>3. ASSUME NEW k \in Customer, k \notin upset' PROVE Moves(k, 0, 0, 0, 0)
  <2>1. job[j].written \cap OwnedBy(k) = {}
    BY <1>1, <1>3 DEF OwnedBy
  <2>2. Gained(job[j], k) = 0
    BY <2>1, EmptyGained
  <2>3. Gains(job', k) = Gains(job, k) + 0
    <3>1. Gains(job', k) = Gains(job, k) + (-Gained(job[j], k))
      BY <1>1, <1>2, EndedGains
    <3> QED BY <2>2, <3>1
  <2>4. /\ balance[k] \in Int /\ postings[k] \in Nat /\ Sold(cdrs, k) \in Int
    BY <1>2, SoldInt DEF TypeOK
  <2>5. balance'[k] = balance[k] + 0 /\ postings'[k] = postings[k] + 0
        /\ Sold(cdrs', k) = Sold(cdrs, k) + 0
    BY <1>1, <2>4
  <2> QED BY <2>3, <2>5 DEF Moves
<1> QED BY <1>1, <1>3, BooksNext

\* Customers, CDRs, jobs and prices in any number, jobs that overlap and die,
\* workers that bill and rates that are edited meanwhile: a balance is what its
\* customer's CDRs say, to half a ten-thousandth for each amount that was
\* rounded into it, unless a job has written over a price that had changed since
\* its scan or has died between its chunks and its corrections
\* (billing_recalc.py:278-378).
THEOREM RecalcBooksBalance == Spec => []BooksBalance
<1>1. BooksInv /\ [Next]_vars => BooksInv'
  <2> SUFFICES ASSUME BooksInv, [Next]_vars PROVE BooksInv'
    OBVIOUS
  <2>1. TypeOK'
    BY TypeNext DEF BooksInv
  <2>2. WrittenOnce'
    BY WrittenOnceNext DEF BooksInv
  <2>3. ASSUME UNCHANGED vars PROVE BooksBalance'
    <3>1. cdrs' = cdrs /\ balance' = balance /\ job' = job /\ postings' = postings /\ upset' = upset
      BY <2>3 DEF vars
    <3> QED BY <2>1, <3>1, QuietBooks
  <2>4. ASSUME NEW c \in Cdr, KamailioInsert(c) \/ Bill(c) \/ EditRate(c) PROVE BooksBalance'
    <3>1. EditRate(c) => UNCHANGED <<cdrs, balance, job, postings, upset>>
      BY DEF EditRate
    <3> QED BY <2>1, <2>4, <3>1, InsertBooks, BillBooks, QuietBooks
  <2>5. ASSUME NEW k \in Customer, IssueInvoice(k) PROVE BooksBalance'
    BY <2>1, <2>5, QuietBooks DEF IssueInvoice
  <2>6. ASSUME NEW j \in Job, Scan(j) \/ ApplyChunk(j) \/ AdjustBalances(j) \/ Abort(j)
        PROVE  BooksBalance'
    <3>1. CASE Scan(j)
      BY <2>1, <3>1, ScanBooks
    <3>2. CASE ApplyChunk(j)
      BY <2>1, <3>2, ChunkBooks
    <3>3. CASE AdjustBalances(j)
      BY <2>1, <3>3, AdjustBooks
    <3>4. CASE Abort(j)
      BY ONLY j \in Job, BooksInv, <2>1, <3>4, AbortBooks
    <3> QED BY <2>6, <3>1, <3>2, <3>3, <3>4
  <2>7. ASSUME Next PROVE BooksBalance'
    <3>1. \/ \E c \in Cdr : KamailioInsert(c) \/ Bill(c) \/ EditRate(c)
          \/ \E k \in Customer : IssueInvoice(k)
          \/ \E j \in Job : Scan(j) \/ ApplyChunk(j) \/ AdjustBalances(j) \/ Abort(j)
      BY <2>7 DEF Next
    <3> QED BY <2>4, <2>5, <2>6, <3>1
  <2> QED BY <2>1, <2>2, <2>3, <2>7 DEF BooksInv
<1>2. BooksInv => BooksBalance
    BY DEF BooksInv
<1> QED BY BooksInit, <1>1, <1>2, PTL DEF Spec
=============================================================================
