-------------------------------- MODULE Sums --------------------------------
(***************************************************************************)
(* Facts about SumFunctionOnSet, the sum of a function over a finite set,  *)
(* in which the modules add up prices, differences and ledger rows.  The   *)
(* sum is a fold that takes the elements out one by one; that the order    *)
(* does not matter, and all that follows, is proved by taking, among the   *)
(* subsets for which a fact fails, one that has no smaller one in it.  And  *)
(* facts about the roundings of Money.                                     *)
(***************************************************************************)
EXTENDS Integers, FiniteSets, Functions, Money, FiniteSetTheorems, TLAPS

\* Among subsets of a finite set there is one that contains no other.
LEMMA MinimalSet ==
    ASSUME NEW D, IsFiniteSet(D), NEW T \in SUBSET SUBSET D, T # {}
    PROVE  \E m \in T : \A u \in T : u \subseteq m => u = m
<1>1. IsWellFoundedOn(StrictSubsetOrdering(D), FiniteSubsetsOf(D))
  BY FS_StrictSubsetOrderingWellFounded
<1>2. FiniteSubsetsOf(D) = SUBSET D
  BY FS_FiniteSubsetsOfFinite
<1>3. PICK m \in T : \A u \in T : ~(<<u, m>> \in StrictSubsetOrdering(D))
  BY <1>1, <1>2, WFMin
<1>4. ASSUME NEW u \in T, u \subseteq m PROVE u = m
  BY <1>3, <1>4 DEF StrictSubsetOrdering
<1> QED BY <1>4

\* The element that the fold takes out of a set.
Pick(s) == CHOOSE x \in s : TRUE

\* It is one of them.
LEMMA PickIn == \A s : s # {} => Pick(s) \in s
BY DEF Pick

\* The function inside the fold: the sum over every subset of D.
IsSums(g, f, D) ==
    g = [s \in SUBSET D |-> IF s = {} THEN 0 ELSE f[Pick(s)] + g[s \ {Pick(s)}]]

SumsOf(f, D) == CHOOSE g : IsSums(g, f, D)

\* The sum is the last of the sums that the fold is made of.
LEMMA SumDef ==
    ASSUME NEW f, NEW D
    PROVE  SumFunctionOnSet(f, D) = SumsOf(f, D)[D]
BY DEF SumFunctionOnSet, FoldFunctionOnSet, MapThenFoldSet, IsSums, SumsOf, Pick

\* Two functions that follow the recursion agree where both are defined.
LEMMA IsSumsAgree ==
    ASSUME NEW f, NEW D, IsFiniteSet(D), NEW E \in SUBSET D, NEW g, NEW h,
           IsSums(g, f, D), IsSums(h, f, E)
    PROVE  \A s \in SUBSET E : g[s] = h[s]
<1> DEFINE T == {s \in SUBSET E : g[s] # h[s]}
<1> SUFFICES ASSUME T # {} PROVE FALSE
  OBVIOUS
<1>1. PICK m \in T : \A u \in T : u \subseteq m => u = m
  <2>1. IsFiniteSet(E)
    BY FS_Subset
  <2>2. T \in SUBSET SUBSET E
    OBVIOUS
  <2> HIDE DEF T
  <2> QED BY <2>1, <2>2, MinimalSet
<1>2. m \in SUBSET E /\ m \in SUBSET D
  BY <1>1
<1>3. g[m] = IF m = {} THEN 0 ELSE f[Pick(m)] + g[m \ {Pick(m)}]
  BY <1>2 DEF IsSums
<1>4. h[m] = IF m = {} THEN 0 ELSE f[Pick(m)] + h[m \ {Pick(m)}]
  BY <1>2 DEF IsSums
<1>5. m # {}
  BY <1>1, <1>3, <1>4
<1>6. Pick(m) \in m
  BY <1>5, PickIn
<1>7. g[m \ {Pick(m)}] = h[m \ {Pick(m)}]
  BY <1>1, <1>2, <1>6
<1> QED BY <1>1, <1>3, <1>4, <1>7

\* The recursion defines a function.
LEMMA IsSumsExist ==
    ASSUME NEW f, NEW D, IsFiniteSet(D)
    PROVE  \E g : IsSums(g, f, D)
<1> DEFINE T == {U \in SUBSET D : ~ \E g : IsSums(g, f, U)}
<1> SUFFICES ASSUME T # {} PROVE FALSE
  OBVIOUS
<1>1. PICK m \in T : \A u \in T : u \subseteq m => u = m
  <2>1. T \in SUBSET SUBSET D
    OBVIOUS
  <2> HIDE DEF T
  <2> QED BY <2>1, MinimalSet
<1>2. m \in SUBSET D /\ IsFiniteSet(m)
  BY <1>1, FS_Subset
<1>3. ASSUME NEW U \in SUBSET m, U # m PROVE IsSums(SumsOf(f, U), f, U)
  <2>1. \E g : IsSums(g, f, U)
    BY <1>1, <1>2, <1>3
  <2> QED BY <2>1 DEF SumsOf
<1> DEFINE h == [s \in SUBSET m |-> IF s = {} THEN 0
                   ELSE f[Pick(s)] + SumsOf(f, s \ {Pick(s)})[s \ {Pick(s)}]]
<1>4. ASSUME NEW t \in SUBSET m, t # m PROVE h[t] = SumsOf(f, t)[t]
  <2>1. IsSums(SumsOf(f, t), f, t)
    BY <1>3, <1>4
  <2>2. SumsOf(f, t)[t] = IF t = {} THEN 0 ELSE f[Pick(t)] + SumsOf(f, t)[t \ {Pick(t)}]
    <3> DEFINE g == SumsOf(f, t)
    <3> HIDE DEF g
    <3>1. g[t] = IF t = {} THEN 0 ELSE f[Pick(t)] + g[t \ {Pick(t)}]
      <4>1. IsSums(g, f, t)
        BY <2>1 DEF g
      <4> QED BY <4>1 DEF IsSums
    <3> QED BY <3>1 DEF g
  <2>3. CASE t = {}
    BY <2>2, <2>3
  <2>4. CASE t # {}
    <3> DEFINE u == t \ {Pick(t)}
    <3>1. Pick(t) \in t
      BY <2>4, PickIn
    <3>2. u \in SUBSET m /\ u # m /\ u \in SUBSET t
      BY <3>1
    <3>3. IsSums(SumsOf(f, u), f, u)
      BY <1>3, <3>2
    <3>4. IsFiniteSet(t)
      BY <1>2, FS_Subset
    <3>5. SumsOf(f, t)[u] = SumsOf(f, u)[u]
      BY <2>1, <3>2, <3>3, <3>4, IsSumsAgree
    <3> QED BY <2>2, <2>4, <3>5
  <2> QED BY <2>3, <2>4
<1>5. IsSums(h, f, m)
  <2>1. ASSUME NEW s \in SUBSET m, s # {}
        PROVE  h[s] = f[Pick(s)] + h[s \ {Pick(s)}]
    <3>1. Pick(s) \in s
      BY <2>1, PickIn
    <3>2. s \ {Pick(s)} \in SUBSET m /\ s \ {Pick(s)} # m
      BY <3>1
    <3>3. h[s \ {Pick(s)}] = SumsOf(f, s \ {Pick(s)})[s \ {Pick(s)}]
      BY <1>4, <3>2
    <3> QED BY <2>1, <3>3
  <2>2. h[{}] = 0
    OBVIOUS
  <2>3. h = [s \in SUBSET m |-> h[s]]
    OBVIOUS
  <2> HIDE DEF h
  <2>4. \A s \in SUBSET m : h[s] = IF s = {} THEN 0 ELSE f[Pick(s)] + h[s \ {Pick(s)}]
    BY <2>1, <2>2
  <2> QED BY <2>3, <2>4 DEF IsSums
<1> QED BY <1>1, <1>5

\* So the fold follows it.
LEMMA SumsOfAre ==
    ASSUME NEW f, NEW D, IsFiniteSet(D)
    PROVE  IsSums(SumsOf(f, D), f, D)
BY IsSumsExist DEF SumsOf

\* The recursion, for the sum itself.
LEMMA SumPicked ==
    ASSUME NEW f, NEW S, IsFiniteSet(S)
    PROVE  SumFunctionOnSet(f, S) =
              IF S = {} THEN 0
              ELSE f[Pick(S)] + SumFunctionOnSet(f, S \ {Pick(S)})
<1>0. IsSums(SumsOf(f, S), f, S)
  BY SumsOfAre
<1>1. SumsOf(f, S)[S] = IF S = {} THEN 0 ELSE f[Pick(S)] + SumsOf(f, S)[S \ {Pick(S)}]
  <2> DEFINE g == SumsOf(f, S)
  <2> HIDE DEF g
  <2>1. IsSums(g, f, S)
    BY <1>0 DEF g
  <2>2. g[S] = IF S = {} THEN 0 ELSE f[Pick(S)] + g[S \ {Pick(S)}]
    BY <2>1 DEF IsSums
  <2> QED BY <2>2 DEF g
<1> DEFINE E == S \ {Pick(S)}
<1>2. E \in SUBSET S /\ IsFiniteSet(E)
  BY FS_Subset
<1>3. IsSums(SumsOf(f, E), f, E)
  BY <1>2, SumsOfAre
<1>4. SumsOf(f, S)[E] = SumsOf(f, E)[E]
  BY <1>0, <1>2, <1>3, IsSumsAgree
<1> QED BY <1>1, <1>4, SumDef

\* Nothing adds up to zero.
LEMMA SumEmpty == \A f : SumFunctionOnSet(f, {}) = 0
BY SumPicked, FS_EmptySet

\* A sum of integers is one.
LEMMA SumInt ==
    ASSUME NEW S, IsFiniteSet(S), NEW f, \A x \in S : f[x] \in Int
    PROVE  SumFunctionOnSet(f, S) \in Int
<1> DEFINE T == {s \in SUBSET S : SumFunctionOnSet(f, s) \notin Int}
<1> SUFFICES ASSUME T # {} PROVE FALSE
  OBVIOUS
<1>1. PICK m \in T : \A u \in T : u \subseteq m => u = m
  <2>1. T \in SUBSET SUBSET S
    OBVIOUS
  <2> HIDE DEF T
  <2> QED BY <2>1, MinimalSet
<1>2. IsFiniteSet(m)
  BY FS_Subset
<1>3. CASE m = {}
  BY <1>1, <1>3, SumEmpty
<1>4. CASE m # {}
  <2>1. Pick(m) \in m
    BY <1>4, PickIn
  <2>2. SumFunctionOnSet(f, m \ {Pick(m)}) \in Int
    BY <1>1, <2>1
  <2>3. f[Pick(m)] \in Int
    BY <2>1
  <2>4. SumFunctionOnSet(f, m) = f[Pick(m)] + SumFunctionOnSet(f, m \ {Pick(m)})
    BY <1>2, <1>4, SumPicked
  <2> QED BY <1>1, <2>2, <2>3, <2>4
<1> QED BY <1>3, <1>4

\* Any element may be taken apart, not only the one that the fold takes.
LEMMA SumRemove ==
    ASSUME NEW S, IsFiniteSet(S), NEW f, \A x \in S : f[x] \in Int, NEW e \in S
    PROVE  SumFunctionOnSet(f, S) = f[e] + SumFunctionOnSet(f, S \ {e})
<1> DEFINE T == {s \in SUBSET S : \E x \in s :
                   SumFunctionOnSet(f, s) # f[x] + SumFunctionOnSet(f, s \ {x})}
<1> SUFFICES ASSUME T # {} PROVE FALSE
  OBVIOUS
<1>1. PICK m \in T : \A u \in T : u \subseteq m => u = m
  <2>1. T \in SUBSET SUBSET S
    OBVIOUS
  <2> HIDE DEF T
  <2> QED BY <2>1, MinimalSet
<1>2. PICK x \in m : SumFunctionOnSet(f, m) # f[x] + SumFunctionOnSet(f, m \ {x})
  BY <1>1
<1> DEFINE p == Pick(m)
<1>3. p \in m /\ x \in S /\ p \in S /\ f[x] \in Int /\ f[p] \in Int
  BY <1>2, PickIn
<1>4. \A s \in SUBSET S : IsFiniteSet(s) /\ SumFunctionOnSet(f, s) \in Int
  <2> TAKE s \in SUBSET S
  <2>1. IsFiniteSet(s)
    BY FS_Subset
  <2> QED BY <2>1, SumInt
<1>5. SumFunctionOnSet(f, m) = f[p] + SumFunctionOnSet(f, m \ {p})
  BY <1>3, <1>4, SumPicked
<1>6. x # p
  BY <1>2, <1>5
<1>7. m \ {p} \notin T /\ m \ {x} \notin T
  BY <1>1, <1>2, <1>3
<1>8. SumFunctionOnSet(f, m \ {p}) = f[x] + SumFunctionOnSet(f, (m \ {p}) \ {x})
  BY <1>2, <1>6, <1>7
<1>9. SumFunctionOnSet(f, m \ {x}) = f[p] + SumFunctionOnSet(f, (m \ {x}) \ {p})
  BY <1>3, <1>6, <1>7
<1>10. (m \ {p}) \ {x} = (m \ {x}) \ {p}
  OBVIOUS
<1>11. SumFunctionOnSet(f, (m \ {p}) \ {x}) \in Int
  BY <1>4
<1> DEFINE fx == f[x]
           fp == f[p]
           r  == SumFunctionOnSet(f, (m \ {p}) \ {x})
           fm == SumFunctionOnSet(f, m)
           mx == SumFunctionOnSet(f, m \ {x})
<1>12. fm = fp + (fx + r) /\ mx = fp + r /\ fx \in Int /\ fp \in Int /\ r \in Int
  BY <1>3, <1>5, <1>8, <1>9, <1>10, <1>11
<1>13. fm # fx + mx
  BY <1>2
<1> HIDE DEF fx, fp, r, fm, mx
<1> QED BY <1>12, <1>13

\* The sum depends only on the terms.
LEMMA SumSame ==
    ASSUME NEW S, IsFiniteSet(S), NEW f, NEW g, \A x \in S : f[x] = g[x]
    PROVE  SumFunctionOnSet(f, S) = SumFunctionOnSet(g, S)
<1> DEFINE T == {s \in SUBSET S : SumFunctionOnSet(f, s) # SumFunctionOnSet(g, s)}
<1> SUFFICES ASSUME T # {} PROVE FALSE
  OBVIOUS
<1>1. PICK m \in T : \A u \in T : u \subseteq m => u = m
  <2>1. T \in SUBSET SUBSET S
    OBVIOUS
  <2> HIDE DEF T
  <2> QED BY <2>1, MinimalSet
<1>2. m \in SUBSET S /\ IsFiniteSet(m)
  BY FS_Subset
<1>3. /\ SumFunctionOnSet(f, m) = IF m = {} THEN 0 ELSE f[Pick(m)] + SumFunctionOnSet(f, m \ {Pick(m)})
      /\ SumFunctionOnSet(g, m) = IF m = {} THEN 0 ELSE g[Pick(m)] + SumFunctionOnSet(g, m \ {Pick(m)})
  BY <1>2, SumPicked
<1>4. m # {}
  BY <1>1, <1>3
<1>5. Pick(m) \in m
  BY <1>4, PickIn
<1>6. SumFunctionOnSet(f, m \ {Pick(m)}) = SumFunctionOnSet(g, m \ {Pick(m)})
  BY <1>1, <1>2, <1>5
<1>7. f[Pick(m)] = g[Pick(m)]
  BY <1>2, <1>5
<1> QED BY <1>1, <1>3, <1>6, <1>7

\* Sums are added term by term.
LEMMA SumPlus ==
    ASSUME NEW S, IsFiniteSet(S), NEW f, NEW g, NEW h,
           \A x \in S : f[x] \in Int /\ g[x] \in Int /\ h[x] = f[x] + g[x]
    PROVE  SumFunctionOnSet(h, S) = SumFunctionOnSet(f, S) + SumFunctionOnSet(g, S)
<1> DEFINE T == {s \in SUBSET S :
      SumFunctionOnSet(h, s) # SumFunctionOnSet(f, s) + SumFunctionOnSet(g, s)}
<1> SUFFICES ASSUME T # {} PROVE FALSE
  OBVIOUS
<1>1. PICK m \in T : \A u \in T : u \subseteq m => u = m
  <2>1. T \in SUBSET SUBSET S
    OBVIOUS
  <2> HIDE DEF T
  <2> QED BY <2>1, MinimalSet
<1>2. m \in SUBSET S /\ IsFiniteSet(m)
  BY FS_Subset
<1> DEFINE p == Pick(m)
           E == m \ {p}
<1>3. CASE m = {}
  BY <1>1, <1>3, SumEmpty
<1>4. CASE m # {}
  <2>1. p \in m
    BY <1>4, PickIn
  <2>2. SumFunctionOnSet(h, E) = SumFunctionOnSet(f, E) + SumFunctionOnSet(g, E)
    BY <1>1, <1>2, <2>1
  <2>3. /\ SumFunctionOnSet(f, m) = f[p] + SumFunctionOnSet(f, E)
        /\ SumFunctionOnSet(g, m) = g[p] + SumFunctionOnSet(g, E)
        /\ SumFunctionOnSet(h, m) = h[p] + SumFunctionOnSet(h, E)
    BY <1>2, <1>4, SumPicked
  <2>4. E \in SUBSET S /\ IsFiniteSet(E)
    BY <1>2, FS_Subset
  <2>5. SumFunctionOnSet(f, E) \in Int /\ SumFunctionOnSet(g, E) \in Int
    BY <2>4, SumInt
  <2>6. f[p] \in Int /\ g[p] \in Int /\ h[p] = f[p] + g[p]
    BY <1>2, <2>1
  <2> DEFINE fE == SumFunctionOnSet(f, E)
             gE == SumFunctionOnSet(g, E)
             fp == f[p]
             gp == g[p]
             fm == SumFunctionOnSet(f, m)
             gm == SumFunctionOnSet(g, m)
             hm == SumFunctionOnSet(h, m)
  <2>7. /\ fm = fp + fE
        /\ gm = gp + gE
        /\ hm = (fp + gp) + (fE + gE)
        /\ fp \in Int /\ gp \in Int /\ fE \in Int /\ gE \in Int
    BY <2>2, <2>3, <2>5, <2>6
  <2> HIDE DEF fE, gE, fp, gp, fm, gm, hm
  <2>8. hm = fm + gm
    BY <2>7
  <2> USE DEF fE, gE, fp, gp, fm, gm, hm
  <2> QED BY <1>1, <2>8
<1> QED BY <1>3, <1>4

\* Terms that are all zero add up to zero.
LEMMA SumZero ==
    ASSUME NEW S, IsFiniteSet(S), NEW f, \A x \in S : f[x] = 0
    PROVE  SumFunctionOnSet(f, S) = 0
<1>1. SumFunctionOnSet(f, S) \in Int
  BY SumInt
<1>2. SumFunctionOnSet(f, S) = SumFunctionOnSet(f, S) + SumFunctionOnSet(f, S)
  BY SumPlus
<1> DEFINE z == SumFunctionOnSet(f, S)
<1>3. z \in Int /\ z = z + z
  BY <1>1, <1>2
<1> HIDE DEF z
<1>4. z = 0
  BY <1>3
<1> QED BY <1>4 DEF z

\* The sum over two sets with nothing in common.
LEMMA SumUnion ==
    ASSUME NEW S, IsFiniteSet(S), NEW A, NEW B, S = A \cup B, A \cap B = {},
           NEW f, \A x \in S : f[x] \in Int
    PROVE  SumFunctionOnSet(f, S) = SumFunctionOnSet(f, A) + SumFunctionOnSet(f, B)
<1> DEFINE T == {s \in SUBSET A :
      SumFunctionOnSet(f, s \cup B) # SumFunctionOnSet(f, s) + SumFunctionOnSet(f, B)}
<1> SUFFICES ASSUME T # {} PROVE FALSE
  BY Zenon
<1>0. \A s \in SUBSET S : IsFiniteSet(s) /\ SumFunctionOnSet(f, s) \in Int
  <2> TAKE s \in SUBSET S
  <2>1. IsFiniteSet(s)
    BY FS_Subset
  <2> QED BY <2>1, SumInt
<1>1. PICK m \in T : \A u \in T : u \subseteq m => u = m
  <2>1. T \in SUBSET SUBSET A
    OBVIOUS
  <2>2. IsFiniteSet(A)
    BY <1>0
  <2> HIDE DEF T
  <2> QED BY <2>1, <2>2, MinimalSet
<1>2. m \in SUBSET A
  BY <1>1
<1>3. CASE m = {}
  <2>1. m \cup B = B
    BY <1>3
  <2>2. SumFunctionOnSet(f, m) = 0
    BY <1>3, SumEmpty
  <2>3. SumFunctionOnSet(f, B) \in Int
    BY <1>0
  <2>4. SumFunctionOnSet(f, m \cup B) = SumFunctionOnSet(f, m) + SumFunctionOnSet(f, B)
    BY <2>1, <2>2, <2>3
  <2> QED BY <1>1, <2>4
<1>4. CASE m # {}
  <2>1. PICK p \in m : TRUE
    BY <1>4
  <2> DEFINE E == m \ {p}
             a == SumFunctionOnSet(f, E)
             b == SumFunctionOnSet(f, B)
  <2>2. SumFunctionOnSet(f, E \cup B) = a + b
    BY <1>1, <1>2, <2>1
  <2>3. m \in SUBSET S /\ m \cup B \in SUBSET S /\ f[p] \in Int /\ p \in m \cup B
    BY <1>2, <2>1
  <2>4. SumFunctionOnSet(f, m) = f[p] + a
    BY <1>0, <2>3, SumRemove
  <2>5. SumFunctionOnSet(f, m \cup B) = f[p] + SumFunctionOnSet(f, (m \cup B) \ {p})
    <3>1. IsFiniteSet(m \cup B)
      BY <1>0, <2>3
    <3>2. \A x \in m \cup B : f[x] \in Int
      BY <2>3
    <3> QED BY <3>1, <3>2, <2>3, SumRemove
  <2>6. (m \cup B) \ {p} = E \cup B
    BY <1>2, <2>1
  <2>7. a \in Int /\ b \in Int
    BY <1>0, <2>3
  <2> DEFINE fp == f[p]
             mB == SumFunctionOnSet(f, m \cup B)
             fm == SumFunctionOnSet(f, m)
  <2>8. mB = fp + (a + b) /\ fm = fp + a /\ fp \in Int /\ a \in Int /\ b \in Int
    BY <2>2, <2>3, <2>4, <2>5, <2>6, <2>7
  <2> HIDE DEF a, b, fp, mB, fm
  <2>9. mB = fm + b
    BY <2>8
  <2> USE DEF a, b, fp, mB, fm
  <2> QED BY <1>1, <2>9
<1> QED BY <1>3, <1>4

\* One term changes.
LEMMA SumAtOne ==
    ASSUME NEW S, IsFiniteSet(S), NEW f, NEW g, NEW e \in S,
           \A x \in S : f[x] \in Int /\ g[x] \in Int,
           \A x \in S \ {e} : g[x] = f[x]
    PROVE  SumFunctionOnSet(g, S) = SumFunctionOnSet(f, S) + g[e] - f[e]
<1>1. IsFiniteSet(S \ {e})
  BY FS_Subset
<1>2. SumFunctionOnSet(g, S \ {e}) = SumFunctionOnSet(f, S \ {e})
  BY <1>1, SumSame
<1>3. SumFunctionOnSet(f, S) = f[e] + SumFunctionOnSet(f, S \ {e})
  BY SumRemove
<1>4. SumFunctionOnSet(g, S) = g[e] + SumFunctionOnSet(g, S \ {e})
  BY SumRemove
<1>5. SumFunctionOnSet(f, S \ {e}) \in Int
  BY <1>1, SumInt
<1> QED BY <1>2, <1>3, <1>4, <1>5

\* The terms are the same, each under another name.
LEMMA SumRenamed ==
    ASSUME NEW S, IsFiniteSet(S), NEW T, IsFiniteSet(T), NEW b \in [S -> T],
           \A x, y \in S : b[x] = b[y] => x = y,
           \A z \in T : \E x \in S : b[x] = z,
           NEW f, NEW g, \A x \in S : f[x] \in Int /\ g[b[x]] = f[x]
    PROVE  SumFunctionOnSet(f, S) = SumFunctionOnSet(g, T)
<1> DEFINE Image(s) == {b[x] : x \in s}
           Bad == {s \in SUBSET S : SumFunctionOnSet(f, s) # SumFunctionOnSet(g, Image(s))}
<1>1. Image(S) = T
  OBVIOUS
<1> SUFFICES ASSUME Bad # {} PROVE FALSE
  BY <1>1
<1>2. PICK m \in Bad : \A u \in Bad : u \subseteq m => u = m
  <2>1. Bad \in SUBSET SUBSET S
    OBVIOUS
  <2> HIDE DEF Bad
  <2> QED BY <2>1, MinimalSet
<1>3. m \in SUBSET S /\ IsFiniteSet(m)
  BY FS_Subset
<1>4. Image(m) \in SUBSET T /\ IsFiniteSet(Image(m))
  <2>1. Image(m) \in SUBSET T
    BY <1>3
  <2> QED BY <2>1, FS_Subset
<1>5. CASE m = {}
  <2>1. Image(m) = {}
    BY <1>5
  <2> QED BY <1>2, <1>5, <2>1, SumEmpty
<1>6. CASE m # {}
  <2>1. PICK p \in m : TRUE
    BY <1>6
  <2>2. Image(m \ {p}) = Image(m) \ {b[p]}
    BY <1>3
  <2>3. SumFunctionOnSet(f, m \ {p}) = SumFunctionOnSet(g, Image(m) \ {b[p]})
    BY <1>2, <1>3, <2>1, <2>2
  <2>4. SumFunctionOnSet(f, m) = f[p] + SumFunctionOnSet(f, m \ {p})
    BY <1>3, SumRemove
  <2>5. SumFunctionOnSet(g, Image(m)) = g[b[p]] + SumFunctionOnSet(g, Image(m) \ {b[p]})
    <3>1. b[p] \in Image(m) /\ \A z \in Image(m) : g[z] \in Int
      BY <1>3
    <3> QED BY <1>4, <3>1, SumRemove
  <2>6. g[b[p]] = f[p]
    BY <1>3
  <2> QED BY <1>2, <2>3, <2>4, <2>5, <2>6
<1> QED BY <1>5, <1>6

\* One element has another value, if it is counted at all.
LEMMA SumChange ==
    ASSUME NEW S, IsFiniteSet(S), NEW f, NEW g, \A x \in S : f[x] \in Int /\ g[x] \in Int,
           NEW e, \A x \in S \ {e} : g[x] = f[x]
    PROVE  SumFunctionOnSet(g, S) =
              SumFunctionOnSet(f, S) + (IF e \in S THEN g[e] - f[e] ELSE 0)
<1> DEFINE was == SumFunctionOnSet(f, S)
           now == SumFunctionOnSet(g, S)
<1>1. was \in Int
    BY SumInt
<1>2. CASE e \in S
  <2>1. f[e] \in Int /\ g[e] \in Int
    BY <1>2
  <2>2. now = was + g[e] - f[e]
    BY <1>2, SumAtOne
  <2> HIDE DEF was, now
  <2>3. now = was + (g[e] - f[e])
    BY <1>1, <2>1, <2>2
  <2> QED BY <1>2, <2>3 DEF was, now
<1>3. CASE e \notin S
  <2>1. now = was
    BY <1>3, SumSame
  <2> HIDE DEF was, now
  <2>2. now = was + 0
    BY <1>1, <2>1
  <2> QED BY <1>3, <2>2 DEF was, now
<1> QED BY <1>2, <1>3
----------------------------------------------------------------------------
\* What a column keeps of an amount is the amount, to half a ten-thousandth.
LEMMA StoredClose == \A x \in Int : Stored(x) \in Int /\ Close(Stored(x), x)
<1> TAKE x \in Int
<1>1. CASE x >= 0
  <2> PICK m \in Nat : m = x + 50
    BY <1>1
  <2>1. m \div 100 \in Int /\ 100 * (m \div 100) <= m /\ m < 100 * (m \div 100) + 100
    OBVIOUS
  <2> QED BY <1>1, <2>1 DEF Stored, Close
<1>2. CASE x < 0
  <2> PICK m \in Nat : m = 50 - x
    BY <1>2
  <2>1. m \div 100 \in Int /\ 100 * (m \div 100) <= m /\ m < 100 * (m \div 100) + 100
    OBVIOUS
  <2> QED BY <1>2, <2>1 DEF Stored, Close
<1> QED BY <1>1, <1>2

\* So is what a balance takes of it.
LEMMA NearestClose == \A x \in Int : \A n \in Nearest(x) : n \in Int /\ Close(n, x)
<1> TAKE x \in Int
<1>1. x \div 100 \in Int
  OBVIOUS
<1> QED BY <1>1 DEF Nearest

\* What a price takes from a balance is never negative.
LEMMA NearestNat == \A x \in Nat : \A n \in Nearest(x) : n \in Nat
BY NearestClose DEF Close

\* A balance and the row that explains its change round the same amount, and
\* differ by a ten-thousandth at most.
LEMMA RoundedApart ==
    ASSUME NEW x \in Int, NEW n \in Nearest(x)
    PROVE  n - Stored(x) \in -1 .. 1 /\ -n - Stored(-x) \in -1 .. 1
<1> DEFINE a == Stored(x)
           b == Stored(-x)
<1>1. n \in Int /\ 100 * n - x \in -50 .. 50
    BY NearestClose DEF Close
<1>2. a \in Int /\ 100 * a - x \in -50 .. 50
    BY StoredClose DEF Close
<1>3. b \in Int /\ 100 * b + x \in -50 .. 50
  <2>1. -x \in Int
    OBVIOUS
  <2> PICK y \in Int : y = -x
    BY <2>1
  <2>2. b \in Int /\ 100 * b - y \in -50 .. 50
    BY StoredClose DEF Close
  <2> HIDE DEF b
  <2> QED BY <2>2
<1> HIDE DEF a, b
<1>4. n - a \in -1 .. 1
    BY <1>1, <1>2
<1>5. -n - b \in -1 .. 1
    BY <1>1, <1>3
<1> QED BY <1>4, <1>5 DEF a, b

\* Amounts that are rounded one by one add up to what they are rounded from, to
\* half a ten-thousandth for each.
LEMMA SumClose ==
    ASSUME NEW S, IsFiniteSet(S), NEW f, NEW g,
           \A x \in S : f[x] \in Int /\ g[x] \in Int /\ Close(f[x], g[x])
    PROVE  100 * SumFunctionOnSet(f, S) - SumFunctionOnSet(g, S)
              \in -50 * Cardinality(S) .. 50 * Cardinality(S)
<1> DEFINE Off(s) == 100 * SumFunctionOnSet(f, s) - SumFunctionOnSet(g, s)
           Bad == {s \in SUBSET S : Off(s) \notin -50 * Cardinality(s) .. 50 * Cardinality(s)}
<1> SUFFICES ASSUME Bad # {} PROVE FALSE
  BY Zenon
<1>1. PICK m \in Bad : \A u \in Bad : u \subseteq m => u = m
  <2>1. Bad \in SUBSET SUBSET S
    OBVIOUS
  <2> HIDE DEF Bad
  <2> QED BY <2>1, MinimalSet
<1>2. m \in SUBSET S /\ IsFiniteSet(m)
  BY <1>1, FS_Subset
<1>3. CASE m = {}
  <2>1. SumFunctionOnSet(f, m) = 0 /\ SumFunctionOnSet(g, m) = 0 /\ Cardinality(m) = 0
    BY <1>3, SumEmpty, FS_EmptySet
  <2>2. Off(m) = 0
    BY <2>1
  <2>3. Off(m) \in -50 * Cardinality(m) .. 50 * Cardinality(m)
    BY <2>1, <2>2
  <2> QED BY <1>1, <2>3
<1>4. CASE m # {}
  <2>1. PICK p \in m : TRUE
    BY <1>4
  <2> DEFINE E == m \ {p}
  <2>2. E \in SUBSET S /\ IsFiniteSet(E) /\ E \subseteq m /\ E # m
    BY <1>2, <2>1, FS_Subset
  <2>3. Off(E) \in -50 * Cardinality(E) .. 50 * Cardinality(E)
    BY <1>1, <2>2
  <2>4. /\ SumFunctionOnSet(f, m) = f[p] + SumFunctionOnSet(f, E)
        /\ SumFunctionOnSet(g, m) = g[p] + SumFunctionOnSet(g, E)
    BY <1>2, <2>1, SumRemove
  <2>5. SumFunctionOnSet(f, E) \in Int /\ SumFunctionOnSet(g, E) \in Int
    BY <2>2, SumInt
  <2>6. f[p] \in Int /\ g[p] \in Int /\ 100 * f[p] - g[p] \in -50 .. 50
    BY <1>2, <2>1 DEF Close
  <2>7. Cardinality(E) \in Nat /\ Cardinality(m) = Cardinality(E) + 1
  <3>1. Cardinality(m) \in Nat /\ Cardinality(E) = Cardinality(m) - 1
      BY <1>2, <2>1, FS_RemoveElement, FS_CardinalityType
    <3>2. Cardinality(E) \in Nat
      BY <2>2, FS_CardinalityType
    <3> QED BY <3>1, <3>2
  <2> DEFINE fE == SumFunctionOnSet(f, E)
             gE == SumFunctionOnSet(g, E)
             fm == SumFunctionOnSet(f, m)
             gm == SumFunctionOnSet(g, m)
             fp == f[p]
             gp == g[p]
             n  == Cardinality(E)
             nm == Cardinality(m)
  <2>8. /\ 100 * fE - gE \in -50 * n .. 50 * n
        /\ fm = fp + fE /\ gm = gp + gE /\ nm = n + 1 /\ n \in Nat
        /\ fE \in Int /\ gE \in Int /\ fp \in Int /\ gp \in Int
        /\ 100 * fp - gp \in -50 .. 50
    BY <2>3, <2>4, <2>5, <2>6, <2>7
  <2>9. m \in Bad => 100 * fm - gm \notin -50 * nm .. 50 * nm
    OBVIOUS
  <2> HIDE DEF Bad, E, fE, gE, fm, gm, fp, gp, n, nm
  <2>10. 100 * fm - gm \in -50 * nm .. 50 * nm
    BY ONLY <2>8
  <2> QED BY <1>1, <2>9, <2>10
<1> QED BY <1>3, <1>4
=============================================================================
