---------------------------- MODULE SumTheorems ----------------------------
(***************************************************************************)
(* What SumFunctionOnSet computes: facts that the models of amounts rest   *)
(* on.  Induction over finite sets is done with minimal counterexamples:   *)
(* strict inclusion is well-founded.                                       *)
(***************************************************************************)
EXTENDS Sequences, FiniteSetTheorems, TLAPS

\* Among finite sets one is smallest: the minimal counterexample of the proofs below.
LEMMA SmallestSubset ==
    ASSUME NEW S, IsFiniteSet(S), NEW T \in SUBSET SUBSET S, T # {}
    PROVE  \E m \in T : \A t \in T : t \subseteq m => t = m
<1> DEFINE R == StrictSubsetOrdering(S)
<1>1. IsWellFoundedOn(R, SUBSET S)
  BY FS_StrictSubsetOrderingWellFounded, FS_FiniteSubsetsOfFinite
<1>2. T \subseteq SUBSET S OBVIOUS
<1> HIDE DEF R
<1>3. PICK m \in T : \A t \in T : ~ (<<t, m>> \in R) BY <1>1, <1>2, WFMin
<1>4. \A t \in T : t \subseteq m => t = m
  BY <1>2, <1>3 DEF R, StrictSubsetOrdering
<1> QED BY <1>4

\* The recursive function behind a sum.
First(s) == CHOOSE x \in s : TRUE
IsSum(g, f, S) ==
    g = [s \in SUBSET S |-> IF s = {} THEN 0 ELSE f[First(s)] + g[s \ {First(s)}]]
SumOver(f, S) == CHOOSE g : IsSum(g, f, S)

\* SumFunctionOnSet is the value of that function at the whole set.
LEMMA SumIs ==
    ASSUME NEW f, NEW S
    PROVE  SumFunctionOnSet(f, S) = SumOver(f, S)[S]
BY DEF SumFunctionOnSet, FoldFunctionOnSet, MapThenFoldSet, SumOver, IsSum, First

\* The value of such a function at a subset.
LEMMA IsSumValue ==
    ASSUME NEW f, NEW S, NEW g, IsSum(g, f, S), NEW s, s \subseteq S
    PROVE  g[s] = IF s = {} THEN 0 ELSE f[First(s)] + g[s \ {First(s)}]
BY DEF IsSum

\* The first element of a set is one of it.
LEMMA FirstIn ==
    ASSUME NEW s, s # {}
    PROVE  First(s) \in s
BY DEF First

\* Two such functions agree on the subsets they share.
LEMMA SumUnique ==
    ASSUME NEW f, NEW S, IsFiniteSet(S), NEW s \in SUBSET S, NEW t \in SUBSET S,
           NEW g, IsSum(g, f, s), NEW h, IsSum(h, f, t), NEW u, u \subseteq s, u \subseteq t
    PROVE  g[u] = h[u]
<1> DEFINE Bad == {v \in SUBSET S : v \subseteq s /\ v \subseteq t /\ g[v] # h[v]}
<1>1. SUFFICES ASSUME Bad # {} PROVE FALSE OBVIOUS
<1>2. Bad \in SUBSET SUBSET S OBVIOUS
<1> HIDE DEF Bad
<1>3. PICK m \in Bad : \A v \in Bad : v \subseteq m => v = m BY <1>1, <1>2, SmallestSubset
<1>4. m \in SUBSET S /\ m \subseteq s /\ m \subseteq t /\ g[m] # h[m] BY <1>3 DEF Bad
<1>5. m # {}
  <2>1. g[m] = IF m = {} THEN 0 ELSE f[First(m)] + g[m \ {First(m)}] BY <1>4, IsSumValue
  <2>2. h[m] = IF m = {} THEN 0 ELSE f[First(m)] + h[m \ {First(m)}] BY <1>4, IsSumValue
  <2> QED BY <1>4, <2>1, <2>2
<1> PICK x : x = First(m) OBVIOUS
<1> PICK v : v = m \ {x} OBVIOUS
<1>6. x \in m /\ g[m] = f[x] + g[v] /\ h[m] = f[x] + h[v]
  <2>1. g[m] = IF m = {} THEN 0 ELSE f[First(m)] + g[m \ {First(m)}] BY <1>4, IsSumValue
  <2>2. h[m] = IF m = {} THEN 0 ELSE f[First(m)] + h[m \ {First(m)}] BY <1>4, IsSumValue
  <2> QED BY <1>5, <2>1, <2>2, FirstIn
<1>7. v \notin Bad BY <1>3, <1>6
<1>8. g[v] = h[v] BY <1>4, <1>7 DEF Bad
<1> QED BY <1>4, <1>6, <1>8

\* Such a function exists for every finite set.
LEMMA SumDefined ==
    ASSUME NEW f, NEW S, IsFiniteSet(S)
    PROVE  IsSum(SumOver(f, S), f, S)
<1> DEFINE Bad == {s \in SUBSET S : ~ \E g : IsSum(g, f, s)}
<1>1. SUFFICES ASSUME Bad # {} PROVE FALSE BY DEF SumOver
<1>2. Bad \in SUBSET SUBSET S OBVIOUS
<1> HIDE DEF Bad
<1>3. PICK m \in Bad : \A v \in Bad : v \subseteq m => v = m BY <1>1, <1>2, SmallestSubset
<1>4. m \in SUBSET S /\ ~ \E g : IsSum(g, f, m) BY <1>3 DEF Bad
<1>5. ASSUME NEW t \in SUBSET m, t # m PROVE IsSum(SumOver(f, t), f, t)
  <2>1. t \notin Bad /\ t \in SUBSET S BY <1>3, <1>4, <1>5
  <2>2. \E g : IsSum(g, f, t) BY <2>1 DEF Bad
  <2> QED BY <2>2 DEF SumOver
<1> DEFINE h == [s \in SUBSET m |-> IF s = {} THEN 0
                   ELSE f[First(s)] + SumOver(f, s \ {First(s)})[s \ {First(s)}]]
<1>6. ASSUME NEW s \in SUBSET m, s # m PROVE h[s] = SumOver(f, s)[s]
  <2>1. h[s] = IF s = {} THEN 0
                   ELSE f[First(s)] + SumOver(f, s \ {First(s)})[s \ {First(s)}]
    OBVIOUS
  <2> HIDE DEF h
  <2>2. IsSum(SumOver(f, s), f, s) BY <1>5, <1>6
  <2>5. SumOver(f, s)[s] = IF s = {} THEN 0
                           ELSE f[First(s)] + SumOver(f, s)[s \ {First(s)}]
    BY <2>2, IsSumValue
  <2>3. CASE s = {} BY <2>1, <2>3, <2>5
  <2>4. CASE s # {}
    <3> PICK u : u = s \ {First(s)} OBVIOUS
    <3>1. u \in SUBSET s /\ SumOver(f, s)[s] = f[First(s)] + SumOver(f, s)[u]
      BY <2>4, <2>5
    <3>2. u \in SUBSET m /\ u # m BY <1>6, <3>1
    <3>3. IsSum(SumOver(f, u), f, u) BY <1>5, <3>2
    <3>4. u \in SUBSET S /\ s \in SUBSET S /\ u \subseteq u /\ u \subseteq s BY <1>4, <3>1, <3>2
    <3> PICK g : g = SumOver(f, u) OBVIOUS
    <3> PICK k : k = SumOver(f, s) OBVIOUS
    <3>5. IsSum(g, f, u) /\ IsSum(k, f, s) BY <2>2, <3>3
    <3>6. g[u] = k[u] BY <3>4, <3>5, SumUnique
    <3> QED BY <2>1, <2>4, <3>1, <3>6
  <2> QED BY <2>3, <2>4
<1>7. ASSUME NEW s \in SUBSET m, s # {}
      PROVE  h[s] = f[First(s)] + h[s \ {First(s)}]
  <2> DEFINE u == s \ {First(s)}
  <2>1. First(s) \in s BY <1>7, FirstIn
  <2>2. u \in SUBSET m /\ u # m BY <1>7, <2>1
  <2>3. h[s] = f[First(s)] + SumOver(f, u)[u] BY <1>7
  <2> HIDE DEF h, u
  <2>4. h[u] = SumOver(f, u)[u] BY <1>6, <2>2
  <2> QED BY <2>3, <2>4 DEF u
<1>8. IsSum(h, f, m)
  <2>1. h = [s \in SUBSET m |-> h[s]] OBVIOUS
  <2>2. {} \in SUBSET m /\ h[{}] = 0 OBVIOUS
  <2> HIDE DEF h
  <2>3. \A s \in SUBSET m : h[s] = IF s = {} THEN 0 ELSE f[First(s)] + h[s \ {First(s)}]
    BY <1>7, <2>2
  <2>4. [s \in SUBSET m |-> h[s]] =
          [s \in SUBSET m |-> IF s = {} THEN 0 ELSE f[First(s)] + h[s \ {First(s)}]]
    BY <2>3
  <2> QED BY <2>1, <2>4 DEF IsSum
<1> QED BY <1>4, <1>8
-----------------------------------------------------------------------------
\* A sum over no index, and a sum with its first term taken out.
LEMMA SumUnfolds ==
    ASSUME NEW f, NEW S, IsFiniteSet(S)
    PROVE  /\ S = {} => SumFunctionOnSet(f, S) = 0
           /\ S # {} => /\ First(S) \in S
                        /\ SumFunctionOnSet(f, S) =
                             f[First(S)] + SumFunctionOnSet(f, S \ {First(S)})
<1>1. IsSum(SumOver(f, S), f, S) BY SumDefined
<1>4. SumOver(f, S)[S] = IF S = {} THEN 0
                         ELSE f[First(S)] + SumOver(f, S)[S \ {First(S)}]
  BY <1>1, IsSumValue
<1>2. CASE S = {} BY <1>2, <1>4, SumIs
<1>3. CASE S # {}
  <2> DEFINE u == S \ {First(S)}
  <2>1. /\ First(S) \in S /\ u \in SUBSET S
        /\ SumOver(f, S)[S] = f[First(S)] + SumOver(f, S)[u]
    BY <1>3, <1>4, FirstIn
  <2> HIDE DEF u
  <2>2. IsFiniteSet(u) BY <2>1, FS_Subset
  <2>3. IsSum(SumOver(f, u), f, u) BY <2>2, SumDefined
  <2>4. SumOver(f, u)[u] = SumOver(f, S)[u] BY <1>1, <2>1, <2>3, SumUnique
  <2> QED BY <1>3, <2>1, <2>4, SumIs DEF u
<1> QED BY <1>2, <1>3

\* A sum of natural numbers is one, a sum of integers is one.
LEMMA SumType ==
    ASSUME NEW f, NEW S, IsFiniteSet(S), NEW N, N = Nat \/ N = Int, \A x \in S : f[x] \in N
    PROVE  SumFunctionOnSet(f, S) \in N
<1> DEFINE Bad == {s \in SUBSET S : SumFunctionOnSet(f, s) \notin N}
<1>1. SUFFICES ASSUME Bad # {} PROVE FALSE OBVIOUS
<1>2. Bad \in SUBSET SUBSET S OBVIOUS
<1> HIDE DEF Bad
<1>3. PICK m \in Bad : \A v \in Bad : v \subseteq m => v = m BY <1>1, <1>2, SmallestSubset
<1>4. m \in SUBSET S /\ SumFunctionOnSet(f, m) \notin N BY <1>3 DEF Bad
<1>5. IsFiniteSet(m) BY <1>4, FS_Subset
<1>6. m # {}
  <2>1. m = {} => SumFunctionOnSet(f, m) = 0 BY <1>5, SumUnfolds
  <2>2. 0 \in N OBVIOUS
  <2> QED BY <1>4, <2>1, <2>2
<1> DEFINE u == m \ {First(m)}
<1>7. First(m) \in m /\ SumFunctionOnSet(f, m) = f[First(m)] + SumFunctionOnSet(f, u)
  BY <1>5, <1>6, SumUnfolds
<1>8. u \notin Bad /\ u \in SUBSET S BY <1>3, <1>4, <1>7
<1> HIDE DEF u
<1>9. SumFunctionOnSet(f, u) \in N BY <1>8 DEF Bad
<1>10. f[First(m)] \in N BY <1>4, <1>7
<1> QED BY <1>4, <1>7, <1>9, <1>10

\* Any term may be taken out of a sum.
LEMMA SumTakesOut ==
    ASSUME NEW f, NEW S, IsFiniteSet(S), \A x \in S : f[x] \in Int, NEW y \in S
    PROVE  SumFunctionOnSet(f, S) = f[y] + SumFunctionOnSet(f, S \ {y})
<1> DEFINE Bad == {s \in SUBSET S : \E z \in s :
                     SumFunctionOnSet(f, s) # f[z] + SumFunctionOnSet(f, s \ {z})}
<1>1. SUFFICES ASSUME Bad # {} PROVE FALSE OBVIOUS
<1>2. Bad \in SUBSET SUBSET S OBVIOUS
<1> HIDE DEF Bad
<1>3. PICK m \in Bad : \A v \in Bad : v \subseteq m => v = m BY <1>1, <1>2, SmallestSubset
<1>4. PICK z \in m : SumFunctionOnSet(f, m) # f[z] + SumFunctionOnSet(f, m \ {z})
  BY <1>3 DEF Bad
<1> PICK x : x = First(m) OBVIOUS
<1>5. m \in SUBSET S /\ IsFiniteSet(m) BY <1>3, FS_Subset DEF Bad
<1>6. x \in m /\ SumFunctionOnSet(f, m) = f[x] + SumFunctionOnSet(f, m \ {x})
  BY <1>4, <1>5, SumUnfolds
<1>7. x # z BY <1>4, <1>6
<1> PICK w : w = (m \ {x}) \ {z} OBVIOUS
<1>8. m \ {x} \notin Bad /\ m \ {z} \notin Bad BY <1>3, <1>4, <1>6
<1>9. SumFunctionOnSet(f, m \ {x}) = f[z] + SumFunctionOnSet(f, w)
  <2>1. m \ {x} \in SUBSET S /\ z \in m \ {x} BY <1>4, <1>5, <1>7
  <2> QED BY <1>8, <2>1 DEF Bad
<1>10. SumFunctionOnSet(f, m \ {z}) = f[x] + SumFunctionOnSet(f, w)
  <2>1. m \ {z} \in SUBSET S /\ x \in m \ {z} /\ (m \ {z}) \ {x} = w BY <1>5, <1>6, <1>7
  <2> QED BY <1>8, <2>1 DEF Bad
<1>11. w \in SUBSET S /\ IsFiniteSet(w) BY <1>5, FS_Subset
<1>12. SumFunctionOnSet(f, w) \in Int
  <2>1. \A v \in w : f[v] \in Int BY <1>11
  <2> QED BY <1>11, <2>1, SumType
<1>13. f[x] \in Int /\ f[z] \in Int BY <1>4, <1>5, <1>6
<1> QED BY <1>4, <1>6, <1>9, <1>10, <1>12, <1>13

\* Only the values at the indices count.
LEMMA SumAgrees ==
    ASSUME NEW f, NEW g, NEW S, IsFiniteSet(S), \A x \in S : f[x] = g[x]
    PROVE  SumFunctionOnSet(f, S) = SumFunctionOnSet(g, S)
<1> DEFINE Bad == {s \in SUBSET S : SumFunctionOnSet(f, s) # SumFunctionOnSet(g, s)}
<1>1. SUFFICES ASSUME Bad # {} PROVE FALSE OBVIOUS
<1>2. Bad \in SUBSET SUBSET S OBVIOUS
<1> HIDE DEF Bad
<1>3. PICK m \in Bad : \A v \in Bad : v \subseteq m => v = m BY <1>1, <1>2, SmallestSubset
<1>4. m \in SUBSET S /\ SumFunctionOnSet(f, m) # SumFunctionOnSet(g, m) BY <1>3 DEF Bad
<1>5. IsFiniteSet(m) BY <1>4, FS_Subset
<1>6. m # {} BY <1>4, <1>5, SumUnfolds
<1> PICK x : x = First(m) OBVIOUS
<1>7. /\ x \in m
      /\ SumFunctionOnSet(f, m) = f[x] + SumFunctionOnSet(f, m \ {x})
      /\ SumFunctionOnSet(g, m) = g[x] + SumFunctionOnSet(g, m \ {x})
  BY <1>5, <1>6, SumUnfolds
<1>8. m \ {x} \notin Bad /\ m \ {x} \in SUBSET S BY <1>3, <1>4, <1>7
<1>9. SumFunctionOnSet(f, m \ {x}) = SumFunctionOnSet(g, m \ {x}) BY <1>8 DEF Bad
<1>10. f[x] = g[x] BY <1>4, <1>7
<1> QED BY <1>4, <1>7, <1>9, <1>10

\* A sum in which one term changes.
LEMMA SumChanges ==
    ASSUME NEW f, NEW g, NEW S, IsFiniteSet(S), \A x \in S : f[x] \in Int /\ g[x] \in Int,
           NEW y \in S, \A x \in S \ {y} : f[x] = g[x]
    PROVE  SumFunctionOnSet(g, S) = SumFunctionOnSet(f, S) + g[y] - f[y]
<1>1. IsFiniteSet(S \ {y}) BY FS_Subset
<1>2. SumFunctionOnSet(f, S \ {y}) = SumFunctionOnSet(g, S \ {y}) BY <1>1, SumAgrees
<1>3. SumFunctionOnSet(f, S) = f[y] + SumFunctionOnSet(f, S \ {y}) BY SumTakesOut
<1>4. SumFunctionOnSet(g, S) = g[y] + SumFunctionOnSet(g, S \ {y}) BY SumTakesOut
<1>5. SumFunctionOnSet(f, S \ {y}) \in Int
  <2>1. \A x \in S \ {y} : f[x] \in Int OBVIOUS
  <2> QED BY <1>1, <2>1, SumType
<1>6. f[y] \in Int /\ g[y] \in Int OBVIOUS
<1> QED BY <1>2, <1>3, <1>4, <1>5, <1>6

\* No term of natural numbers exceeds their sum.
LEMMA SumBounds ==
    ASSUME NEW f, NEW S, IsFiniteSet(S), \A x \in S : f[x] \in Nat
    PROVE  /\ SumFunctionOnSet(f, S) \in Nat
           /\ \A y \in S : f[y] <= SumFunctionOnSet(f, S)
<1>1. SumFunctionOnSet(f, S) \in Nat BY SumType
<1>2. ASSUME NEW y \in S PROVE f[y] <= SumFunctionOnSet(f, S)
  <2>1. IsFiniteSet(S \ {y}) BY FS_Subset
  <2>2. SumFunctionOnSet(f, S \ {y}) \in Nat
    <3>1. \A x \in S \ {y} : f[x] \in Nat OBVIOUS
    <3> QED BY <2>1, <3>1, SumType
  <2>3. SumFunctionOnSet(f, S) = f[y] + SumFunctionOnSet(f, S \ {y}) BY SumTakesOut
  <2> QED BY <2>2, <2>3
<1> QED BY <1>1, <1>2

\* A sum of zeros is zero.
LEMMA SumOfZeros ==
    ASSUME NEW f, NEW S, IsFiniteSet(S), \A x \in S : f[x] = 0
    PROVE  SumFunctionOnSet(f, S) = 0
<1> DEFINE Bad == {s \in SUBSET S : SumFunctionOnSet(f, s) # 0}
<1>1. SUFFICES ASSUME Bad # {} PROVE FALSE OBVIOUS
<1>2. Bad \in SUBSET SUBSET S OBVIOUS
<1> HIDE DEF Bad
<1>3. PICK m \in Bad : \A v \in Bad : v \subseteq m => v = m BY <1>1, <1>2, SmallestSubset
<1>4. m \in SUBSET S /\ SumFunctionOnSet(f, m) # 0 BY <1>3 DEF Bad
<1>5. IsFiniteSet(m) BY <1>4, FS_Subset
<1>6. m # {} BY <1>4, <1>5, SumUnfolds
<1> PICK x : x = First(m) OBVIOUS
<1>7. x \in m /\ SumFunctionOnSet(f, m) = f[x] + SumFunctionOnSet(f, m \ {x})
  BY <1>5, <1>6, SumUnfolds
<1>8. m \ {x} \notin Bad /\ m \ {x} \in SUBSET S BY <1>3, <1>4, <1>7
<1>9. SumFunctionOnSet(f, m \ {x}) = 0 BY <1>8 DEF Bad
<1>10. f[x] = 0 BY <1>4, <1>7
<1> QED BY <1>4, <1>7, <1>9, <1>10
-----------------------------------------------------------------------------
\* A sum of sums, term by term.
LEMMA SumAdds ==
    ASSUME NEW f, NEW g, NEW h, NEW S, IsFiniteSet(S),
           \A x \in S : f[x] \in Int /\ g[x] \in Int /\ h[x] = f[x] + g[x]
    PROVE  SumFunctionOnSet(h, S) = SumFunctionOnSet(f, S) + SumFunctionOnSet(g, S)
<1> DEFINE Bad == {s \in SUBSET S :
        SumFunctionOnSet(h, s) # SumFunctionOnSet(f, s) + SumFunctionOnSet(g, s)}
<1>1. SUFFICES ASSUME Bad # {} PROVE FALSE OBVIOUS
<1>2. Bad \in SUBSET SUBSET S OBVIOUS
<1> HIDE DEF Bad
<1>3. PICK m \in Bad : \A v \in Bad : v \subseteq m => v = m BY <1>1, <1>2, SmallestSubset
<1>4. m \in SUBSET S
      /\ SumFunctionOnSet(h, m) # SumFunctionOnSet(f, m) + SumFunctionOnSet(g, m)
  BY <1>3 DEF Bad
<1>5. IsFiniteSet(m) BY <1>4, FS_Subset
<1>6. m # {}
  <2>1. ASSUME m = {} PROVE FALSE
    <3>1. SumFunctionOnSet(f, m) = 0 BY <1>5, <2>1, SumUnfolds
    <3>2. SumFunctionOnSet(g, m) = 0 BY <1>5, <2>1, SumUnfolds
    <3>3. SumFunctionOnSet(h, m) = 0 BY <1>5, <2>1, SumUnfolds
    <3> QED BY <1>4, <3>1, <3>2, <3>3
  <2> QED BY <2>1
<1>7. PICK x : x = First(m) OBVIOUS
<1>8. /\ x \in m
      /\ SumFunctionOnSet(f, m) = f[x] + SumFunctionOnSet(f, m \ {x})
      /\ SumFunctionOnSet(g, m) = g[x] + SumFunctionOnSet(g, m \ {x})
      /\ SumFunctionOnSet(h, m) = h[x] + SumFunctionOnSet(h, m \ {x})
  BY <1>5, <1>6, <1>7, SumUnfolds
<1>9. m \ {x} \notin Bad /\ m \ {x} \in SUBSET S BY <1>3, <1>4, <1>8
<1>10. SumFunctionOnSet(h, m \ {x}) =
         SumFunctionOnSet(f, m \ {x}) + SumFunctionOnSet(g, m \ {x})
  BY <1>9 DEF Bad
<1>11. f[x] \in Int /\ g[x] \in Int /\ h[x] = f[x] + g[x] BY <1>4, <1>8
<1>12. IsFiniteSet(m \ {x}) /\ \A z \in m \ {x} : f[z] \in Int /\ g[z] \in Int
  BY <1>4, <1>5, FS_Subset
<1>13. SumFunctionOnSet(f, m \ {x}) \in Int /\ SumFunctionOnSet(g, m \ {x}) \in Int
  BY <1>12, SumType
<1> QED BY <1>4, <1>8, <1>10, <1>11, <1>13

\* A sum of greater terms is greater.
LEMMA SumCompares ==
    ASSUME NEW f, NEW g, NEW S, IsFiniteSet(S),
           \A x \in S : f[x] \in Int /\ g[x] \in Int /\ f[x] <= g[x]
    PROVE  SumFunctionOnSet(f, S) <= SumFunctionOnSet(g, S)
<1> DEFINE d == [x \in S |-> g[x] - f[x]]
<1>1. \A x \in S : d[x] \in Nat /\ d[x] \in Int /\ g[x] = f[x] + d[x] OBVIOUS
<1>2. \A x \in S : f[x] \in Int /\ g[x] \in Int OBVIOUS
<1> HIDE DEF d
<1>3. SumFunctionOnSet(g, S) = SumFunctionOnSet(f, S) + SumFunctionOnSet(d, S)
  BY <1>1, <1>2, SumAdds
<1>4. SumFunctionOnSet(d, S) \in Nat BY <1>1, SumType
<1>5. SumFunctionOnSet(f, S) \in Int BY <1>2, SumType
<1> QED BY <1>3, <1>4, <1>5

\* The terms that are zero can be left out.
LEMMA SumOfPart ==
    ASSUME NEW f, NEW T, IsFiniteSet(T), NEW S \in SUBSET T,
           \A x \in T : f[x] \in Int, \A x \in T \ S : f[x] = 0
    PROVE  SumFunctionOnSet(f, T) = SumFunctionOnSet(f, S)
<1> DEFINE Bad == {u \in SUBSET (T \ S) :
                     SumFunctionOnSet(f, S \cup u) # SumFunctionOnSet(f, S)}
<1>1. SUFFICES ASSUME Bad # {} PROVE FALSE
  <2>1. T \ S \notin Bad BY <1>1
  <2>2. S \cup (T \ S) = T OBVIOUS
  <2> QED BY <2>1, <2>2
<1>2. Bad \in SUBSET SUBSET (T \ S) /\ IsFiniteSet(T \ S) BY FS_Subset
<1> HIDE DEF Bad
<1>3. PICK m \in Bad : \A v \in Bad : v \subseteq m => v = m BY <1>1, <1>2, SmallestSubset
<1>4. m \in SUBSET (T \ S) /\ SumFunctionOnSet(f, S \cup m) # SumFunctionOnSet(f, S)
  BY <1>3 DEF Bad
<1>5. PICK x : x \in m
  <2>1. m # {} BY <1>4
  <2> QED BY <2>1
<1>6. m \ {x} \notin Bad /\ m \ {x} \in SUBSET (T \ S) BY <1>3, <1>4, <1>5
<1>7. SumFunctionOnSet(f, S \cup (m \ {x})) = SumFunctionOnSet(f, S) BY <1>6 DEF Bad
<1>8. (S \cup m) \ {x} = S \cup (m \ {x}) /\ x \in S \cup m /\ x \in T \ S BY <1>4, <1>5
<1>9. IsFiniteSet(S \cup m) /\ \A z \in S \cup m : f[z] \in Int BY <1>4, FS_Subset
<1>10. SumFunctionOnSet(f, S \cup m) = f[x] + SumFunctionOnSet(f, S \cup (m \ {x}))
  BY <1>8, <1>9, SumTakesOut
<1>11. SumFunctionOnSet(f, S) \in Int
  <2>1. IsFiniteSet(S) /\ \A z \in S : f[z] \in Int BY FS_Subset
  <2> QED BY <2>1, SumType
<1>12. f[x] = 0 BY <1>8
<1> QED BY <1>4, <1>7, <1>10, <1>11, <1>12

\* A sum over two sets that share nothing.
LEMMA SumSplits ==
    ASSUME NEW f, NEW A, NEW B, IsFiniteSet(A), IsFiniteSet(B), A \cap B = {},
           \A x \in A \cup B : f[x] \in Int
    PROVE  SumFunctionOnSet(f, A \cup B) = SumFunctionOnSet(f, A) + SumFunctionOnSet(f, B)
<1> DEFINE T == A \cup B
           a == [x \in T |-> IF x \in A THEN f[x] ELSE 0]
           b == [x \in T |-> IF x \in B THEN f[x] ELSE 0]
<1>1. IsFiniteSet(T) /\ A \in SUBSET T /\ B \in SUBSET T BY FS_Union
<1>2. \A x \in T : a[x] \in Int /\ b[x] \in Int /\ f[x] = a[x] + b[x] OBVIOUS
<1>3. (\A x \in T \ A : a[x] = 0) /\ (\A x \in T \ B : b[x] = 0) OBVIOUS
<1>4. (\A x \in A : a[x] = f[x]) /\ (\A x \in B : b[x] = f[x]) OBVIOUS
<1> HIDE DEF a, b
<1>5. SumFunctionOnSet(f, T) = SumFunctionOnSet(a, T) + SumFunctionOnSet(b, T)
  BY <1>1, <1>2, SumAdds
<1>6. SumFunctionOnSet(a, T) = SumFunctionOnSet(a, A) BY <1>1, <1>2, <1>3, SumOfPart
<1>7. SumFunctionOnSet(b, T) = SumFunctionOnSet(b, B) BY <1>1, <1>2, <1>3, SumOfPart
<1>8. SumFunctionOnSet(a, A) = SumFunctionOnSet(f, A) BY <1>4, SumAgrees
<1>9. SumFunctionOnSet(b, B) = SumFunctionOnSet(f, B) BY <1>4, SumAgrees
<1> QED BY <1>5, <1>6, <1>7, <1>8, <1>9

\* A sum whose terms have other names.
LEMMA SumRenamed ==
    ASSUME NEW f, NEW g, NEW r, NEW S, IsFiniteSet(S), NEW T, IsFiniteSet(T),
           \A x \in S : r[x] \in T /\ g[x] = f[r[x]] /\ g[x] \in Int,
           \A x, y \in S : r[x] = r[y] => x = y,
           \A z \in T : \E x \in S : z = r[x]
    PROVE  SumFunctionOnSet(g, S) = SumFunctionOnSet(f, T)
<1> DEFINE Image(s) == {r[x] : x \in s}
           Bad == {s \in SUBSET S : SumFunctionOnSet(g, s) # SumFunctionOnSet(f, Image(s))}
<1>1. SUFFICES ASSUME Bad # {} PROVE FALSE
  <2>1. Image(S) = T OBVIOUS
  <2>2. S \notin Bad BY <1>1
  <2> QED BY <2>1, <2>2
<1>2. Bad \in SUBSET SUBSET S OBVIOUS
<1> HIDE DEF Bad
<1>3. PICK m \in Bad : \A v \in Bad : v \subseteq m => v = m BY <1>1, <1>2, SmallestSubset
<1>4. m \in SUBSET S /\ SumFunctionOnSet(g, m) # SumFunctionOnSet(f, Image(m))
  BY <1>3 DEF Bad
<1>5. IsFiniteSet(m) /\ \A z \in m : g[z] \in Int BY <1>4, FS_Subset
<1>6. Image(m) \subseteq T /\ IsFiniteSet(Image(m)) BY <1>4, FS_Subset
<1>7. PICK x : x \in m
  <2>1. CASE m = {}
    <3>1. Image(m) = {} BY <2>1
    <3>2. SumFunctionOnSet(f, {}) = 0 /\ SumFunctionOnSet(g, {}) = 0 BY FS_EmptySet, SumUnfolds
    <3> QED BY <1>4, <2>1, <3>1, <3>2
  <2> QED BY <2>1
<1>8. m \ {x} \notin Bad /\ m \ {x} \in SUBSET S BY <1>3, <1>4, <1>7
<1>9. SumFunctionOnSet(g, m \ {x}) = SumFunctionOnSet(f, Image(m \ {x})) BY <1>8 DEF Bad
<1>10. Image(m \ {x}) = Image(m) \ {r[x]} /\ r[x] \in Image(m) BY <1>4, <1>7
<1>11. \A y \in Image(m) : f[y] \in Int BY <1>4, <1>5
<1>12. SumFunctionOnSet(f, Image(m)) = f[r[x]] + SumFunctionOnSet(f, Image(m) \ {r[x]})
  BY <1>6, <1>10, <1>11, SumTakesOut
<1>13. SumFunctionOnSet(g, m) = g[x] + SumFunctionOnSet(g, m \ {x})
  BY <1>5, <1>7, SumTakesOut
<1>14. g[x] = f[r[x]] BY <1>4, <1>7
<1> QED BY <1>4, <1>9, <1>10, <1>12, <1>13, <1>14
-----------------------------------------------------------------------------
\* SumFunction adds up a function over its domain.
LEMMA SumFunctionIs ==
    ASSUME NEW f
    PROVE  SumFunction(f) = SumFunctionOnSet(f, DOMAIN f)
BY DEF SumFunction

\* A sequence has a finite number of terms.
LEMMA TermsFinite ==
    ASSUME NEW n \in Nat
    PROVE  IsFiniteSet(1..n)
BY FS_Interval

\* A sequence that grows by one term.
LEMMA SumAppend ==
    ASSUME NEW s \in Seq(Int), NEW x \in Int
    PROVE  SumFunction(Append(s, x)) = SumFunction(s) + x
<1>1. PICK n \in Nat : n = Len(s) OBVIOUS
<1>2. PICK t : t = Append(s, x) OBVIOUS
<1>3. /\ DOMAIN s = 1..n /\ DOMAIN t = 1..(n + 1)
      /\ \A j \in 1..n : t[j] = s[j] /\ s[j] \in Int
      /\ t[n + 1] = x
  BY <1>1, <1>2
<1>4. IsFiniteSet(1..n) /\ IsFiniteSet(1..(n + 1)) BY TermsFinite
<1>5. n + 1 \in 1..(n + 1) /\ (1..(n + 1)) \ {n + 1} = 1..n OBVIOUS
<1>6. \A j \in 1..(n + 1) : t[j] \in Int BY <1>3
<1>7. SumFunctionOnSet(t, 1..(n + 1)) = t[n + 1] + SumFunctionOnSet(t, 1..n)
  BY <1>4, <1>5, <1>6, SumTakesOut
<1>8. SumFunctionOnSet(t, 1..n) = SumFunctionOnSet(s, 1..n) BY <1>3, <1>4, SumAgrees
<1>9. SumFunctionOnSet(s, 1..n) \in Int BY <1>3, <1>4, SumType
<1>10. SumFunction(t) = SumFunctionOnSet(t, 1..(n + 1)) BY <1>3, SumFunctionIs
<1>11. SumFunction(s) = SumFunctionOnSet(s, 1..n) BY <1>3, SumFunctionIs
<1> QED BY <1>2, <1>3, <1>7, <1>8, <1>9, <1>10, <1>11

\* One sequence after another.
LEMMA SumConcat ==
    ASSUME NEW s \in Seq(Int), NEW t \in Seq(Int)
    PROVE  SumFunction(s \o t) = SumFunction(s) + SumFunction(t)
<1>1. PICK n \in Nat : n = Len(s) OBVIOUS
<1>2. PICK m \in Nat : m = Len(t) OBVIOUS
<1>3. PICK c : c = s \o t OBVIOUS
<1>4. /\ DOMAIN s = 1..n /\ DOMAIN t = 1..m /\ DOMAIN c = 1..(n + m)
      /\ \A j \in 1..n : c[j] = s[j] /\ s[j] \in Int
      /\ \A j \in 1..m : c[n + j] = t[j] /\ t[j] \in Int
  BY <1>1, <1>2, <1>3
<1>5. PICK B : B = (n + 1)..(n + m) OBVIOUS
<1>6. 1..n \cup B = 1..(n + m) /\ 1..n \cap B = {} BY <1>5
<1>7. IsFiniteSet(1..n) /\ IsFiniteSet(1..m) BY TermsFinite
<1>8. IsFiniteSet(B) BY <1>5, FS_Interval
<1>9. \A j \in 1..n \cup B : c[j] \in Int
  <2>1. ASSUME NEW j \in B PROVE c[j] \in Int
    <3>1. j - n \in 1..m /\ j = n + (j - n) BY <1>5, <2>1
    <3> QED BY <1>4, <3>1
  <2> QED BY <1>4, <2>1
<1>10. SumFunctionOnSet(c, 1..(n + m)) = SumFunctionOnSet(c, 1..n) + SumFunctionOnSet(c, B)
  <2>1. PICK P : P = 1..n OBVIOUS
  <2>2. IsFiniteSet(P) /\ P \cap B = {} /\ \A j \in P \cup B : c[j] \in Int
    BY <1>6, <1>7, <1>9, <2>1
  <2>3. SumFunctionOnSet(c, P \cup B) = SumFunctionOnSet(c, P) + SumFunctionOnSet(c, B)
    BY <1>8, <2>2, SumSplits
  <2> QED BY <1>6, <2>1, <2>3
<1>11. SumFunctionOnSet(c, 1..n) = SumFunctionOnSet(s, 1..n) BY <1>4, <1>7, SumAgrees
<1>12. PICK A : A = 1..m OBVIOUS
<1>13. PICK r : r = [j \in A |-> n + j] OBVIOUS
<1>14. SumFunctionOnSet(t, A) = SumFunctionOnSet(c, B)
  <2>1. \A j \in A : r[j] \in B /\ t[j] = c[r[j]] /\ t[j] \in Int
    BY <1>4, <1>5, <1>12, <1>13
  <2>2. \A j, k \in A : r[j] = r[k] => j = k BY <1>12, <1>13
  <2>3. ASSUME NEW z \in B PROVE \E j \in A : z = r[j]
    <3>1. z - n \in A /\ r[z - n] = z BY <1>5, <1>12, <1>13, <2>3
    <3> QED BY <3>1
  <2>4. \A z \in B : \E j \in A : z = r[j] BY <2>3
  <2>5. IsFiniteSet(A) /\ IsFiniteSet(B) BY <1>7, <1>8, <1>12
  <2> QED BY <2>1, <2>2, <2>4, <2>5, SumRenamed
<1>15. /\ SumFunction(c) = SumFunctionOnSet(c, 1..(n + m))
       /\ SumFunction(s) = SumFunctionOnSet(s, 1..n)
       /\ SumFunction(t) = SumFunctionOnSet(t, 1..m)
  BY <1>4, SumFunctionIs
<1> QED BY <1>3, <1>10, <1>11, <1>12, <1>14, <1>15
-----------------------------------------------------------------------------
\* The sum of all is the sum of the sums of the classes of a partition.
LEMMA SumByClass ==
    ASSUME NEW S, IsFiniteSet(S), NEW f, \A x \in S : f[x] \in Int,
           NEW k, NEW R, IsFiniteSet(R), \A x \in S : k[x] \in R,
           NEW c, \A r \in R : \A x : x \in c[r] <=> x \in S /\ k[x] = r,
           NEW h, \A r \in R : h[r] = SumFunctionOnSet(f, c[r])
    PROVE  SumFunctionOnSet(h, R) = SumFunctionOnSet(f, S)
<1> DEFINE Part(U) == {x \in S : k[x] \in U}
           Bad == {U \in SUBSET R : SumFunctionOnSet(h, U) # SumFunctionOnSet(f, Part(U))}
<1>1. \A r \in R : h[r] \in Int
  <2> TAKE r \in R
  <2>1. PICK P : P = c[r] OBVIOUS
  <2>2. P \subseteq S BY <2>1
  <2>3. IsFiniteSet(P) BY <2>2, FS_Subset
  <2>4. SumFunctionOnSet(f, P) \in Int BY <2>2, <2>3, SumType, \A x \in P : f[x] \in Int
  <2> QED BY <2>1, <2>4
<1>2. Bad = {}
  <2>1. SUFFICES ASSUME Bad # {} PROVE FALSE OBVIOUS
  <2>2. Bad \in SUBSET SUBSET R OBVIOUS
  <2>3. PICK m \in Bad : \A U \in Bad : U \subseteq m => U = m
    <3> HIDE DEF Bad
    <3> QED BY <2>1, <2>2, SmallestSubset
  <2>4. m \subseteq R /\ SumFunctionOnSet(h, m) # SumFunctionOnSet(f, Part(m)) BY <2>3
  <2>5. IsFiniteSet(m) BY <2>4, FS_Subset
  <2>6. CASE m = {}
    <3>1. Part(m) = {} BY <2>6
    <3>2. IsFiniteSet({}) BY FS_EmptySet
    <3>3. SumFunctionOnSet(h, m) = 0 BY <2>6, <3>2, SumUnfolds
    <3>4. SumFunctionOnSet(f, {}) = 0 BY <3>2, SumUnfolds
    <3> QED BY <2>4, <3>1, <3>3, <3>4
  <2>7. CASE m # {}
    <3>1. PICK r \in m : TRUE BY <2>7
    <3>2. PICK U : U = m \ {r} OBVIOUS
    <3>3. U \in SUBSET R /\ U \subseteq m /\ U # m BY <2>4, <3>1, <3>2
    <3>4. U \notin Bad BY <2>3, <3>3
    <3>5. SumFunctionOnSet(h, U) = SumFunctionOnSet(f, Part(U)) BY <3>3, <3>4
    <3>6. \A x \in m : h[x] \in Int BY <1>1, <2>4
    <3>7. SumFunctionOnSet(h, m) = h[r] + SumFunctionOnSet(h, U)
      BY <2>5, <3>1, <3>2, <3>6, SumTakesOut
    <3>8. PICK P : P = c[r] OBVIOUS
    <3>9. PICK Q : Q = Part(U) OBVIOUS
    <3>10. P \subseteq S /\ Q \subseteq S BY <2>4, <3>1, <3>8, <3>9
    <3>11. IsFiniteSet(P) /\ IsFiniteSet(Q) BY <3>10, FS_Subset
    <3>12. P \cap Q = {} BY <2>4, <3>1, <3>2, <3>8, <3>9
    <3>13. P \cup Q = Part(m) BY <2>4, <3>1, <3>2, <3>8, <3>9
    <3>14. \A x \in P \cup Q : f[x] \in Int BY <3>10
    <3>15. SumFunctionOnSet(f, P \cup Q) = SumFunctionOnSet(f, P) + SumFunctionOnSet(f, Q)
      BY <3>11, <3>12, <3>14, SumSplits
    <3>16. h[r] = SumFunctionOnSet(f, P) BY <2>4, <3>1, <3>8
    <3> QED BY <2>4, <3>5, <3>7, <3>9, <3>13, <3>15, <3>16
  <2> QED BY <2>6, <2>7
<1>3. Part(R) = S OBVIOUS
<1> QED BY <1>2, <1>3
=============================================================================
