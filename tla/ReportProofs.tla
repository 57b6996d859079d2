----------------------------- MODULE ReportProofs -----------------------------
(***************************************************************************)
(* What TLAPS proves of what the pages show, for any number of rows: the   *)
(* figures of the dashboards and the view they are kept in, the lists of   *)
(* work, the board, the inbox and the files of daily metrics; and of the   *)
(* instance that TLC checks, whose parts are behaviours of these.          *)
(***************************************************************************)
EXTENDS MCReports, FiniteSetTheorems, WellFoundedInduction, TLAPS

----------------------------------------------------------------------------
(* Sums over finite sets of rows.  What a smallest set that is wrong would  *)
(* contradict stands in for induction on the set.                           *)

\* Among the finite sets that something is wrong with, one is a smallest.
LEMMA SmallestSet ==
  ASSUME NEW S, IsFiniteSet(S), NEW D, D \subseteq SUBSET S, D # {}
  PROVE  \E X \in D : \A Y \in SUBSET X : Y # X => Y \notin D
<1>1. IsWellFoundedOn(StrictSubsetOrdering(S), FiniteSubsetsOf(S))
  BY FS_StrictSubsetOrderingWellFounded
<1>2. FiniteSubsetsOf(S) = SUBSET S
  BY FS_FiniteSubsetsOfFinite
<1>3. PICK X \in D : \A Y \in D : <<Y, X>> \notin StrictSubsetOrdering(S)
  BY <1>1, <1>2, WFMin
<1>4. ASSUME NEW Y \in SUBSET X, Y # X, Y \in D PROVE FALSE
  <2>1. <<Y, X>> \in StrictSubsetOrdering(S)
    BY <1>3, <1>4 DEF StrictSubsetOrdering
  <2> QED BY <1>3, <1>4, <2>1
<1> QED BY <1>3, <1>4

\* The recursion a sum stands for: g gives the sum of f over each part of S.
Picked(s) == CHOOSE x \in s : TRUE
Adds(f, g, S) == g = [s \in SUBSET S |-> IF s = {} THEN 0 ELSE f[Picked(s)] + g[s \ {Picked(s)}]]

LEMMA PickedIn == ASSUME NEW s, s # {} PROVE Picked(s) \in s
BY DEF Picked

LEMMA SumIsAdded == ASSUME NEW f, NEW S PROVE SumFunctionOnSet(f, S) = (CHOOSE g : Adds(f, g, S))[S]
BY DEF SumFunctionOnSet, FoldFunctionOnSet, MapThenFoldSet, Adds, Picked

LEMMA AddsAt ==
  ASSUME NEW f, NEW g, NEW S, Adds(f, g, S), NEW s \in SUBSET S
  PROVE  g[s] = IF s = {} THEN 0 ELSE f[Picked(s)] + g[s \ {Picked(s)}]
BY DEF Adds

LEMMA AddsOnce ==
  ASSUME NEW f, NEW S, NEW T, NEW g, NEW h, Adds(f, g, S), Adds(f, h, T),
         NEW s, IsFiniteSet(s), s \subseteq S, s \subseteq T
  PROVE  g[s] = h[s]
<1> DEFINE D == {u \in SUBSET s : g[u] # h[u]}
<1>1. SUFFICES ASSUME D # {} PROVE FALSE
  OBVIOUS
<1>2. D \subseteq SUBSET s
  OBVIOUS
<1>3. PICK X \in D : \A Y \in SUBSET X : Y # X => Y \notin D
  <2> HIDE DEF D
  <2> QED BY <1>1, <1>2, SmallestSet
<1>4. g[X] = IF X = {} THEN 0 ELSE f[Picked(X)] + g[X \ {Picked(X)}]
  BY DEF Adds
<1>5. h[X] = IF X = {} THEN 0 ELSE f[Picked(X)] + h[X \ {Picked(X)}]
  BY DEF Adds
<1>6. X # {} => g[X \ {Picked(X)}] = h[X \ {Picked(X)}]
  BY <1>3, PickedIn
<1> QED BY <1>4, <1>5, <1>6

LEMMA AddsExists == ASSUME NEW f, NEW S, IsFiniteSet(S) PROVE \E g : Adds(f, g, S)
<1> DEFINE D == {u \in SUBSET S : ~\E g : Adds(f, g, u)}
<1>1. SUFFICES ASSUME D # {} PROVE FALSE
  OBVIOUS
<1>2. D \subseteq SUBSET S
  OBVIOUS
<1>3. PICK X \in D : \A Y \in SUBSET X : Y # X => Y \notin D
  <2> HIDE DEF D
  <2> QED BY <1>1, <1>2, SmallestSet
<1> DEFINE G(u) == CHOOSE g : Adds(f, g, u)
           g == [s \in SUBSET X |-> IF s = {} THEN 0 ELSE f[Picked(s)] + G(s \ {Picked(s)})[s \ {Picked(s)}]]
<1>4. ASSUME NEW u \in SUBSET X, u # X PROVE Adds(f, G(u), u) /\ IsFiniteSet(u)
  BY <1>3, <1>4, FS_Subset
<1>5. ASSUME NEW u \in SUBSET X, u # X PROVE g[u] = G(u)[u]
  <2>1. CASE u = {}
    <3>1. G(u)[u] = 0
      <4> HIDE DEF G, g
      <4> QED BY <1>4, <1>5, <2>1, AddsAt
    <3> HIDE DEF G
    <3> QED BY <3>1, <2>1
  <2>2. CASE u # {}
    <3> DEFINE v == u \ {Picked(u)}
    <3>1. v \in SUBSET X /\ v # X /\ v \subseteq u
      BY <1>5
    <3>2. G(u)[u] = f[Picked(u)] + G(u)[v]
      <4> HIDE DEF G, g
      <4> QED BY <1>4, <1>5, <2>2, AddsAt
    <3>3. G(u)[v] = G(v)[v]
      <4> HIDE DEF G, v
      <4> QED BY <1>4, <1>5, <3>1, AddsOnce
    <3>4. g[u] = f[Picked(u)] + G(v)[v]
      BY <2>2
    <3> QED BY <3>2, <3>3, <3>4
  <2> QED BY <2>1, <2>2
<1>6. ASSUME NEW s \in SUBSET X, s # {} PROVE g[s \ {Picked(s)}] = G(s \ {Picked(s)})[s \ {Picked(s)}]
  <2>1. s \ {Picked(s)} \in SUBSET X /\ s \ {Picked(s)} # X
    BY <1>6, PickedIn
  <2> HIDE DEF g, G
  <2> QED BY <1>5, <2>1
<1>7. Adds(f, g, X)
  <2> DEFINE term(s) == IF s = {} THEN 0 ELSE f[Picked(s)] + G(s \ {Picked(s)})[s \ {Picked(s)}]
  <2>1. \A s \in SUBSET X : term(s) = IF s = {} THEN 0 ELSE f[Picked(s)] + g[s \ {Picked(s)}]
    <3> HIDE DEF G, g
    <3> QED BY <1>6
  <2>2. g = [s \in SUBSET X |-> term(s)]
    <3> HIDE DEF G
    <3> QED OBVIOUS
  <2>3. g = [s \in SUBSET X |-> IF s = {} THEN 0 ELSE f[Picked(s)] + g[s \ {Picked(s)}]]
    <3> HIDE DEF g, term
    <3> QED BY <2>1, <2>2
  <2> HIDE DEF g
  <2> QED BY <2>3 DEF Adds
<1> QED BY <1>3, <1>7

LEMMA SumOfNone == ASSUME NEW f PROVE SumFunctionOnSet(f, {}) = 0
<1>1. IsFiniteSet({})
  BY FS_EmptySet
<1>2. PICK g : Adds(f, g, {})
  BY <1>1, AddsExists
<1>3. Adds(f, CHOOSE h : Adds(f, h, {}), {})
  BY <1>2
<1> DEFINE c == CHOOSE h : Adds(f, h, {})
<1>4. c[{}] = 0
  <2> HIDE DEF c
  <2> QED BY <1>3 DEF c, Adds
<1> QED BY <1>4, SumIsAdded

LEMMA SumPicks ==
  ASSUME NEW f, NEW S, IsFiniteSet(S), S # {}
  PROVE  SumFunctionOnSet(f, S) = f[Picked(S)] + SumFunctionOnSet(f, S \ {Picked(S)})
<1> DEFINE T == S \ {Picked(S)}
           c == CHOOSE h : Adds(f, h, S)
           d == CHOOSE h : Adds(f, h, T)
<1>1. IsFiniteSet(T) /\ T \subseteq S
  BY FS_Subset
<1>2. Adds(f, c, S)
  BY AddsExists
<1>3. Adds(f, d, T)
  <2> HIDE DEF T
  <2> QED BY <1>1, AddsExists
<1>4. c[S] = f[Picked(S)] + c[T]
  <2> HIDE DEF c
  <2> QED BY <1>2 DEF Adds
<1>5. c[T] = d[T]
  <2> HIDE DEF c, d, T
  <2> QED BY <1>1, <1>2, <1>3, AddsOnce
<1>6. SumFunctionOnSet(f, S) = c[S] /\ SumFunctionOnSet(f, T) = d[T]
  BY SumIsAdded
<1> QED BY <1>4, <1>5, <1>6

LEMMA SumIsInt ==
  ASSUME NEW f, NEW S, IsFiniteSet(S), \A x \in S : f[x] \in Int
  PROVE  SumFunctionOnSet(f, S) \in Int
<1> DEFINE D == {u \in SUBSET S : SumFunctionOnSet(f, u) \notin Int}
<1>1. SUFFICES ASSUME D # {} PROVE FALSE
  OBVIOUS
<1>2. D \subseteq SUBSET S
  OBVIOUS
<1>3. PICK X \in D : \A Y \in SUBSET X : Y # X => Y \notin D
  <2> HIDE DEF D
  <2> QED BY <1>1, <1>2, SmallestSet
<1>4. X # {}
  <2>1. SumFunctionOnSet(f, {}) \in Int
    BY SumOfNone
  <2> QED BY <1>3, <2>1
<1>5. SumFunctionOnSet(f, X) = f[Picked(X)] + SumFunctionOnSet(f, X \ {Picked(X)})
  BY <1>4, FS_Subset, SumPicks
<1>6. X \ {Picked(X)} \notin D /\ Picked(X) \in S
  BY <1>3, <1>4, PickedIn
<1> QED BY <1>3, <1>5, <1>6

\* A sum takes its terms in any order.
LEMMA SumTakes ==
  ASSUME NEW f, NEW S, IsFiniteSet(S), \A x \in S : f[x] \in Int, NEW e \in S
  PROVE  SumFunctionOnSet(f, S) = f[e] + SumFunctionOnSet(f, S \ {e})
<1> DEFINE Sum(u) == SumFunctionOnSet(f, u)
           D == {u \in SUBSET S : \E x \in u : Sum(u) # f[x] + Sum(u \ {x})}
<1>1. SUFFICES ASSUME D # {} PROVE FALSE
  OBVIOUS
<1>2. D \subseteq SUBSET S
  OBVIOUS
<1>3. PICK X \in D : \A Y \in SUBSET X : Y # X => Y \notin D
  <2> HIDE DEF D
  <2> QED BY <1>1, <1>2, SmallestSet
<1>4. PICK x \in X : Sum(X) # f[x] + Sum(X \ {x})
  OBVIOUS
<1> DEFINE c == Picked(X)
<1>5. c \in X /\ Sum(X) = f[c] + Sum(X \ {c})
  BY FS_Subset, SumPicks, PickedIn
<1>6. c # x
  BY <1>4, <1>5
<1>7. Sum(X \ {c}) = f[x] + Sum((X \ {c}) \ {x})
  BY <1>3, <1>5, <1>6
<1>8. Sum(X \ {x}) = f[c] + Sum((X \ {x}) \ {c})
  BY <1>3, <1>5, <1>6
<1>9. (X \ {c}) \ {x} = (X \ {x}) \ {c}
  OBVIOUS
<1>10. IsFiniteSet((X \ {x}) \ {c}) /\ \A y \in (X \ {x}) \ {c} : f[y] \in Int
  BY FS_Subset
<1>11. Sum((X \ {x}) \ {c}) \in Int /\ f[c] \in Int /\ f[x] \in Int
  BY <1>5, <1>10, SumIsInt
<1> DEFINE u == Sum((X \ {x}) \ {c})
<1>12. Sum(X) = f[c] + (f[x] + u) /\ Sum(X \ {x}) = f[c] + u
  <2> HIDE DEF Sum, c
  <2> QED BY <1>5, <1>7, <1>8, <1>9
<1>13. f[c] + (f[x] + u) = f[x] + (f[c] + u)
  <2>1. u \in Int /\ f[c] \in Int /\ f[x] \in Int
    BY <1>11
  <2> HIDE DEF u, c
  <2> QED BY <2>1
<1> HIDE DEF Sum, c, u
<1> QED BY <1>4, <1>12, <1>13

LEMMA SumSame ==
  ASSUME NEW f, NEW g, NEW S, IsFiniteSet(S), \A x \in S : f[x] = g[x] /\ f[x] \in Int
  PROVE  SumFunctionOnSet(f, S) = SumFunctionOnSet(g, S)
<1> DEFINE D == {u \in SUBSET S : SumFunctionOnSet(f, u) # SumFunctionOnSet(g, u)}
<1>1. SUFFICES ASSUME D # {} PROVE FALSE
  OBVIOUS
<1>2. D \subseteq SUBSET S
  OBVIOUS
<1>3. PICK X \in D : \A Y \in SUBSET X : Y # X => Y \notin D
  <2> HIDE DEF D
  <2> QED BY <1>1, <1>2, SmallestSet
<1>4. X # {}
  <2>1. SumFunctionOnSet(f, {}) = SumFunctionOnSet(g, {})
    BY SumOfNone
  <2> QED BY <1>3, <2>1
<1>5. PICK e \in X : TRUE
  BY <1>4
<1>6. SumFunctionOnSet(f, X) = f[e] + SumFunctionOnSet(f, X \ {e})
  BY FS_Subset, SumTakes
<1>7. SumFunctionOnSet(g, X) = g[e] + SumFunctionOnSet(g, X \ {e})
  BY FS_Subset, SumTakes
<1>8. X \ {e} \notin D
  BY <1>3
<1> QED BY <1>3, <1>6, <1>7, <1>8

\* Two sums of one set, term by term.
LEMMA SumPlus ==
  ASSUME NEW f, NEW g, NEW h, NEW S, IsFiniteSet(S),
         \A x \in S : f[x] \in Int /\ g[x] \in Int /\ h[x] = f[x] + g[x]
  PROVE  SumFunctionOnSet(h, S) = SumFunctionOnSet(f, S) + SumFunctionOnSet(g, S)
<1> DEFINE F(u) == SumFunctionOnSet(f, u)
           G(u) == SumFunctionOnSet(g, u)
           H(u) == SumFunctionOnSet(h, u)
           D == {u \in SUBSET S : H(u) # F(u) + G(u)}
<1>1. SUFFICES ASSUME D # {} PROVE FALSE
  OBVIOUS
<1>2. D \subseteq SUBSET S
  OBVIOUS
<1>3. PICK X \in D : \A Y \in SUBSET X : Y # X => Y \notin D
  <2> HIDE DEF D
  <2> QED BY <1>1, <1>2, SmallestSet
<1>4. X # {}
  <2>1. F({}) = 0 /\ G({}) = 0 /\ H({}) = 0
    BY SumOfNone
  <2>2. H({}) = F({}) + G({})
    BY <2>1
  <2> QED BY <1>3, <2>2
<1>5. PICK e \in X : TRUE
  BY <1>4
<1>6. F(X) = f[e] + F(X \ {e}) /\ G(X) = g[e] + G(X \ {e}) /\ H(X) = h[e] + H(X \ {e})
  <2>1. IsFiniteSet(X) /\ \A x \in X : f[x] \in Int /\ g[x] \in Int /\ h[x] \in Int
    BY FS_Subset
  <2> QED BY <2>1, SumTakes
<1>7. F(X \ {e}) \in Int /\ G(X \ {e}) \in Int /\ f[e] \in Int /\ g[e] \in Int /\ h[e] = f[e] + g[e]
  BY FS_Subset, SumIsInt
<1>8. H(X \ {e}) = F(X \ {e}) + G(X \ {e})
  BY <1>3
<1>9. H(X) # F(X) + G(X)
  OBVIOUS
<1> HIDE DEF F, G, H
<1> QED BY <1>6, <1>7, <1>8, <1>9

\* Smaller terms, smaller sum.
LEMMA SumGrows ==
  ASSUME NEW f, NEW g, NEW S, IsFiniteSet(S), \A x \in S : f[x] \in Int /\ g[x] \in Int /\ f[x] <= g[x]
  PROVE  SumFunctionOnSet(f, S) <= SumFunctionOnSet(g, S)
<1> DEFINE F(u) == SumFunctionOnSet(f, u)
           G(u) == SumFunctionOnSet(g, u)
           D == {u \in SUBSET S : ~(F(u) <= G(u))}
<1>1. SUFFICES ASSUME D # {} PROVE FALSE
  OBVIOUS
<1>2. D \subseteq SUBSET S
  OBVIOUS
<1>3. PICK X \in D : \A Y \in SUBSET X : Y # X => Y \notin D
  <2> HIDE DEF D
  <2> QED BY <1>1, <1>2, SmallestSet
<1>4. X # {}
  <2>1. F({}) = 0 /\ G({}) = 0
    BY SumOfNone
  <2>2. F({}) <= G({})
    BY <2>1
  <2> QED BY <1>3, <2>2
<1>5. PICK e \in X : TRUE
  BY <1>4
<1>6. F(X) = f[e] + F(X \ {e}) /\ G(X) = g[e] + G(X \ {e})
  <2>1. IsFiniteSet(X) /\ \A x \in X : f[x] \in Int /\ g[x] \in Int
    BY FS_Subset
  <2> QED BY <2>1, SumTakes
<1>7. F(X \ {e}) \in Int /\ G(X \ {e}) \in Int /\ f[e] \in Int /\ g[e] \in Int /\ f[e] <= g[e]
  BY FS_Subset, SumIsInt
<1>8. F(X \ {e}) <= G(X \ {e})
  BY <1>3
<1>9. ~(F(X) <= G(X))
  OBVIOUS
<1> HIDE DEF F, G
<1> QED BY <1>6, <1>7, <1>8, <1>9

\* Terms that are zero may be left out, or put in.
LEMMA SumSkips ==
  ASSUME NEW f, NEW S, IsFiniteSet(S), NEW T, T \subseteq S,
         \A x \in T : f[x] \in Int, \A x \in S \ T : f[x] = 0
  PROVE  SumFunctionOnSet(f, S) = SumFunctionOnSet(f, T)
<1> DEFINE Sum(u) == SumFunctionOnSet(f, u)
           D == {u \in SUBSET (S \ T) : Sum(T \cup u) # Sum(T)}
<1>1. SUFFICES ASSUME D # {} PROVE FALSE
  <2>1. S \ T \notin D
    BY <1>1
  <2>2. T \cup (S \ T) = S
    OBVIOUS
  <2> QED BY <2>1, <2>2
<1>2. D \subseteq SUBSET (S \ T) /\ IsFiniteSet(S \ T)
  BY FS_Subset
<1>3. PICK X \in D : \A Y \in SUBSET X : Y # X => Y \notin D
  <2> HIDE DEF D
  <2> QED BY <1>1, <1>2, SmallestSet
<1>4. X # {}
  <2>1. T \cup {} = T
    OBVIOUS
  <2> QED BY <1>3, <2>1
<1>5. PICK e \in X : TRUE
  BY <1>4
<1>6. Sum(T \cup X) = f[e] + Sum((T \cup X) \ {e})
  <2>1. IsFiniteSet(T \cup X) /\ (\A x \in T \cup X : f[x] \in Int) /\ e \in T \cup X
    <3>1. T \cup X \subseteq S
      OBVIOUS
    <3> QED BY <3>1, FS_Subset
  <2> QED BY <2>1, SumTakes
<1>7. (T \cup X) \ {e} = T \cup (X \ {e}) /\ f[e] = 0
  OBVIOUS
<1>8. Sum(T \cup (X \ {e})) = Sum(T)
  BY <1>3
<1>9. Sum(T) \in Int
  BY FS_Subset, SumIsInt
<1>10. Sum(T \cup X) # Sum(T)
  OBVIOUS
<1>11. Sum((T \cup X) \ {e}) = Sum(T \cup (X \ {e}))
  BY <1>7
<1> HIDE DEF Sum, D
<1> QED BY <1>6, <1>7, <1>8, <1>9, <1>10, <1>11

\* The sum of a part, of amounts none of which is negative.
LEMMA SumOfPart ==
  ASSUME NEW f, NEW S, IsFiniteSet(S), \A x \in S : f[x] \in Nat, NEW T, T \subseteq S
  PROVE  0 <= SumFunctionOnSet(f, T) /\ SumFunctionOnSet(f, T) <= SumFunctionOnSet(f, S)
<1> DEFINE g == [x \in S |-> IF x \in T THEN f[x] ELSE 0]
           z == [x \in S |-> 0]
<1>1. SumFunctionOnSet(g, S) = SumFunctionOnSet(g, T)
  <2>1. (\A x \in T : g[x] \in Int) /\ \A x \in S \ T : g[x] = 0
    OBVIOUS
  <2> HIDE DEF g
  <2> QED BY <2>1, SumSkips
<1>2. SumFunctionOnSet(f, T) = SumFunctionOnSet(g, T)
  <2>1. \A x \in T : f[x] = g[x] /\ f[x] \in Int
    OBVIOUS
  <2> HIDE DEF g
  <2> QED BY <2>1, SumSame, FS_Subset
<1>3. SumFunctionOnSet(g, S) <= SumFunctionOnSet(f, S)
  <2>1. \A x \in S : g[x] \in Int /\ f[x] \in Int /\ g[x] <= f[x]
    OBVIOUS
  <2> HIDE DEF g
  <2> QED BY <2>1, SumGrows
<1>4. SumFunctionOnSet(z, S) <= SumFunctionOnSet(g, S)
  <2>1. \A x \in S : g[x] \in Int /\ z[x] \in Int /\ z[x] <= g[x]
    OBVIOUS
  <2> HIDE DEF g, z
  <2> QED BY <2>1, SumGrows
<1>5. SumFunctionOnSet(z, S) = SumFunctionOnSet(z, {})
  <2>1. \A x \in S \ {} : z[x] = 0
    OBVIOUS
  <2> HIDE DEF z
  <2> QED BY <2>1, SumSkips
<1> HIDE DEF g, z
<1> QED BY <1>1, <1>2, <1>3, <1>4, <1>5, SumOfNone

\* Ones add up to the count.
LEMMA SumOfOnes ==
  ASSUME NEW f, NEW S, IsFiniteSet(S), \A x \in S : f[x] = 1
  PROVE  SumFunctionOnSet(f, S) = Cardinality(S)
<1> DEFINE D == {u \in SUBSET S : SumFunctionOnSet(f, u) # Cardinality(u)}
<1>1. SUFFICES ASSUME D # {} PROVE FALSE
  OBVIOUS
<1>2. D \subseteq SUBSET S
  OBVIOUS
<1>3. PICK X \in D : \A Y \in SUBSET X : Y # X => Y \notin D
  <2> HIDE DEF D
  <2> QED BY <1>1, <1>2, SmallestSet
<1>4. X # {}
  BY <1>3, SumOfNone, FS_EmptySet
<1>5. PICK e \in X : TRUE
  BY <1>4
<1>6. IsFiniteSet(X) /\ IsFiniteSet(X \ {e})
  BY FS_Subset
<1>7. SumFunctionOnSet(f, X) = 1 + SumFunctionOnSet(f, X \ {e})
  <2>1. \A x \in X : f[x] \in Int
    OBVIOUS
  <2>2. f[e] = 1
    OBVIOUS
  <2> QED BY <1>6, <2>1, <2>2, SumTakes
<1>8. Cardinality(X) = 1 + Cardinality(X \ {e}) /\ Cardinality(X \ {e}) \in Nat
  BY <1>6, FS_RemoveElement, FS_CardinalityType
<1>9. SumFunctionOnSet(f, X \ {e}) = Cardinality(X \ {e})
  BY <1>3
<1> QED BY <1>3, <1>7, <1>8, <1>9

\* Two sets apart.
LEMMA SumOfBoth ==
  ASSUME NEW f, NEW S, NEW T, IsFiniteSet(S), IsFiniteSet(T), S \cap T = {}, \A x \in S \cup T : f[x] \in Int
  PROVE  SumFunctionOnSet(f, S \cup T) = SumFunctionOnSet(f, S) + SumFunctionOnSet(f, T)
<1> DEFINE g == [x \in S \cup T |-> IF x \in S THEN f[x] ELSE 0]
           h == [x \in S \cup T |-> IF x \in T THEN f[x] ELSE 0]
<1>1. IsFiniteSet(S \cup T)
  BY FS_Union
<1>2. SumFunctionOnSet(f, S \cup T) = SumFunctionOnSet(g, S \cup T) + SumFunctionOnSet(h, S \cup T)
  <2>1. \A x \in S \cup T : g[x] \in Int /\ h[x] \in Int /\ f[x] = g[x] + h[x]
    OBVIOUS
  <2> HIDE DEF g, h
  <2> QED BY <1>1, <2>1, SumPlus
<1>3. SumFunctionOnSet(g, S \cup T) = SumFunctionOnSet(f, S)
  <2>1. (\A x \in S : g[x] = f[x] /\ g[x] \in Int) /\ \A x \in (S \cup T) \ S : g[x] = 0
    OBVIOUS
  <2> HIDE DEF g
  <2>2. SumFunctionOnSet(g, S \cup T) = SumFunctionOnSet(g, S)
    BY <1>1, <2>1, SumSkips
  <2>3. SumFunctionOnSet(g, S) = SumFunctionOnSet(f, S)
    BY <2>1, SumSame
  <2> QED BY <2>2, <2>3
<1>4. SumFunctionOnSet(h, S \cup T) = SumFunctionOnSet(f, T)
  <2>1. (\A x \in T : h[x] = f[x] /\ h[x] \in Int) /\ \A x \in (S \cup T) \ T : h[x] = 0
    OBVIOUS
  <2> HIDE DEF h
  <2>2. SumFunctionOnSet(h, S \cup T) = SumFunctionOnSet(h, T)
    BY <1>1, <2>1, SumSkips
  <2>3. SumFunctionOnSet(h, T) = SumFunctionOnSet(f, T)
    BY <2>1, SumSame
  <2> QED BY <2>2, <2>3
<1> HIDE DEF g, h
<1> QED BY <1>2, <1>3, <1>4

\* Each row is in one of the groups.
Groups(group, K, S) ==
  /\ \A k \in K : group[k] \subseteq S
  /\ \A x \in S : \E k \in K : x \in group[k]
  /\ \A k, j \in K : k # j => group[k] \cap group[j] = {}

\* Groups of rows, added up one by one.
LEMMA SumOfGroups ==
  ASSUME NEW f, NEW S, IsFiniteSet(S), NEW K, IsFiniteSet(K), NEW group, NEW by,
         \A x \in S : f[x] \in Int, Groups(group, K, S),
         \A k \in K : by[k] = SumFunctionOnSet(f, group[k])
  PROVE  SumFunctionOnSet(by, K) = SumFunctionOnSet(f, S)
<1> DEFINE Of(u) == UNION {group[k] : k \in u}
           D == {u \in SUBSET K : SumFunctionOnSet(by, u) # SumFunctionOnSet(f, Of(u))}
<1>1. SUFFICES ASSUME D # {} PROVE FALSE
  <2>1. Of(K) = S
    BY DEF Groups
  <2>2. K \notin D
    BY <1>1
  <2> QED BY <2>1, <2>2
<1>2. D \subseteq SUBSET K
  OBVIOUS
<1>3. PICK X \in D : \A Y \in SUBSET X : Y # X => Y \notin D
  <2> HIDE DEF D
  <2> QED BY <1>1, <1>2, SmallestSet
<1>4. X # {}
  <2>1. Of({}) = {}
    OBVIOUS
  <2>2. SumFunctionOnSet(by, {}) = SumFunctionOnSet(f, {})
    BY SumOfNone
  <2> QED BY <1>3, <2>1, <2>2
<1>5. PICK e \in X : TRUE
  BY <1>4
<1> DEFINE T == group[e]
           R == Of(X \ {e})
<1>6. IsFiniteSet(T) /\ IsFiniteSet(R) /\ T \cap R = {} /\ T \cup R = Of(X)
  <2>1. T \subseteq S /\ R \subseteq S
    BY DEF Groups
  <2>2. T \cap R = {}
    BY DEF Groups
  <2>3. T \cup R = Of(X)
    OBVIOUS
  <2> HIDE DEF T, R, Of
  <2> QED BY <2>1, <2>2, <2>3, FS_Subset
<1>7. SumFunctionOnSet(f, Of(X)) = SumFunctionOnSet(f, T) + SumFunctionOnSet(f, R)
  <2>1. \A x \in T \cup R : f[x] \in Int
    BY DEF Groups
  <2> HIDE DEF T, R, Of
  <2>2. SumFunctionOnSet(f, T \cup R) = SumFunctionOnSet(f, T) + SumFunctionOnSet(f, R)
    BY <1>6, <2>1, SumOfBoth
  <2> QED BY <1>6, <2>2
<1>8. ASSUME NEW k \in K PROVE by[k] \in Int
  <2>1. IsFiniteSet(group[k]) /\ \A x \in group[k] : f[x] \in Int
    BY FS_Subset DEF Groups
  <2> QED BY <2>1, SumIsInt
<1>9. SumFunctionOnSet(by, X) = by[e] + SumFunctionOnSet(by, X \ {e})
  BY <1>8, SumTakes, FS_Subset
<1>10. SumFunctionOnSet(by, X \ {e}) = SumFunctionOnSet(f, R)
  BY <1>3
<1>11. by[e] = SumFunctionOnSet(f, T)
  OBVIOUS
<1>12. SumFunctionOnSet(by, X) # SumFunctionOnSet(f, Of(X))
  OBVIOUS
<1> HIDE DEF Of, T, R
<1> QED BY <1>7, <1>9, <1>10, <1>11, <1>12

\* Groups counted one by one.
LEMMA CountOfGroups ==
  ASSUME NEW S, IsFiniteSet(S), NEW K, IsFiniteSet(K), NEW group, NEW by, Groups(group, K, S),
         \A k \in K : by[k] = Cardinality(group[k])
  PROVE  SumFunctionOnSet(by, K) = Cardinality(S)
<1> DEFINE ones == [x \in S |-> 1]
<1>1. \A x \in S : ones[x] = 1 /\ ones[x] \in Int
  OBVIOUS
<1> HIDE DEF ones
<1>2. ASSUME NEW k \in K PROVE by[k] = SumFunctionOnSet(ones, group[k])
  <2>1. IsFiniteSet(group[k]) /\ \A x \in group[k] : ones[x] = 1
    BY <1>1, FS_Subset DEF Groups
  <2> QED BY <2>1, SumOfOnes
<1>3. SumFunctionOnSet(by, K) = SumFunctionOnSet(ones, S)
  BY <1>1, <1>2, SumOfGroups
<1> QED BY <1>1, <1>3, SumOfOnes

LEMMA CountOfBoth ==
  ASSUME NEW S, NEW T, IsFiniteSet(S), IsFiniteSet(T), S \cap T = {}
  PROVE  IsFiniteSet(S \cup T) /\ Cardinality(S \cup T) = Cardinality(S) + Cardinality(T)
<1>1. /\ IsFiniteSet(S \cup T)
      /\ Cardinality(S \cup T) = Cardinality(S) + Cardinality(T) - Cardinality(S \cap T)
  BY FS_Union
<1>2. Cardinality(S \cap T) = 0
  BY FS_EmptySet
<1>3. Cardinality(S) \in Nat /\ Cardinality(T) \in Nat
  BY FS_CardinalityType
<1> QED BY <1>1, <1>2, <1>3

LEMMA SumIsOnSet == ASSUME NEW f PROVE SumFunction(f) = SumFunctionOnSet(f, DOMAIN f)
BY DEF SumFunction

LEMMA ImageFinite ==
  ASSUME NEW f, NEW S, IsFiniteSet(S)
  PROVE  IsFiniteSet({f[x] : x \in S})
<1> DEFINE T == {f[x] : x \in S}
           g == [x \in S |-> f[x]]
<1>1. g \in Surjection(S, T)
  BY DEF Surjection
<1> HIDE DEF g, T
<1>2. IsFiniteSet(T)
  BY <1>1, FS_Surjection
<1> QED BY <1>2 DEF T

----------------------------------------------------------------------------
(* Daily metrics.                                                          *)

Cell == [of : SUBSET [by : Requests, row : Nat], gone : BOOLEAN]
RequestRow ==
  [op : {"none", "upsert", "import", "edit", "remove"}, state : {"idle", "open", "done", "failed"},
   file : Seq(MetricRow), at : Nat \ {0}, read : SUBSET Cell, key : MetricKeys \cup {<<>>},
   wrote : SUBSET [key : MetricKeys, row : Cell],
   made : SUBSET [campaign : Campaigns, name : SUBSET CampaignNames], told : SUBSET Cell]

\* A transaction holds what row i of its file says, or a later row of the same key.
EntersRow(r, x, i) ==
  \E w \in x.wrote : /\ w.key[1] = x.file[i].date /\ w.key[3] = x.file[i].place
                     /\ \E f \in w.row.of : f.by = r /\ f.row >= i

\* One row a key, and one for each line of the file before the one it is at.
RowsInOrder(r, x) ==
  /\ \A v, w \in x.wrote : v.key = w.key => v = w
  /\ x.at = 1 => x.wrote = {}
  /\ x.state = "open" /\ x.op # "import" => Len(x.file) = 1
  /\ x.state = "open" /\ x.key # <<>> => x.at <= Len(x.file)
  /\ x.state = "open" /\ x.op \in {"upsert", "import"} =>
       /\ x.key # <<>> => x.key[1] = x.file[x.at].date /\ x.key[3] = x.file[x.at].place
       /\ \A i \in 1 .. Len(x.file) : i < x.at => EntersRow(r, x, i)

Committed(q) == request[q].state = "done"
OwnOrCommitted(r, cell) == \A f \in cell.of : f.by = r \/ Committed(f.by)

MetricsInv ==
  /\ metric \in [MetricKeys -> Cell]
  /\ request \in [Requests -> RequestRow]
  /\ \A k \in MetricKeys : \A f \in metric[k].of : Committed(f.by)
  /\ \A r \in Requests : /\ RowsInOrder(r, request[r])
                         /\ \A w \in request[r].wrote : OwnOrCommitted(r, w.row)

\* What a step shows of a request.
WholeOrNot(r) ==
  LET of(k) == {f \in metric'[k].of : f.by = r}
  IN /\ request'[r].state # "done" => \A k \in MetricKeys : of(k) = {}
     /\ (request[r].state = "open" /\ request'[r].state = "done" /\ request[r].wrote # {}
           /\ request[r].op \in {"upsert", "import"}) =>
          \A i \in DOMAIN request[r].file :
            \E k \in MetricKeys : \E f \in of(k) :
              /\ f.row >= i
              /\ k[1] = request[r].file[i].date /\ k[3] = request[r].file[i].place

LEMMA SeenIsCell ==
  ASSUME MetricsInv, NEW r \in Requests, NEW k \in MetricKeys
  PROVE  /\ Seen(r, k) \in Cell /\ OwnOrCommitted(r, Seen(r, k))
         /\ \A w \in request[r].wrote : w.key = k => Seen(r, k) = w.row
<1>1. request[r].wrote \subseteq [key : MetricKeys, row : Cell]
  BY DEF MetricsInv, RequestRow
<1>2. CASE k \in Own(r)
  <2> DEFINE v == CHOOSE w \in request[r].wrote : w.key = k
  <2>1. v \in request[r].wrote /\ v.key = k
    BY <1>2 DEF Own
  <2>2. Seen(r, k) = v.row
    BY <1>2 DEF Seen
  <2> HIDE DEF v
  <2>3. \A w \in request[r].wrote : w.key = k => w = v
    BY <2>1 DEF MetricsInv, RowsInOrder
  <2> QED BY <1>1, <2>1, <2>2, <2>3 DEF MetricsInv
<1>3. CASE k \notin Own(r)
  <2>1. Seen(r, k) = metric[k] /\ \A w \in request[r].wrote : w.key # k
    BY <1>3 DEF Seen, Own
  <2> QED BY <2>1 DEF MetricsInv, OwnOrCommitted
<1> QED BY <1>2, <1>3

\* A step of one transaction that writes nothing to the table.
LEMMA RequestKeeps ==
  ASSUME MetricsInv, NEW r \in Requests, ~Committed(r), NEW x \in RequestRow, RowsInOrder(r, x),
         \A w \in x.wrote : OwnOrCommitted(r, w.row),
         x.state = "done" => request[r].wrote = {},
         request' = [request EXCEPT ![r] = x], metric' = metric
  PROVE  MetricsInv' /\ \A q \in Requests : WholeOrNot(q)
<1>1. /\ request' \in [Requests -> RequestRow]
      /\ request'[r] = x /\ \A q \in Requests \ {r} : request'[q] = request[q]
  BY DEF MetricsInv
<1>2. \A q \in Requests : Committed(q) => request'[q].state = "done"
  BY <1>1 DEF Committed
<1>3. \A k \in MetricKeys : metric[k].of \subseteq [by : Requests, row : Nat]
  BY DEF MetricsInv, Cell
<1>4. \A k \in MetricKeys : \A f \in metric'[k].of : request'[f.by].state = "done"
  BY <1>2, <1>3 DEF MetricsInv
<1>5. ASSUME NEW q \in Requests
      PROVE  /\ RowsInOrder(q, request'[q])
             /\ \A w \in request'[q].wrote : \A f \in w.row.of : f.by = q \/ request'[f.by].state = "done"
  <2>1. RowsInOrder(q, request'[q]) /\ \A w \in request'[q].wrote : OwnOrCommitted(q, w.row)
    BY <1>1 DEF MetricsInv
  <2>2. \A w \in request'[q].wrote : w.row.of \subseteq [by : Requests, row : Nat]
    BY <1>1 DEF RequestRow, Cell
  <2> QED BY <1>2, <2>1, <2>2 DEF OwnOrCommitted
<1>6. MetricsInv'
  <2>1. \A q \in Requests : RowsInOrder(q, request[q])'
    BY <1>5 DEF RowsInOrder, EntersRow
  <2> QED BY <1>1, <1>4, <1>5, <2>1 DEF MetricsInv, Committed, OwnOrCommitted
<1>7. ASSUME NEW q \in Requests PROVE WholeOrNot(q)
  <2>1. request'[q].state # "done" => \A k \in MetricKeys : {f \in metric'[k].of : f.by = q} = {}
    BY <1>4
  <2>2. ~(request[q].state = "open" /\ request'[q].state = "done" /\ request[q].wrote # {})
    BY <1>1
  <2> QED BY <2>1, <2>2 DEF WholeOrNot
<1> QED BY <1>6, <1>7

LEMMA IdleIsRow ==
  Idle \in RequestRow /\ Idle.wrote = {} /\ Idle.state = "idle" /\ Idle.at = 1 /\ Idle.key = <<>>
BY DEF Idle, RequestRow

LEMMA BeginKeeps ==
  ASSUME MetricsInv, NEW r \in Requests, NEW op \in {"upsert", "import", "edit", "remove"},
         NEW file \in MetricFiles, Begin(r, op, file)
  PROVE  MetricsInv' /\ \A q \in Requests : WholeOrNot(q)
<1> DEFINE x == [Idle EXCEPT !.op = op, !.state = "open", !.file = file]
<1>1. /\ request' = [request EXCEPT ![r] = x] /\ metric' = metric
      /\ request[r] = Idle /\ (op # "import" => Len(file) = 1)
  BY DEF Begin
<1>2. file \in Seq(MetricRow)
  BY DailyMetricsAssumption
<1>3. Idle \in RequestRow /\ Idle.wrote = {} /\ Idle.at = 1 /\ Idle.key = <<>>
  BY IdleIsRow
<1>4. x \in RequestRow /\ x.wrote = {} /\ x.at = 1 /\ x.key = <<>> /\ x.state = "open"
      /\ x.op = op /\ x.file = file
  BY <1>2, <1>3 DEF RequestRow
<1> HIDE DEF x
<1>5. RowsInOrder(r, x)
  BY <1>1, <1>4 DEF RowsInOrder
<1>6. ~Committed(r)
  BY <1>1, IdleIsRow DEF Committed
<1> QED BY <1>1, <1>4, <1>5, <1>6, RequestKeeps

\* A row that was read: its key is what its line of the file says.
LEMMA ReadingKeeps ==
  ASSUME MetricsInv, NEW r \in Requests, request[r].state = "open", request[r].key = <<>>,
         request[r].at <= Len(request[r].file),
         NEW k \in MetricKeys, NEW read \in SUBSET Cell,
         NEW made \in SUBSET [campaign : Campaigns, name : SUBSET CampaignNames],
         request[r].op \in {"upsert", "import"} =>
           k[1] = Current(r).date /\ k[3] = Current(r).place,
         request' = [request EXCEPT ![r].key = k, ![r].read = read, ![r].made = made],
         metric' = metric
  PROVE  MetricsInv' /\ \A q \in Requests : WholeOrNot(q)
<1> DEFINE x == [request[r] EXCEPT !.key = k, !.read = read, !.made = made]
<1>1. request' = [request EXCEPT ![r] = x]
  OBVIOUS
<1>2. request[r] \in RequestRow
  BY DEF MetricsInv
<1>3. /\ x \in RequestRow /\ x.wrote = request[r].wrote /\ x.at = request[r].at /\ x.key = k
      /\ x.state = "open" /\ x.op = request[r].op /\ x.file = request[r].file
  BY <1>2 DEF RequestRow
<1> HIDE DEF x
<1>4. RowsInOrder(r, x)
  BY <1>3 DEF MetricsInv, RowsInOrder, EntersRow, Current
<1>5. ~Committed(r)
  BY DEF Committed
<1> QED BY <1>1, <1>3, <1>4, <1>5, RequestKeeps DEF MetricsInv

LEMMA ReadRowKeeps ==
  ASSUME MetricsInv, NEW r \in Requests, ReadRow(r)
  PROVE  MetricsInv' /\ \A q \in Requests : WholeOrNot(q)
<1>1. /\ request[r].state = "open" /\ request[r].key = <<>> /\ request[r].at <= Len(request[r].file)
      /\ metric' = metric
  BY DEF ReadRow
<1>2. request[r] \in RequestRow
  BY DEF MetricsInv
<1>3. Current(r) \in MetricRow
  BY <1>1, <1>2 DEF Current, RequestRow
<1> DEFINE key(c) == <<Current(r).date, c, Current(r).place>>
           ChosenBy(c, made) ==
             request' = [request EXCEPT ![r].key = key(c), ![r].read = {Seen(r, key(c))} \ {Absent},
                                        ![r].made = @ \cup made]
<1>4. \/ ChosenBy(NoCampaign, {})
      \/ \E c \in Current(r).id : ChosenBy(c, {})
      \/ \E c \in CampaignOf(r, Current(r).name) : ChosenBy(c, {})
      \/ \E c \in Campaigns : ChosenBy(c, {[campaign |-> c, name |-> Current(r).name]})
  BY Zenon DEF ReadRow
<1>5. \A c \in CampaignOf(r, Current(r).name) : c \in Campaigns
  BY <1>2 DEF CampaignOf, RequestRow
<1>6. PICK c \in Campaigns \cup {NoCampaign},
           made \in SUBSET [campaign : Campaigns, name : SUBSET CampaignNames] : ChosenBy(c, made)
  <2>1. Current(r).id \subseteq Campaigns /\ Current(r).name \in SUBSET CampaignNames
    BY <1>3 DEF MetricRow
  <2>2. \A c \in Campaigns : {[campaign |-> c, name |-> Current(r).name]}
                               \in SUBSET [campaign : Campaigns, name : SUBSET CampaignNames]
    BY <2>1
  <2>3. {} \in SUBSET [campaign : Campaigns, name : SUBSET CampaignNames]
    OBVIOUS
  <2> HIDE DEF ChosenBy
  <2> QED BY <1>4, <1>5, <2>1, <2>2, <2>3
<1>7. key(c) \in MetricKeys
  BY <1>3 DEF MetricKeys, MetricRow
<1>8. {Seen(r, key(c))} \ {Absent} \in SUBSET Cell
  BY <1>7, SeenIsCell
<1>9. request[r].made \cup made \in SUBSET [campaign : Campaigns, name : SUBSET CampaignNames]
  BY <1>2 DEF RequestRow
<1>10. request' = [request EXCEPT ![r].key = key(c), ![r].read = {Seen(r, key(c))} \ {Absent},
                                  ![r].made = request[r].made \cup made]
  BY <1>6
<1>11. key(c)[1] = Current(r).date /\ key(c)[3] = Current(r).place
  OBVIOUS
<1> HIDE DEF key, ChosenBy
<1> QED BY <1>1, <1>7, <1>8, <1>9, <1>10, <1>11, ReadingKeeps

LEMMA ReadMetricKeeps ==
  ASSUME MetricsInv, NEW r \in Requests, NEW k \in MetricKeys, ReadMetric(r, k)
  PROVE  MetricsInv' /\ \A q \in Requests : WholeOrNot(q)
<1>1. /\ request[r].state = "open" /\ request[r].key = <<>> /\ request[r].at = 1
      /\ request[r].op \in {"edit", "remove"} /\ metric' = metric
      /\ request' = [request EXCEPT ![r].key = k, ![r].read = {metric[k]}]
  BY DEF ReadMetric
<1> DEFINE x == [request[r] EXCEPT !.key = k, !.read = {metric[k]}]
<1>2. request' = [request EXCEPT ![r] = x]
  BY <1>1
<1>3. request[r] \in RequestRow /\ {metric[k]} \in SUBSET Cell
  BY DEF MetricsInv
<1>4. /\ x \in RequestRow /\ x.wrote = request[r].wrote /\ x.at = request[r].at /\ x.key = k
      /\ x.state = "open" /\ x.op = request[r].op /\ x.file = request[r].file
  BY <1>1, <1>3 DEF RequestRow
<1> HIDE DEF x
<1>5. RowsInOrder(r, x)
  BY <1>1, <1>4 DEF MetricsInv, RowsInOrder
<1>6. ~Committed(r)
  BY <1>1 DEF Committed
<1> QED BY <1>1, <1>2, <1>4, <1>5, <1>6, RequestKeeps DEF MetricsInv

\* A transaction that ends without having committed.
LEMMA UndoneKeeps ==
  ASSUME MetricsInv, NEW r \in Requests, request[r].state = "open", NEW x \in RequestRow,
         x.state # "open", x.wrote \subseteq request[r].wrote, x.at = request[r].at,
         x.state = "done" => request[r].wrote = {},
         request' = [request EXCEPT ![r] = x], metric' = metric
  PROVE  MetricsInv' /\ \A q \in Requests : WholeOrNot(q)
<1>1. RowsInOrder(r, x) /\ \A w \in x.wrote : OwnOrCommitted(r, w.row)
  BY DEF MetricsInv, RowsInOrder
<1>2. ~Committed(r)
  BY DEF Committed
<1> QED BY <1>1, <1>2, RequestKeeps

LEMMA RefusedKeeps ==
  ASSUME MetricsInv, NEW r \in Requests, Refused(r)
  PROVE  MetricsInv' /\ \A q \in Requests : WholeOrNot(q)
<1> DEFINE x == [request[r] EXCEPT !.state = "failed"]
<1>1. request[r].state = "open" /\ metric' = metric /\ request' = [request EXCEPT ![r] = x]
  BY DEF Refused
<1>2. request[r] \in RequestRow
  BY DEF MetricsInv
<1>3. x \in RequestRow /\ x.state = "failed" /\ x.wrote = request[r].wrote /\ x.at = request[r].at
  BY <1>2 DEF RequestRow
<1> HIDE DEF x
<1> QED BY <1>1, <1>3, UndoneKeeps

LEMMA AbortKeeps ==
  ASSUME MetricsInv, NEW r \in Requests, Abort(r)
  PROVE  MetricsInv' /\ \A q \in Requests : WholeOrNot(q)
<1> DEFINE x == [request[r] EXCEPT !.state = "failed", !.wrote = {}, !.made = {}, !.key = <<>>]
<1>1. request[r].state = "open" /\ metric' = metric /\ request' = [request EXCEPT ![r] = x]
  BY DEF Abort
<1>2. request[r] \in RequestRow
  BY DEF MetricsInv
<1>3. x \in RequestRow /\ x.state = "failed" /\ x.wrote = {} /\ x.at = request[r].at
  BY <1>2 DEF RequestRow
<1> HIDE DEF x
<1> QED BY <1>1, <1>3, UndoneKeeps

LEMMA KeyTakenKeeps ==
  ASSUME MetricsInv, NEW r \in Requests, KeyTaken(r)
  PROVE  MetricsInv' /\ \A q \in Requests : WholeOrNot(q)
<1> DEFINE k == <<Current(r).date, IF Current(r).id = {} THEN NoCampaign ELSE request[r].key[2],
                  Current(r).place>>
           told == IF request[r].op = "upsert" THEN {metric[k]} \ {Absent} ELSE {}
           state == IF told = {} THEN "failed" ELSE "done"
           x == [request[r] EXCEPT !.state = state, !.told = told, !.wrote = {}, !.made = {},
                                   !.key = <<>>]
<1>1. /\ request[r].state = "open" /\ request[r].key # <<>> /\ metric' = metric
      /\ request' = [request EXCEPT ![r] = x]
  BY DEF KeyTaken
<1>2. /\ request[r] \in RequestRow /\ request[r].at \in Nat \ {0}
      /\ request[r].at <= Len(request[r].file)
  BY <1>1 DEF MetricsInv, RowsInOrder, RequestRow
<1>3. Current(r) \in MetricRow /\ request[r].key \in MetricKeys
  <2>1. request[r].file \in Seq(MetricRow) /\ request[r].key \in MetricKeys
    BY <1>1, <1>2 DEF RequestRow
  <2>2. request[r].at \in 1 .. Len(request[r].file)
    BY <1>2, <2>1
  <2> QED BY <2>1, <2>2 DEF Current
<1>4. k \in MetricKeys
  BY <1>3 DEF MetricKeys, MetricRow
<1>5. told \in SUBSET Cell /\ state \in {"failed", "done"}
  BY <1>4 DEF MetricsInv
<1>6. state = "done" => request[r].op = "upsert"
  OBVIOUS
<1>7. request[r].op = "upsert" => request[r].wrote = {}
  BY <1>1, <1>2 DEF MetricsInv, RowsInOrder
<1> HIDE DEF k, told, state
<1>8. x \in RequestRow /\ x.state = state /\ x.wrote = {} /\ x.at = request[r].at
  BY <1>2, <1>5 DEF RequestRow
<1> HIDE DEF x
<1> QED BY <1>1, <1>5, <1>6, <1>7, <1>8, UndoneKeeps

LEMMA WriteKeeps ==
  ASSUME MetricsInv, NEW r \in Requests, Write(r)
  PROVE  MetricsInv' /\ \A q \in Requests : WholeOrNot(q)
<1> DEFINE old == request[r]
           next == old.at + 1
           x == [old EXCEPT !.wrote = Written(r), !.key = <<>>, !.at = next]
           new == [key |-> old.key, row |-> NewRow(r)]
<1>1. /\ old.state = "open" /\ old.key # <<>> /\ metric' = metric
      /\ request' = [request EXCEPT ![r] = x]
  BY DEF Write
<1>2. old \in RequestRow /\ RowsInOrder(r, old) /\ \A w \in old.wrote : OwnOrCommitted(r, w.row)
  BY DEF MetricsInv
<1>3. old.key \in MetricKeys /\ old.at \in Nat \ {0} /\ old.at <= Len(old.file)
      /\ old.wrote \subseteq [key : MetricKeys, row : Cell]
  BY <1>1, <1>2 DEF RequestRow, RowsInOrder
<1>4. /\ NewRow(r) \in Cell /\ OwnOrCommitted(r, NewRow(r))
      /\ old.op # "remove" => NewRow(r).of = {[by |-> r, row |-> old.at]}
  <2> DEFINE seen == Seen(r, old.key)
             of == IF old.op = "remove" THEN seen.of ELSE {[by |-> r, row |-> old.at]}
             gone == seen.gone \/ old.op = "remove"
  <2>1. NewRow(r) = [of |-> of, gone |-> gone]
    BY DEF NewRow
  <2>2. seen \in Cell /\ OwnOrCommitted(r, seen)
    BY <1>3, SeenIsCell
  <2>3. of \in SUBSET [by : Requests, row : Nat] /\ \A f \in of : f.by = r \/ Committed(f.by)
    BY <1>3, <2>2 DEF Cell, OwnOrCommitted
  <2>4. gone \in BOOLEAN
    OBVIOUS
  <2>5. old.op # "remove" => of = {[by |-> r, row |-> old.at]}
    OBVIOUS
  <2> HIDE DEF of, gone
  <2> QED BY <2>1, <2>3, <2>4, <2>5 DEF Cell, OwnOrCommitted
<1>5. Written(r) = {w \in old.wrote : w.key # old.key} \cup {new}
  BY DEF Written
<1>6. new \in [key : MetricKeys, row : Cell] /\ new.key = old.key /\ new.row = NewRow(r)
  BY <1>3, <1>4
<1> HIDE DEF new
<1>7. Written(r) \in SUBSET [key : MetricKeys, row : Cell]
  BY <1>3, <1>5, <1>6
<1>8. /\ x \in RequestRow /\ x.wrote = Written(r) /\ x.key = <<>> /\ x.at = old.at + 1
      /\ x.state = "open" /\ x.op = old.op /\ x.file = old.file
  <2>1. next \in Nat \ {0} /\ next = old.at + 1
    BY <1>3
  <2> HIDE DEF next, old
  <2> QED BY <1>1, <1>2, <1>7, <2>1 DEF RequestRow
<1> HIDE DEF x
<1>9. \A w \in x.wrote : OwnOrCommitted(r, w.row)
  BY <1>2, <1>4, <1>5, <1>6, <1>8
<1>10. \A v, w \in x.wrote : v.key = w.key => v = w
  BY <1>2, <1>5, <1>6, <1>8 DEF RowsInOrder
<1>11. ASSUME old.op \in {"upsert", "import"}, NEW i \in 1 .. Len(old.file), i < old.at + 1
       PROVE  EntersRow(r, x, i)
  <2>1. old.key[1] = old.file[old.at].date /\ old.key[3] = old.file[old.at].place
    BY <1>1, <1>2, <1>11 DEF RowsInOrder
  <2>2. new.row.of = {[by |-> r, row |-> old.at]} /\ new \in x.wrote
    BY <1>4, <1>5, <1>6, <1>8, <1>11
  <2>3. \A d, p : new.key[1] = d /\ new.key[3] = p =>
           \E w \in x.wrote : /\ w.key[1] = d /\ w.key[3] = p
                              /\ \E f \in w.row.of : f.by = r /\ f.row >= i
    <3>1. [by |-> r, row |-> old.at].by = r /\ [by |-> r, row |-> old.at].row >= i
      BY <1>3, <1>11
    <3> QED BY <2>2, <3>1
  <2>4. CASE i = old.at
    BY <1>6, <1>8, <2>1, <2>3, <2>4 DEF EntersRow
  <2>5. CASE i < old.at
    <3>1. EntersRow(r, old, i)
      BY <1>1, <1>2, <1>11, <2>5 DEF RowsInOrder
    <3>2. PICK w \in old.wrote : /\ w.key[1] = old.file[i].date /\ w.key[3] = old.file[i].place
                                 /\ \E f \in w.row.of : f.by = r /\ f.row >= i
      BY <3>1 DEF EntersRow
    <3>3. CASE w.key = old.key
      BY <1>6, <1>8, <2>3, <3>2, <3>3 DEF EntersRow
    <3>4. CASE w.key # old.key
      <4>1. w \in x.wrote
        BY <1>5, <1>8, <3>4
      <4> QED BY <1>8, <3>2, <4>1 DEF EntersRow
    <3> QED BY <3>3, <3>4
  <2> QED BY <1>3, <1>11, <2>4, <2>5
<1>12. RowsInOrder(r, x)
  <2>1. x.at # 1
    BY <1>3, <1>8
  <2>2. x.op # "import" => Len(x.file) = 1
    BY <1>1, <1>2, <1>8 DEF RowsInOrder
  <2> QED BY <1>8, <1>10, <1>11, <2>1, <2>2 DEF RowsInOrder
<1>13. ~Committed(r)
  BY <1>1 DEF Committed
<1> QED BY <1>1, <1>8, <1>9, <1>12, <1>13, RequestKeeps

LEMMA CommitKeeps ==
  ASSUME MetricsInv, NEW r \in Requests, Commit(r)
  PROVE  MetricsInv' /\ \A q \in Requests : WholeOrNot(q)
<1> DEFINE told == {w.row : w \in request[r].wrote}
           x == [request[r] EXCEPT !.state = "done", !.wrote = {}, !.made = {}, !.told = told]
<1>1. /\ request[r].state = "open" /\ request[r].at > Len(request[r].file)
      /\ metric' = [k \in MetricKeys |-> Seen(r, k)]
      /\ request' = [request EXCEPT ![r] = x]
  BY DEF Commit
<1>2. request[r] \in RequestRow /\ request[r].wrote \subseteq [key : MetricKeys, row : Cell]
  BY DEF MetricsInv, RequestRow
<1>3. told \in SUBSET Cell
  BY <1>2
<1> HIDE DEF told
<1>4. /\ x \in RequestRow /\ x.state = "done" /\ x.wrote = {}
  BY <1>2, <1>3 DEF RequestRow
<1> HIDE DEF x
<1>5. /\ request' \in [Requests -> RequestRow]
      /\ request'[r] = x /\ \A q \in Requests \ {r} : request'[q] = request[q]
  BY <1>1, <1>4 DEF MetricsInv
<1>6. \A q \in Requests : (Committed(q) \/ q = r) => request'[q].state = "done"
  BY <1>4, <1>5 DEF Committed
<1>7. /\ metric' \in [MetricKeys -> Cell]
      /\ \A k \in MetricKeys : metric'[k] = Seen(r, k)
  BY <1>1, SeenIsCell
<1>8. \A k \in MetricKeys : \A f \in metric'[k].of : f.by \in Requests /\ request'[f.by].state = "done"
  <2> SUFFICES ASSUME NEW k \in MetricKeys, NEW f \in metric'[k].of
               PROVE  f.by \in Requests /\ request'[f.by].state = "done"
    OBVIOUS
  <2>1. f \in Seen(r, k).of /\ Seen(r, k) \in Cell /\ OwnOrCommitted(r, Seen(r, k))
    BY <1>7, SeenIsCell
  <2>2. f.by \in Requests
    BY <2>1 DEF Cell
  <2> QED BY <1>6, <2>1, <2>2 DEF OwnOrCommitted
<1>9. ASSUME NEW q \in Requests
      PROVE  /\ RowsInOrder(q, request'[q])
             /\ \A w \in request'[q].wrote : \A f \in w.row.of : f.by = q \/ request'[f.by].state = "done"
  <2>1. CASE q = r
    BY <1>4, <1>5, <2>1 DEF RowsInOrder
  <2>2. CASE q # r
    <3>1. RowsInOrder(q, request[q]) /\ \A w \in request[q].wrote : OwnOrCommitted(q, w.row)
      BY DEF MetricsInv
    <3>2. \A w \in request[q].wrote : w.row.of \subseteq [by : Requests, row : Nat]
      BY DEF MetricsInv, RequestRow, Cell
    <3> QED BY <1>5, <1>6, <2>2, <3>1, <3>2 DEF OwnOrCommitted
  <2> QED BY <2>1, <2>2
<1>10. MetricsInv'
  <2>1. \A q \in Requests : RowsInOrder(q, request[q])'
    BY <1>9 DEF RowsInOrder, EntersRow
  <2> QED BY <1>5, <1>7, <1>8, <1>9, <2>1 DEF MetricsInv, Committed, OwnOrCommitted
<1>11. ASSUME NEW q \in Requests PROVE WholeOrNot(q)
  <2>1. request'[q].state # "done" => \A k \in MetricKeys : {f \in metric'[k].of : f.by = q} = {}
    BY <1>8
  <2>2. ASSUME request[q].state = "open", request'[q].state = "done",
               request[q].op \in {"upsert", "import"}, NEW i \in DOMAIN request[q].file
        PROVE  \E k \in MetricKeys : \E f \in {g \in metric'[k].of : g.by = q} :
                 /\ f.row >= i
                 /\ k[1] = request[q].file[i].date /\ k[3] = request[q].file[i].place
    <3>1. q = r
      BY <1>5, <2>2
    <3>2. i \in 1 .. Len(request[r].file) /\ i < request[r].at
      BY <1>1, <1>2, <2>2, <3>1 DEF RequestRow
    <3>3. EntersRow(r, request[r], i)
      BY <1>1, <2>2, <3>1, <3>2 DEF MetricsInv, RowsInOrder
    <3>4. PICK w \in request[r].wrote :
            /\ w.key[1] = request[r].file[i].date /\ w.key[3] = request[r].file[i].place
            /\ \E f \in w.row.of : f.by = r /\ f.row >= i
      BY <3>3 DEF EntersRow
    <3>5. w.key \in MetricKeys /\ metric'[w.key] = w.row
      BY <1>2, <1>7, SeenIsCell
    <3> QED BY <3>1, <3>4, <3>5
  <2> QED BY <2>1, <2>2 DEF WholeOrNot
<1> QED BY <1>10, <1>11

LEMMA MetricsStep ==
  ASSUME MetricsInv, [DailyMetricsNext]_metricVars
  PROVE  MetricsInv' /\ \A q \in Requests : WholeOrNot(q)
<1>1. ASSUME metric' = metric, request' = request
      PROVE  MetricsInv' /\ \A q \in Requests : WholeOrNot(q)
  BY <1>1 DEF MetricsInv, Committed, OwnOrCommitted, RowsInOrder, EntersRow, WholeOrNot
<1> QED
  BY <1>1, BeginKeeps, ReadRowKeeps, RefusedKeeps, ReadMetricKeeps, WriteKeeps, KeyTakenKeeps,
     CommitKeeps, AbortKeeps DEF DailyMetricsNext, ArchiveCampaign, metricVars

\* A file of metrics is in the table as a whole or not at all, whatever other requests
\* write, edit, remove or take the keys of, for any number of them and any files
\* (importDailyMetrics, upsertDailyMetric).
THEOREM FilesAreWhole == DailyMetricsSpec => ImportWhole
<1>1. DailyMetricsInit => MetricsInv
  <2> SUFFICES ASSUME DailyMetricsInit PROVE MetricsInv
    OBVIOUS
  <2>1. Idle \in RequestRow /\ Idle.wrote = {} /\ Idle.state = "idle" /\ Idle.at = 1
    BY IdleIsRow
  <2>2. Absent \in Cell /\ Absent.of = {}
    BY DEF Absent, Cell
  <2>3. metric \in [MetricKeys -> Cell] /\ \A k \in MetricKeys : metric[k].of = {}
    BY <2>2 DEF DailyMetricsInit
  <2>4. request \in [Requests -> RequestRow] /\ \A r \in Requests : request[r] = Idle
    BY <2>1 DEF DailyMetricsInit
  <2>5. \A r \in Requests : RowsInOrder(r, request[r])
    BY <2>1, <2>4 DEF RowsInOrder
  <2> QED BY <2>1, <2>3, <2>4, <2>5 DEF MetricsInv
<1>2. MetricsInv /\ [DailyMetricsNext]_metricVars => MetricsInv'
  BY MetricsStep
<1>3. MetricsInv /\ [DailyMetricsNext]_metricVars =>
        [\A r \in Requests :
           LET of(k) == {f \in metric'[k].of : f.by = r}
           IN /\ request'[r].state # "done" => \A k \in MetricKeys : of(k) = {}
              /\ (request[r].state = "open" /\ request'[r].state = "done" /\ request[r].wrote # {}
                    /\ request[r].op \in {"upsert", "import"}) =>
                   \A i \in DOMAIN request[r].file :
                     \E k \in MetricKeys : \E f \in of(k) :
                       /\ f.row >= i
                       /\ k[1] = request[r].file[i].date /\ k[3] = request[r].file[i].place]_metricVars
  BY MetricsStep DEF WholeOrNot
<1> QED BY <1>1, <1>2, <1>3, PTL DEF DailyMetricsSpec, ImportWhole

----------------------------------------------------------------------------
(* The board.                                                              *)

Interest == [class : Classes \cup {Nothing}, good : Goods \cup {Nothing}]
Currencies == {"local", "USD", Nothing}
Money == [amount : BOOLEAN, coin : Currencies]
CardRow == [stage : Columns \cup {Nothing}, archived : BOOLEAN, owner : Users \cup {Nothing},
            good : Goods \cup {Nothing}, class : Classes \cup {Nothing},
            amount : BOOLEAN, coin : Currencies]
TrailRow == [by : Users, from : Users \cup {Nothing}, to : Users \cup {Nothing}]

\* What a card shows of itself and of the rows beside it.
ToldOf(row, log, asked) ==
  /\ row.amount <=> row.coin # Nothing
  /\ log # <<>> => row.owner = log[Len(log)].to
  /\ \A i \in DOMAIN log : log[i].by \in Hands => log[i].to = log[i].by /\ log[i].from = Nothing
  /\ \A i \in DOMAIN asked : resolveInterest(asked[i].class, asked[i].good) = {asked[i]}

\* A row that was read is of a card that is there, and a card has activities only from
\* then on.
BoardInv ==
  /\ card \in [Cards -> CardRow] /\ columns \subseteq Columns
  /\ trail \in [Cards -> Seq(TrailRow)] /\ interests \in [Cards -> Seq(Interest)]
  /\ edit \in [Users -> [card : Cards \cup {0}, was : CardRow]]
  /\ \A u \in Users : edit[u] # NoEdit => edit[u].card \in Cards /\ OnBoard(edit[u].card)
  /\ \A o \in Cards : ~OnBoard(o) => trail[o] = <<>>
  /\ \A o \in Cards : ToldOf(card[o], trail[o], interests[o])

LEMMA NoCardIsRow == NoCard \in CardRow
  BY DEF NoCard, CardRow, Currencies

LEMMA InterestResolved ==
  ASSUME NEW class \in Classes \cup {Nothing}, NEW good \in Goods \cup {Nothing},
         NEW i \in resolveInterest(class, good)
  PROVE  i \in Interest /\ resolveInterest(i.class, i.good) = {i}
<1> DEFINE own == IF good = Nothing THEN Nothing ELSE ClassOf[good]
<1>1. own \in Classes \cup {Nothing}
  BY PipelineBoardAssumption DEF PipelineBoardAssumption
<1>2. ~(class # Nothing /\ own # Nothing /\ class # own)
  BY DEF resolveInterest
<1>3. i = [class |-> IF class = Nothing THEN own ELSE class, good |-> good]
  BY <1>2 DEF resolveInterest
<1>4. i.good = good /\ i.class = (IF class = Nothing THEN own ELSE class) /\ i = [class |-> i.class, good |-> good]
  BY <1>3
<1>5. i \in Interest
  BY <1>1, <1>3 DEF Interest
<1>6. resolveInterest(i.class, i.good) = {i}
  BY <1>2, <1>4 DEF resolveInterest
<1> QED BY <1>5, <1>6

LEMMA MoneyNormal ==
  ASSUME NEW amount \in BOOLEAN, NEW coin \in Currencies, NEW m \in normalizeMoney(amount, coin)
  PROVE  m \in Money /\ (m.amount <=> m.coin # Nothing)
<1>1. CASE ~amount
  <2>1. m = [amount |-> FALSE, coin |-> Nothing]
    BY <1>1 DEF normalizeMoney
  <2>2. m.amount = FALSE /\ m.coin = Nothing
    BY <2>1
  <2>3. m \in Money
    BY <2>1 DEF Money, Currencies
  <2> QED BY <2>2, <2>3
<1>2. CASE amount
  <2>1. m = [amount |-> TRUE, coin |-> coin] /\ coin # Nothing
    BY <1>2 DEF normalizeMoney
  <2>2. m.amount = TRUE /\ m.coin = coin
    BY <2>1
  <2>3. m \in Money
    BY <2>1 DEF Money
  <2> QED BY <2>1, <2>2, <2>3
<1> QED BY <1>1, <1>2

\* What an update writes over a card: the interest as far as it was asked for, and the money.
LEMMA CardWritten ==
  ASSUME NEW i \in Interest, NEW m \in Money, NEW row \in CardRow, NEW wrote \in SUBSET {"class", "good"}
  PROVE  LET new == Over([f \in wrote |-> i[f]], Over(m, row))
         IN new \in CardRow /\ new.stage = row.stage /\ new.owner = row.owner
            /\ new.amount = m.amount /\ new.coin = m.coin
<1> DEFINE Fields == {"stage", "archived", "owner", "good", "class", "amount", "coin"}
           paid == Over(m, row)
           new == Over([f \in wrote |-> i[f]], paid)
<1>1. DOMAIN m = {"amount", "coin"} /\ m.amount \in BOOLEAN /\ m.coin \in Currencies
  BY DEF Money
<1>2. /\ DOMAIN row = Fields
      /\ row.stage \in Columns \cup {Nothing} /\ row.archived \in BOOLEAN /\ row.owner \in Users \cup {Nothing}
      /\ row.good \in Goods \cup {Nothing} /\ row.class \in Classes \cup {Nothing}
  BY DEF CardRow
<1>3. i.class \in Classes \cup {Nothing} /\ i.good \in Goods \cup {Nothing}
  BY DEF Interest
<1>4. paid = [x \in Fields |-> IF x \in {"amount", "coin"} THEN m[x] ELSE row[x]]
  BY <1>1, <1>2 DEF Over
<1>5. new = [x \in Fields |-> IF x \in wrote THEN i[x] ELSE paid[x]]
  BY <1>4 DEF Over
<1>6. /\ new.stage = row.stage /\ new.archived = row.archived /\ new.owner = row.owner
      /\ new.amount = m.amount /\ new.coin = m.coin
      /\ new.class \in {i.class, row.class} /\ new.good \in {i.good, row.good}
  BY <1>4, <1>5
<1>7. new = [stage |-> new.stage, archived |-> new.archived, owner |-> new.owner, good |-> new.good,
             class |-> new.class, amount |-> new.amount, coin |-> new.coin]
  BY <1>5
<1> HIDE DEF new
<1>8. new \in CardRow
  <2>1. new.class \in Classes \cup {Nothing} /\ new.good \in Goods \cup {Nothing}
    BY <1>2, <1>3, <1>6
  <2>2. new.archived \in BOOLEAN /\ new.amount \in BOOLEAN
    BY <1>1, <1>2, <1>6
  <2>3. new.stage \in Columns \cup {Nothing} /\ new.owner \in Users \cup {Nothing} /\ new.coin \in Currencies
    BY <1>1, <1>2, <1>6
  <2> QED BY <1>7, <2>1, <2>2, <2>3 DEF CardRow
<1> QED BY <1>6, <1>8 DEF new

\* What a request asks for over what it read.
LEMMA WantTyped ==
  ASSUME NEW was \in CardRow, NEW class \in Classes \cup {Nothing}, NEW good \in Goods \cup {Nothing},
         NEW amount \in BOOLEAN, NEW coin \in Currencies, NEW fields \in SUBSET {"class", "good", "amount", "coin"},
         NEW asked, asked = AskedOf(fields, class, good, amount, coin), NEW want, want = Over(asked, was)
  PROVE  /\ DOMAIN asked = fields
         /\ want.class \in Classes \cup {Nothing} /\ want.good \in Goods \cup {Nothing}
         /\ want.amount \in BOOLEAN /\ want.coin \in Currencies
<1> DEFINE Fields == {"stage", "archived", "owner", "good", "class", "amount", "coin"}
           all == [class |-> class, good |-> good, amount |-> amount, coin |-> coin]
<1>1. asked = [f \in fields |-> all[f]]
  BY DEF AskedOf
<1>2. DOMAIN was = Fields
  BY DEF CardRow
<1>3. /\ was.class \in Classes \cup {Nothing} /\ was.good \in Goods \cup {Nothing}
      /\ was.amount \in BOOLEAN /\ was.coin \in Currencies
  BY DEF CardRow
<1>4. want = [x \in Fields |-> IF x \in fields THEN asked[x] ELSE was[x]]
  BY <1>1, <1>2 DEF Over
<1>5. /\ want.class = (IF "class" \in fields THEN class ELSE was.class)
      /\ want.good = (IF "good" \in fields THEN good ELSE was.good)
      /\ want.amount = (IF "amount" \in fields THEN amount ELSE was.amount)
      /\ want.coin = (IF "coin" \in fields THEN coin ELSE was.coin)
  BY <1>1, <1>4
<1>8. DOMAIN asked = fields
  BY <1>1
<1> HIDE DEF all
<1>6. want.amount \in BOOLEAN
  BY <1>3, <1>5
<1>7. want.class \in Classes \cup {Nothing} /\ want.good \in Goods \cup {Nothing} /\ want.coin \in Currencies
  BY <1>3, <1>5
<1> QED BY <1>6, <1>7, <1>8

\* A step that writes one card, its activities or its interests as they should be.
LEMMA OneCardKeeps ==
  ASSUME BoardInv, NEW o \in Cards, NEW row \in CardRow, NEW log \in Seq(TrailRow), NEW asked \in Seq(Interest),
         ToldOf(row, log, asked), row.stage = Nothing => card[o].stage = Nothing /\ log = <<>>,
         card' = [card EXCEPT ![o] = row],
         trail' = [trail EXCEPT ![o] = log],
         interests' = [interests EXCEPT ![o] = asked],
         columns' = columns,
         \/ edit' = edit
         \/ \E u \in Users : edit' = [edit EXCEPT ![u] = NoEdit]
  PROVE  BoardInv'
<1>1. /\ card' \in [Cards -> CardRow] /\ columns' \subseteq Columns
      /\ trail' \in [Cards -> Seq(TrailRow)] /\ interests' \in [Cards -> Seq(Interest)]
  BY DEF BoardInv
<1>2. NoEdit \in [card : Cards \cup {0}, was : CardRow]
  BY NoCardIsRow DEF NoEdit
<1>3. edit' \in [Users -> [card : Cards \cup {0}, was : CardRow]]
  BY <1>2 DEF BoardInv
<1>4. \A p \in Cards : OnBoard(p) => OnBoard(p)'
  BY DEF BoardInv, OnBoard
<1>5. \A u \in Users : edit'[u] # NoEdit => edit'[u].card \in Cards /\ OnBoard(edit[u].card) /\ edit'[u] = edit[u]
  BY DEF BoardInv
<1>6. \A u \in Users : edit'[u] # NoEdit => edit'[u].card \in Cards /\ card'[edit'[u].card].stage # Nothing
  BY <1>4, <1>5 DEF OnBoard
<1>7. \A p \in Cards : card'[p].stage = Nothing => trail'[p] = <<>>
  BY DEF BoardInv, OnBoard
<1>8. \A p \in Cards : ToldOf(card'[p], trail'[p], interests'[p])
  BY DEF BoardInv
<1> QED BY <1>1, <1>3, <1>6, <1>7, <1>8 DEF BoardInv, OnBoard

\* A row that changes in nothing that is told of it.
LEMMA SameTold ==
  ASSUME BoardInv, NEW o \in Cards, NEW row \in CardRow,
         row.amount = card[o].amount, row.coin = card[o].coin, row.owner = card[o].owner
  PROVE  ToldOf(row, trail[o], interests[o])
  BY DEF BoardInv, ToldOf

LEMMA CreateKeeps ==
  ASSUME BoardInv, NEW u \in Users, NEW owner \in Users \cup {Nothing}, NEW s \in Columns,
         NEW class \in Classes \cup {Nothing}, NEW good \in Goods \cup {Nothing},
         CreateCard(u, owner, s, class, good)
  PROVE  BoardInv'
<1>1. PICK o \in Cards, i \in resolveInterest(class, good) :
        /\ ~OnBoard(o)
        /\ card' = [card EXCEPT ![o] = [NoCard EXCEPT !.stage = s, !.owner = owner, !.class = i.class, !.good = i.good]]
        /\ interests' = IF i = [class |-> Nothing, good |-> Nothing] THEN interests
                        ELSE [interests EXCEPT ![o] = <<i>>]
        /\ UNCHANGED <<columns, trail, edit>>
  BY DEF CreateCard, PutCards
<1> DEFINE row == [NoCard EXCEPT !.stage = s, !.owner = owner, !.class = i.class, !.good = i.good]
           asked == IF i = [class |-> Nothing, good |-> Nothing] THEN interests[o] ELSE <<i>>
<1>2. i \in Interest /\ resolveInterest(i.class, i.good) = {i}
  BY InterestResolved
<1>3. row \in CardRow /\ row.amount = FALSE /\ row.coin = Nothing /\ row.stage = s
  BY <1>2 DEF NoCard, CardRow, Interest, Currencies
<1>4. trail[o] = <<>> /\ trail[o] \in Seq(TrailRow)
  BY <1>1 DEF BoardInv
<1>5. asked \in Seq(Interest) /\ \A k \in DOMAIN asked : resolveInterest(asked[k].class, asked[k].good) = {asked[k]}
  <2>1. CASE i = [class |-> Nothing, good |-> Nothing]
    BY <2>1 DEF BoardInv, ToldOf
  <2>2. CASE i # [class |-> Nothing, good |-> Nothing]
    BY <1>2, <2>2
  <2> QED BY <2>1, <2>2
<1>6. ToldOf(row, trail[o], asked)
  BY <1>3, <1>4, <1>5 DEF ToldOf
<1>7. card' = [card EXCEPT ![o] = row] /\ trail' = [trail EXCEPT ![o] = trail[o]]
      /\ interests' = [interests EXCEPT ![o] = asked] /\ columns' = columns /\ edit' = edit
  BY <1>1 DEF BoardInv
<1>8. row.stage # Nothing
  BY <1>3, PipelineBoardAssumption DEF PipelineBoardAssumption
<1> HIDE DEF row, asked
<1> QED BY <1>3, <1>4, <1>5, <1>6, <1>7, <1>8, OneCardKeeps

LEMMA UpdateKeeps ==
  ASSUME BoardInv, NEW u \in Users, NEW class \in Classes \cup {Nothing}, NEW good \in Goods \cup {Nothing},
         NEW amount \in BOOLEAN, NEW coin \in Currencies, NEW fields \in SUBSET {"class", "good", "amount", "coin"},
         UpdateCard(u, AskedOf(fields, class, good, amount, coin))
  PROVE  BoardInv'
<1> DEFINE given == AskedOf(fields, class, good, amount, coin)
           o == edit[u].card
           was == edit[u].was
           want == Over(given, was)
           wrote == DOMAIN given \cap {"class", "good"}
<1>1. o \in Cards /\ OnBoard(o) /\ was \in CardRow /\ edit[u] # NoEdit
  BY DEF BoardInv, UpdateCard
<1>2. /\ DOMAIN given = fields
      /\ want.class \in Classes \cup {Nothing} /\ want.good \in Goods \cup {Nothing}
      /\ want.amount \in BOOLEAN /\ want.coin \in Currencies
  <2> HIDE DEF was, given, want
  <2>1. was \in CardRow /\ given = AskedOf(fields, class, good, amount, coin) /\ want = Over(given, was)
    BY <1>1 DEF given, want
  <2> QED BY <2>1, WantTyped
<1>3. PICK i \in resolveInterest(want.class, want.good), m \in normalizeMoney(want.amount, want.coin) :
        /\ card' = [card EXCEPT ![o] = Over([f \in wrote |-> i[f]], Over(m, card[o]))]
        /\ \/ interests' = interests
           \/ interests' = [interests EXCEPT ![o] = Append(interests[o], i)]
        /\ edit' = [edit EXCEPT ![u] = NoEdit]
        /\ UNCHANGED <<columns, trail>>
  BY <1>1 DEF UpdateCard, PutCards, BoardInv
<1>4. i \in Interest /\ resolveInterest(i.class, i.good) = {i} /\ m \in Money /\ (m.amount <=> m.coin # Nothing)
  <2> HIDE DEF want
  <2>1. i \in Interest /\ resolveInterest(i.class, i.good) = {i}
    BY <1>2, InterestResolved
  <2>2. m \in Money /\ (m.amount <=> m.coin # Nothing)
    BY <1>2, MoneyNormal
  <2> QED BY <2>1, <2>2
<1> DEFINE row == Over([f \in wrote |-> i[f]], Over(m, card[o]))
<1>5. wrote \in SUBSET {"class", "good"} /\ card[o] \in CardRow
  BY <1>1 DEF BoardInv
<1>6. /\ row \in CardRow /\ row.stage = card[o].stage /\ row.owner = card[o].owner
      /\ row.amount = m.amount /\ row.coin = m.coin
  <2> HIDE DEF wrote
  <2> QED BY <1>4, <1>5, CardWritten
<1>7. PICK asked : /\ asked \in {interests[o], Append(interests[o], i)}
                   /\ interests' = [interests EXCEPT ![o] = asked]
  BY <1>3 DEF BoardInv
<1>8. asked \in Seq(Interest) /\ \A k \in DOMAIN asked : resolveInterest(asked[k].class, asked[k].good) = {asked[k]}
  <2>1. interests[o] \in Seq(Interest)
        /\ \A k \in DOMAIN interests[o] : resolveInterest(interests[o][k].class, interests[o][k].good) = {interests[o][k]}
    BY <1>1 DEF BoardInv, ToldOf
  <2>2. CASE asked = interests[o]
    BY <2>1, <2>2
  <2>3. CASE asked = Append(interests[o], i)
    <3>1. asked \in Seq(Interest)
      BY <1>4, <2>1, <2>3
    <3>2. ASSUME NEW k \in DOMAIN asked PROVE asked[k] = i \/ (k \in DOMAIN interests[o] /\ asked[k] = interests[o][k])
      BY <1>4, <2>1, <2>3
    <3> QED BY <1>4, <2>1, <3>1, <3>2
  <2> QED BY <1>7, <2>2, <2>3
<1>9. ToldOf(row, trail[o], asked)
  <2>1. trail[o] # <<>> => row.owner = trail[o][Len(trail[o])].to
    BY <1>1, <1>6 DEF BoardInv, ToldOf
  <2>2. \A k \in DOMAIN trail[o] : trail[o][k].by \in Hands => trail[o][k].to = trail[o][k].by /\ trail[o][k].from = Nothing
    BY <1>1 DEF BoardInv, ToldOf
  <2>3. row.amount <=> row.coin # Nothing
    BY <1>4, <1>6
  <2> QED BY <1>8, <2>1, <2>2, <2>3 DEF ToldOf
<1>10. /\ card' = [card EXCEPT ![o] = row] /\ trail' = [trail EXCEPT ![o] = trail[o]] /\ trail[o] \in Seq(TrailRow)
       /\ columns' = columns /\ edit' = [edit EXCEPT ![u] = NoEdit] /\ row.stage # Nothing
  BY <1>1, <1>3, <1>6 DEF BoardInv, OnBoard
<1> HIDE DEF row, o
<1> QED BY <1>1, <1>6, <1>7, <1>8, <1>9, <1>10, OneCardKeeps

LEMMA AssignKeeps ==
  ASSUME BoardInv, NEW u \in Users, NEW to \in Users \cup {Nothing}, AssignCard(u, to)
  PROVE  BoardInv'
<1> DEFINE o == edit[u].card
           owner == edit[u].was.owner
           row == [card[o] EXCEPT !.owner = to]
           told == [by |-> u, from |-> owner, to |-> to]
           log == Append(trail[o], told)
<1>1. o \in Cards /\ OnBoard(o) /\ edit[u].was \in CardRow
  BY DEF BoardInv, AssignCard
<1>2. /\ to # owner /\ canAssign(u, owner, to)
      /\ card' = [card EXCEPT ![o] = row] /\ trail' = [trail EXCEPT ![o] = log]
      /\ edit' = [edit EXCEPT ![u] = NoEdit] /\ columns' = columns /\ interests' = interests
  BY <1>1 DEF AssignCard, PutCards, BoardInv
<1>3. card[o] \in CardRow /\ trail[o] \in Seq(TrailRow) /\ interests[o] \in Seq(Interest)
      /\ ToldOf(card[o], trail[o], interests[o])
  BY <1>1 DEF BoardInv
<1>4. row \in CardRow /\ row.stage = card[o].stage /\ row.amount = card[o].amount /\ row.coin = card[o].coin
      /\ row.owner = to
  BY <1>3 DEF CardRow
<1>5. told \in TrailRow
  BY <1>1 DEF TrailRow, CardRow
<1>6. log \in Seq(TrailRow) /\ Len(log) = Len(trail[o]) + 1 /\ log[Len(log)] = told
      /\ \A k \in DOMAIN log : log[k] = told \/ (k \in DOMAIN trail[o] /\ log[k] = trail[o][k])
  BY <1>3, <1>5
<1>7. u \in Hands => to = u /\ owner = Nothing
  BY <1>2, PipelineBoardAssumption DEF canAssign, PipelineBoardAssumption
<1>8. ToldOf(row, log, interests[o])
  <2>1. row.amount <=> row.coin # Nothing
    BY <1>3, <1>4 DEF ToldOf
  <2>2. row.owner = log[Len(log)].to
    BY <1>4, <1>6
  <2>3. ASSUME NEW k \in DOMAIN log, log[k].by \in Hands PROVE log[k].to = log[k].by /\ log[k].from = Nothing
    <3>1. CASE log[k] = told
      BY <1>7, <2>3, <3>1
    <3>2. CASE k \in DOMAIN trail[o] /\ log[k] = trail[o][k]
      BY <1>3, <2>3, <3>2 DEF ToldOf
    <3> QED BY <1>6, <3>1, <3>2
  <2> QED BY <1>3, <2>1, <2>2, <2>3 DEF ToldOf
<1>9. interests' = [interests EXCEPT ![o] = interests[o]]
  BY <1>2 DEF BoardInv
<1>10. row.stage # Nothing
  BY <1>1, <1>4 DEF OnBoard
<1> HIDE DEF o, row, log, told, owner
<1> QED BY <1>1, <1>2, <1>3, <1>4, <1>6, <1>8, <1>9, <1>10, OneCardKeeps

\* What moves a card, archives it or restores it.
LEMMA MovedKeeps ==
  ASSUME BoardInv, NEW o \in Cards, NEW row \in CardRow,
         row.amount = card[o].amount, row.coin = card[o].coin, row.owner = card[o].owner,
         row.stage # Nothing, card' = [card EXCEPT ![o] = row],
         UNCHANGED <<columns, trail, interests, edit>>
  PROVE  BoardInv'
<1>1. trail' = [trail EXCEPT ![o] = trail[o]] /\ interests' = [interests EXCEPT ![o] = interests[o]]
      /\ trail[o] \in Seq(TrailRow) /\ interests[o] \in Seq(Interest)
  BY DEF BoardInv
<1> QED BY <1>1, SameTold, OneCardKeeps

LEMMA BoardStart == PipelineBoardInit => BoardInv
<1> SUFFICES ASSUME PipelineBoardInit PROVE BoardInv
  OBVIOUS
<1>1. /\ card \in [Cards -> CardRow] /\ columns \subseteq Columns
      /\ trail \in [Cards -> Seq(TrailRow)] /\ interests \in [Cards -> Seq(Interest)]
  BY NoCardIsRow DEF PipelineBoardInit
<1>2. edit \in [Users -> [card : Cards \cup {0}, was : CardRow]] /\ \A u \in Users : edit[u] = NoEdit
  BY NoCardIsRow DEF PipelineBoardInit, NoEdit
<1>3. NoCard.amount = FALSE /\ NoCard.coin = Nothing
  BY DEF NoCard
<1>4. \A o \in Cards : ToldOf(card[o], trail[o], interests[o]) /\ trail[o] = <<>>
  BY <1>3 DEF PipelineBoardInit, ToldOf
<1> QED BY <1>1, <1>2, <1>4 DEF BoardInv

LEMMA BoardStepKeeps == BoardInv /\ [PipelineBoardNext]_boardVars => BoardInv'
<1> SUFFICES ASSUME BoardInv, [PipelineBoardNext]_boardVars PROVE BoardInv'
  OBVIOUS
<1>1. CASE UNCHANGED <<card, columns, trail, interests, edit>>
  BY <1>1 DEF BoardInv, OnBoard
<1>2. CASE EditStep
  <2>1. PICK class \in Classes \cup {Nothing}, good \in Goods \cup {Nothing} :
          \/ \E u \in Users, owner \in Users \cup {Nothing}, s \in Columns : CreateCard(u, owner, s, class, good)
          \/ \E u \in Users, amount \in BOOLEAN, coin \in Currencies,
                fields \in SUBSET {"class", "good", "amount", "coin"} :
               UpdateCard(u, AskedOf(fields, class, good, amount, coin))
    BY <1>2 DEF EditStep, Currencies
  <2> QED BY <2>1, CreateKeeps, UpdateKeeps
<1>3. ASSUME NEW u \in Users, DropEdit(u) PROVE BoardInv'
  <2>1. NoEdit \in [card : Cards \cup {0}, was : CardRow]
    BY NoCardIsRow DEF NoEdit
  <2> QED BY <1>3, <2>1 DEF DropEdit, BoardInv, OnBoard
<1>4. ASSUME NEW u \in Users, NEW o \in Cards, ReadCard(u, o) PROVE BoardInv'
  <2>1. edit' = [edit EXCEPT ![u] = [card |-> o, was |-> card[o]]] /\ OnBoard(o)
        /\ UNCHANGED <<card, columns, trail, interests>>
    BY <1>4 DEF ReadCard
  <2>2. [card |-> o, was |-> card[o]] \in [card : Cards \cup {0}, was : CardRow]
    BY DEF BoardInv
  <2>3. \A v \in Users : edit'[v] # NoEdit => edit'[v].card \in Cards /\ OnBoard(edit'[v].card)
    BY <2>1 DEF BoardInv
  <2>4. edit' \in [Users -> [card : Cards \cup {0}, was : CardRow]]
    BY <2>1, <2>2 DEF BoardInv
  <2> QED BY <2>1, <2>3, <2>4 DEF BoardInv, OnBoard
<1>5. ASSUME NEW u \in Users, NEW to \in Users \cup {Nothing}, AssignCard(u, to) PROVE BoardInv'
  BY <1>5, AssignKeeps
<1>6. ASSUME NEW o \in Cards, NEW s \in Columns, PlaceCard(o, s) PROVE BoardInv'
  <2> DEFINE row == [card[o] EXCEPT !.stage = s]
  <2>1. card[o] \in CardRow
    BY DEF BoardInv
  <2>2. row \in CardRow /\ row.amount = card[o].amount /\ row.coin = card[o].coin
        /\ row.owner = card[o].owner /\ row.stage = s
    BY <2>1 DEF CardRow
  <2>3. card' = [card EXCEPT ![o] = row] /\ UNCHANGED <<columns, trail, interests, edit>> /\ s # Nothing
    BY <1>6, PipelineBoardAssumption DEF PlaceCard, PutCards, BoardInv, PipelineBoardAssumption
  <2> HIDE DEF row
  <2> QED BY <2>2, <2>3, MovedKeeps
<1>7. ASSUME NEW o \in Cards, NEW archived \in BOOLEAN, ArchiveCard(o, archived) PROVE BoardInv'
  <2> DEFINE row == [card[o] EXCEPT !.archived = archived]
  <2>1. card[o] \in CardRow
    BY DEF BoardInv
  <2>2. row \in CardRow /\ row.amount = card[o].amount /\ row.coin = card[o].coin
        /\ row.owner = card[o].owner /\ row.stage = card[o].stage
    BY <2>1 DEF CardRow
  <2>3. card' = [card EXCEPT ![o] = row] /\ UNCHANGED <<columns, trail, interests, edit>> /\ row.stage # Nothing
    BY <1>7, <2>2 DEF ArchiveCard, PutCards, BoardInv, OnBoard
  <2> HIDE DEF row
  <2> QED BY <2>2, <2>3, MovedKeeps
<1>8. ASSUME NEW s \in Columns, ArchiveColumn(s) \/ RestoreColumn(s) \/ ReadPage(s) PROVE BoardInv'
  <2>1. columns' \subseteq Columns /\ UNCHANGED <<card, trail, interests, edit>>
    BY <1>8 DEF ArchiveColumn, RestoreColumn, ReadPage, BoardInv
  <2> QED BY <2>1 DEF BoardInv, OnBoard
<1>9. CASE CloseColumn
  BY <1>1, <1>9 DEF CloseColumn
<1>10. CASE UNCHANGED boardVars
  BY <1>1, <1>10 DEF boardVars
<1> QED BY <1>2, <1>3, <1>4, <1>5, <1>6, <1>7, <1>8, <1>9, <1>10 DEF PipelineBoardNext, MoveCard, ReopenCard

\* Whatever stale reads the edits of a card write over each other, it has an amount with a
\* currency or neither, its activities tell its responsible, no seller took a card for
\* anybody else, and its history has no interest that does not fit (create, update and
\* assign of the opportunities service).
THEOREM CardsTellTheirHistory == PipelineBoardSpec => []CardsAreTold
<1>1. PipelineBoardSpec => []BoardInv
  BY BoardStart, BoardStepKeeps, PTL DEF PipelineBoardSpec
<1>2. BoardInv => CardsAreTold
  BY DEF BoardInv, ToldOf, CardsAreTold
<1> QED BY <1>1, <1>2, PTL

----------------------------------------------------------------------------
(* Lists of work.                                                          *)

TaskRow == [status : {None, "PENDING", "COMPLETED", "CANCELLED", "RESCHEDULED"}, due : Nat, archived : BOOLEAN]
CycleRow == [status : {None, "PENDING", "DUE", "OVERDUE", "PAID", "CANCELLED"},
             work : {"PENDING", "PAYMENT_PROMISE", "LOST"}, due : Nat, paid : SUBSET Nat]
TestRow == [status : {None, "ACTIVE", "EXPIRED", "CONVERTED", "CANCELLED"}, ends : Nat]
OrderRow ==
  [sold : BOOLEAN, sub : {None, "PENDING", "ACTIVE", "SUSPENDED", "CANCELLED"},
   status : {None, "PENDING", "ASSIGNED", "PROCESSING", "COMPLETED", "FAILED", "CANCELLED"},
   activation : {None, "PENDING", "ACTIVE", "FAILED", "SUSPENDED", "REVOKED"},
   credential : {None, "ACTIVE", "REVOKED"}, trying : BOOLEAN, retryable : BOOLEAN]

\* A subscription whose activation has been under way past PENDING does not wait for one.
OrderFits(row) == row.sub = "PENDING" => row.activation \notin {"ACTIVE", "SUSPENDED"}

WorkTypes ==
  /\ now \in Nat
  /\ order \in [Orders -> OrderRow] /\ \A o \in Orders : OrderFits(order[o])
  /\ task \in [Tasks -> TaskRow] /\ cycle \in [Cycles -> CycleRow] /\ test \in [Tests -> TestRow]

\* The start of a day is not after its instants, and the next one is.
LEMMA Division ==
  ASSUME NEW t \in Nat
  PROVE  Day(t) \in Nat /\ StartOf(Day(t)) <= t /\ t < StartOf(Day(t) + 1)
<1>1. Half \in Nat /\ Half > 0
  BY WorkListsAssumption DEF WorkListsAssumption
<1>2. t = Half * (t \div Half) + (t % Half) /\ t % Half \in 0 .. (Half - 1) /\ t \div Half \in Int
  BY <1>1, SMTT(30)
<1>3. t \div Half >= 0
  BY <1>1, <1>2, SMTT(30)
<1>4. (t \div Half + 1) * Half = Half * (t \div Half) + Half
  BY <1>1, <1>2, SMTT(30)
<1> QED BY <1>1, <1>2, <1>3, <1>4 DEF Day, StartOf

\* Days and what starts them are in one order.
LEMMA StartsGrow ==
  ASSUME NEW d \in Int, NEW e \in Int
  PROVE  /\ StartOf(d) \in Int
         /\ d <= e <=> StartOf(d) <= StartOf(e)
         /\ StartOf(d + e) = StartOf(d) + e * Half
<1>1. Half \in Int /\ Half > 0
  BY WorkListsAssumption DEF WorkListsAssumption
<1>2. d <= e <=> d * Half <= e * Half
  BY <1>1, SMTT(30)
<1> QED BY <1>1, <1>2, SMTT(30) DEF StartOf

\* What is on a day is between the start of it and that of the next.
LEMMA OnTheDay ==
  ASSUME NEW t \in Nat, NEW d \in Nat
  PROVE  Day(t) = d <=> StartOf(d) <= t /\ t < StartOf(d + 1)
<1>1. Day(t) \in Nat /\ StartOf(Day(t)) <= t /\ t < StartOf(Day(t) + 1)
  BY Division
<1>2. ASSUME StartOf(d) <= t, t < StartOf(d + 1) PROVE Day(t) = d
  <2> DEFINE e == Day(t)
  <2>1. e \in Int /\ e + 1 \in Int /\ d \in Int /\ d + 1 \in Int
    BY <1>1
  <2> HIDE DEF e
  <2>2. /\ StartOf(e + 1) \in Int /\ StartOf(d) \in Int /\ StartOf(e) \in Int /\ StartOf(d + 1) \in Int
        /\ e + 1 <= d <=> StartOf(e + 1) <= StartOf(d)
        /\ d + 1 <= e <=> StartOf(d + 1) <= StartOf(e)
    BY <2>1, StartsGrow
  <2>3. StartOf(e) <= t /\ t < StartOf(e + 1)
    BY <1>1 DEF e
  <2>4. e = d
    BY <1>2, <2>1, <2>2, <2>3
  <2> QED BY <2>4 DEF e
<1> QED BY <1>1, <1>2

\* Where the days of now begin.
LEMMA Today ==
  ASSUME now \in Nat
  PROVE  /\ Half \in Nat \ {0} /\ Day(now) \in Nat
         /\ StartOf(Day(now)) \in Int
         /\ StartOf(Day(now)) <= now /\ now < StartOf(Day(now)) + Half
         /\ StartOf(Day(now) + 1) = StartOf(Day(now)) + Half
         /\ StartOf(Day(now) + 8) = StartOf(Day(now)) + 8 * Half
<1>1. Day(now) \in Nat /\ StartOf(Day(now)) <= now /\ now < StartOf(Day(now) + 1)
  BY Division
<1>2. StartOf(Day(now)) \in Int /\ StartOf(Day(now) + 1) = StartOf(Day(now)) + 1 * Half
      /\ StartOf(Day(now) + 8) = StartOf(Day(now)) + 8 * Half
  BY <1>1, StartsGrow
<1> QED BY <1>1, <1>2, WorkListsAssumption DEF WorkListsAssumption

LEMMA TasksListed == WorkTypes => TasksInSight
<1> SUFFICES ASSUME WorkTypes PROVE TasksInSight
  OBVIOUS
<1> DEFINE start == StartOf(Day(now))
<1>1. /\ now \in Nat /\ Half \in Nat /\ Half > 0 /\ start \in Int /\ start <= now /\ now < start + Half
      /\ StartOf(Day(now) + 1) = start + Half /\ StartOf(Day(now) + 8) = start + 8 * Half
  BY Today DEF WorkTypes
<1>2. \A t \in Tasks : /\ task[t].due \in Nat
                       /\ Day(task[t].due) = Day(now) <=> start <= task[t].due /\ task[t].due < start + Half
  BY <1>1, OnTheDay, Today DEF WorkTypes, TaskRow, CycleRow
<1> HIDE DEF start
<1>3. \A t \in PendingTasks : t \in Tasks /\ task[t].status = "PENDING"
  BY DEF PendingTasks
<1>4. /\ \A t : t \in overdueFollowUps <=> t \in PendingTasks /\ task[t].due < start
      /\ \A t : t \in todayFollowUps <=> t \in PendingTasks /\ start <= task[t].due /\ task[t].due < start + Half
      /\ \A t : t \in upcomingFollowUps <=> t \in PendingTasks /\ start + Half <= task[t].due /\ task[t].due < start + 8 * Half
  BY <1>1, <1>2, <1>3 DEF overdueFollowUps, todayFollowUps, upcomingFollowUps, start
<1>5. \A t \in PendingTasks : t \in overdueFollowUps \cup todayFollowUps \cup upcomingFollowUps
                                \/ task[t].due >= StartOf(Day(now) + 8)
  BY <1>1, <1>2, <1>3, <1>4
<1>6. overdueFollowUps \cap (todayFollowUps \cup upcomingFollowUps) = {}
  BY <1>1, <1>2, <1>3, <1>4
<1>7. todayFollowUps \cap upcomingFollowUps = {}
  BY <1>1, <1>2, <1>3, <1>4
<1>8. ASSUME NEW t \in overdueFollowUps \cup todayFollowUps
      PROVE  t \in operationalAgenda.followUps \cup {u \in Tasks : task[u].due >= now}
  <2>1. t \in Tasks /\ task[t].status = "PENDING" /\ task[t].due \in Nat
    BY <1>2, <1>3, <1>4
  <2>2. task[t].due < now + Half => t \in operationalAgenda.followUps
    BY <2>1 DEF operationalAgenda
  <2> QED BY <1>1, <2>1, <2>2
<1> QED BY <1>5, <1>6, <1>7, <1>8 DEF TasksInSight

LEMMA CyclesListed == WorkTypes => CyclesInSight
<1> SUFFICES ASSUME WorkTypes PROVE CyclesInSight
  OBVIOUS
<1> DEFINE start == StartOf(Day(now))
           cards == renewalCards
<1>1. /\ now \in Nat /\ Half \in Nat /\ Half > 0 /\ start \in Int /\ start <= now /\ now < start + Half
  BY Today DEF WorkTypes
<1>2. \A c \in Cycles : /\ cycle[c].due \in Nat
                        /\ Day(cycle[c].due) = Day(now) <=> start <= cycle[c].due /\ cycle[c].due < start + Half
  BY <1>1, OnTheDay, Today DEF WorkTypes, TaskRow, CycleRow
<1>3. /\ cards.next7 = {c \in Unpaid : start <= cycle[c].due /\ cycle[c].due < start + 7 * Half}
      /\ cards.next15 = {c \in Unpaid : start <= cycle[c].due /\ cycle[c].due < start + 15 * Half}
      /\ cards.next30 = {c \in Unpaid : start <= cycle[c].due /\ cycle[c].due < start + 30 * Half}
      /\ cards.overdue = {c \in Unpaid : cycle[c].due < start}
  BY DEF renewalCards
<1> HIDE DEF start, cards
<1>4. Unpaid \subseteq Cycles
  BY DEF Unpaid
<1>5. \A c \in Unpaid : c \in overdueRenewals \cup urgentRenewals \/ cycle[c].due >= now + 7 * Half
  BY <1>1, <1>2, <1>4 DEF overdueRenewals, urgentRenewals, DueIn
<1>6. renewalsToday \subseteq overdueRenewals \cup urgentRenewals
  BY <1>1, <1>2, <1>4 DEF renewalsToday, overdueRenewals, urgentRenewals, DueIn
<1>7. overdueRenewals \cup urgentRenewals \cup vipRenewals \subseteq operationalAgenda.renewals
  BY <1>1, <1>2, <1>4 DEF overdueRenewals, urgentRenewals, vipRenewals, DueIn, operationalAgenda
<1>8. paymentPromises \subseteq operationalAgenda.promises
  BY <1>4 DEF paymentPromises, operationalAgenda, Unpaid
<1>9. cards.next7 \subseteq cards.next15 /\ cards.next15 \subseteq cards.next30
  BY <1>1, <1>2, <1>3, <1>4
<1>10. cards.overdue \cap cards.next30 = {}
  BY <1>1, <1>2, <1>3, <1>4
<1>11. \A c \in Unpaid : c \in cards.overdue \cup cards.next30 \/ cycle[c].due >= now + 29 * Half
  BY <1>1, <1>2, <1>3, <1>4
<1>12. cards.overdue \subseteq overdueRenewals
  BY <1>1, <1>2, <1>3, <1>4 DEF overdueRenewals
<1>13. cards.next7 \subseteq overdueRenewals \cup urgentRenewals
  BY <1>1, <1>2, <1>3, <1>4 DEF overdueRenewals, urgentRenewals, DueIn
<1> QED BY <1>5, <1>6, <1>7, <1>8, <1>9, <1>10, <1>11, <1>12, <1>13 DEF CyclesInSight, cards

LEMMA OrdersListed == WorkTypes => OrdersInSight
<1> SUFFICES ASSUME WorkTypes PROVE OrdersInSight
  OBVIOUS
<1>1. pendingFulfillments \cup failedFulfillments \subseteq operationalAgenda.fulfillments
  BY DEF pendingFulfillments, failedFulfillments, operationalAgenda
<1>2. ASSUME NEW t \in Tests, test[t].status = "ACTIVE"
      PROVE  t \in expiringTrials \cup expiredTrials \/ test[t].ends > now + 2 * Half
  <2>1. test[t].ends \in Nat /\ now \in Nat /\ Half \in Nat
    BY Today DEF WorkTypes, TestRow
  <2> QED BY <1>2, <2>1 DEF expiringTrials, expiredTrials
<1>3. ASSUME NEW o \in Orders, order[o].sold, order[o].sub = "PENDING" PROVE o \in pendingActivations
  BY <1>3 DEF WorkTypes, OrderFits, pendingActivations, ActivationsUnderWay, pendingSubscriptionActivations,
              LiveActivations
<1> QED BY <1>1, <1>2, <1>3 DEF OrdersInSight

\* A row that fits takes the place of another.
LEMMA OrderSet ==
  ASSUME WorkTypes, NEW o \in Orders, NEW row \in OrderRow, OrderFits(row), SetOrder(o, row)
  PROVE  WorkTypes'
<1>1. order' = [order EXCEPT ![o] = row] /\ UNCHANGED <<now, task, cycle, lead, test>>
  BY DEF SetOrder
<1>2. order' \in [Orders -> OrderRow] /\ \A p \in Orders : OrderFits(order'[p])
  BY <1>1 DEF WorkTypes
<1> QED BY <1>1, <1>2 DEF WorkTypes

\* Every step of an order leaves such a row.
LEMMA OrderKept ==
  ASSUME WorkTypes, NEW o \in Orders,
         \/ SellOrder(o) \/ UnsellOrder(o) \/ AddOrder(o) \/ BeginAttempt(o) \/ AddActivation(o)
         \/ IssueCredential(o) \/ RevokeCredential(o)
         \/ \E s \in {"ACTIVE", "SUSPENDED", "CANCELLED"} : MoveSub(o, s)
         \/ \E s \in {"PENDING", "ASSIGNED", "PROCESSING", "COMPLETED", "FAILED", "CANCELLED"} : MoveOrder(o, s)
         \/ \E s \in {"COMPLETED", "FAILED"}, more \in BOOLEAN : EndAttempt(o, s, more)
         \/ \E s \in {"PENDING", "ACTIVE", "FAILED", "SUSPENDED", "REVOKED"} : Activated(o, s)
  PROVE  WorkTypes'
<1> DEFINE was == order[o]
<1>0. was \in OrderRow /\ OrderFits(was)
  BY DEF WorkTypes
<1>2. CASE SellOrder(o)
  <2> DEFINE row == [NoOrder EXCEPT !.sold = TRUE, !.sub = "PENDING"]
  <2>1. row \in OrderRow /\ OrderFits(row)
    BY DEF NoOrder, OrderRow, OrderFits, None
  <2>2. SetOrder(o, row)
    BY <1>2 DEF SellOrder
  <2> HIDE DEF row
  <2> QED BY <2>1, <2>2, OrderSet
<1>3. CASE UnsellOrder(o)
  <2> DEFINE row == [was EXCEPT !.sold = FALSE]
  <2>1. row \in OrderRow /\ OrderFits(row)
    BY <1>0 DEF OrderRow, OrderFits
  <2>2. SetOrder(o, row)
    BY <1>3 DEF UnsellOrder
  <2> HIDE DEF row
  <2> QED BY <2>1, <2>2, OrderSet
<1>4. ASSUME NEW s \in {"PENDING", "ASSIGNED", "PROCESSING", "COMPLETED", "FAILED", "CANCELLED"},
             NEW trying \in BOOLEAN, NEW retryable \in BOOLEAN,
             SetOrder(o, [was EXCEPT !.status = s, !.trying = trying, !.retryable = retryable])
      PROVE  WorkTypes'
  <2> DEFINE row == [was EXCEPT !.status = s, !.trying = trying, !.retryable = retryable]
  <2>1. row \in OrderRow /\ OrderFits(row)
    BY <1>0 DEF OrderRow, OrderFits
  <2> HIDE DEF row
  <2> QED BY <1>4, <2>1, OrderSet DEF row
<1>5. \A s : [was EXCEPT !.status = s] = [was EXCEPT !.status = s, !.trying = was.trying, !.retryable = was.retryable]
  BY <1>0 DEF OrderRow
<1>6. \A s : [was EXCEPT !.status = s, !.trying = TRUE]
               = [was EXCEPT !.status = s, !.trying = TRUE, !.retryable = was.retryable]
  BY <1>0 DEF OrderRow
<1>7. was.trying \in BOOLEAN /\ was.retryable \in BOOLEAN
  BY <1>0 DEF OrderRow
<1>8. CASE AddOrder(o)
  <2>1. PICK s \in {"PENDING", "ASSIGNED"} : SetOrder(o, [was EXCEPT !.status = s])
    BY <1>8 DEF AddOrder
  <2>2. SetOrder(o, [was EXCEPT !.status = s, !.trying = was.trying, !.retryable = was.retryable])
    BY <1>5, <2>1
  <2>3. s \in {"PENDING", "ASSIGNED", "PROCESSING", "COMPLETED", "FAILED", "CANCELLED"}
    OBVIOUS
  <2> QED BY <1>4, <1>7, <2>2, <2>3
<1>9. ASSUME NEW s \in {"PENDING", "ASSIGNED", "PROCESSING", "COMPLETED", "FAILED", "CANCELLED"}, MoveOrder(o, s)
      PROVE  WorkTypes'
  <2>1. SetOrder(o, [was EXCEPT !.status = s])
    BY <1>9 DEF MoveOrder
  <2>2. SetOrder(o, [was EXCEPT !.status = s, !.trying = was.trying, !.retryable = was.retryable])
    BY <1>5, <2>1
  <2> QED BY <1>4, <1>7, <2>2
<1>10. CASE BeginAttempt(o)
  <2>1. SetOrder(o, [was EXCEPT !.status = "PROCESSING", !.trying = TRUE])
    BY <1>10 DEF BeginAttempt
  <2> QED BY <1>4, <1>6, <1>7, <2>1
<1>11. ASSUME NEW s \in {"COMPLETED", "FAILED"}, NEW more \in BOOLEAN, EndAttempt(o, s, more) PROVE WorkTypes'
  <2>1. SetOrder(o, [was EXCEPT !.status = s, !.trying = FALSE, !.retryable = was.retryable \/ (s = "FAILED" /\ more)])
    BY <1>11 DEF EndAttempt
  <2>2. (was.retryable \/ (s = "FAILED" /\ more)) \in BOOLEAN
    BY <1>7
  <2> QED BY <1>4, <2>1, <2>2
<1>12. CASE AddActivation(o)
  <2> DEFINE row == [was EXCEPT !.activation = "PENDING"]
  <2>1. row \in OrderRow /\ OrderFits(row)
    BY <1>0 DEF OrderRow, OrderFits
  <2>2. SetOrder(o, row)
    BY <1>12 DEF AddActivation
  <2> HIDE DEF row
  <2> QED BY <2>1, <2>2, OrderSet
<1>13. CASE IssueCredential(o) \/ RevokeCredential(o)
  <2>1. PICK s \in {"ACTIVE", "REVOKED"} : SetOrder(o, [was EXCEPT !.credential = s])
    BY <1>13 DEF IssueCredential, RevokeCredential
  <2> DEFINE row == [was EXCEPT !.credential = s]
  <2>2. row \in OrderRow /\ OrderFits(row)
    BY <1>0 DEF OrderRow, OrderFits
  <2> HIDE DEF row
  <2> QED BY <2>1, <2>2, OrderSet DEF row
<1>14. ASSUME NEW s \in {"ACTIVE", "SUSPENDED", "CANCELLED"}, MoveSub(o, s) PROVE WorkTypes'
  <2> DEFINE row == [was EXCEPT !.sub = s]
  <2>1. row \in OrderRow /\ OrderFits(row)
    BY <1>0 DEF OrderRow, OrderFits
  <2>2. SetOrder(o, row)
    BY <1>14 DEF MoveSub
  <2> HIDE DEF row
  <2> QED BY <2>1, <2>2, OrderSet
<1>15. ASSUME NEW s \in {"PENDING", "ACTIVE", "FAILED", "SUSPENDED", "REVOKED"}, Activated(o, s) PROVE WorkTypes'
  <2> DEFINE after == SubAfter(was.sub, s)
             row == [was EXCEPT !.activation = s, !.sub = after]
  <2>1. SetOrder(o, row) /\ was.activation \in Activatable(s)
    BY <1>15 DEF Activated
  <2>2. after \in {None, "PENDING", "ACTIVE", "SUSPENDED", "CANCELLED"} /\ (s = "ACTIVE" => after # "PENDING")
    BY <1>0 DEF OrderRow, SubAfter, None
  <2>3. s = "SUSPENDED" => was.activation \in {"ACTIVE", "SUSPENDED"}
    BY <2>1 DEF Activatable
  <2>4. after = "PENDING" => was.sub = "PENDING"
    BY DEF SubAfter
  <2> HIDE DEF after
  <2>5. row.sub = after /\ row.activation = s /\ row \in OrderRow
    BY <1>0, <2>2 DEF OrderRow
  <2>6. OrderFits(row)
    <3> HIDE DEF row
    <3> QED BY <1>0, <2>2, <2>3, <2>4, <2>5 DEF OrderFits
  <2> HIDE DEF row
  <2> QED BY <2>1, <2>5, <2>6, OrderSet
<1> QED BY <1>2, <1>3, <1>8, <1>9, <1>10, <1>11, <1>12, <1>13, <1>14, <1>15

LEMMA WorkTypesKept == WorkTypes /\ [WorkListsNext]_workVars => WorkTypes'
<1> SUFFICES ASSUME WorkTypes, [WorkListsNext]_workVars PROVE WorkTypes'
  OBVIOUS
<1>1. Dues \subseteq Nat
  BY WorkListsAssumption DEF WorkListsAssumption
<1>2. CASE Pass
  BY <1>2 DEF Pass, WorkTypes
<1>3. ASSUME NEW t \in Tasks, NEW due \in Dues, PlanTask(t, due) PROVE WorkTypes'
  <2>1. [NoTask EXCEPT !.status = "PENDING", !.due = due] \in TaskRow
    BY <1>1 DEF NoTask, TaskRow
  <2> QED BY <1>3, <2>1 DEF PlanTask, WorkTypes
<1>4. ASSUME NEW t \in Tasks, NEW u \in Tasks, NEW due \in Dues, RescheduleTask(t, u, due) PROVE WorkTypes'
  <2>1. /\ [NoTask EXCEPT !.status = "PENDING", !.due = due] \in TaskRow
        /\ [task[t] EXCEPT !.status = "RESCHEDULED"] \in TaskRow
    BY <1>1 DEF NoTask, TaskRow, WorkTypes
  <2>2. task' = [task EXCEPT ![t] = [task[t] EXCEPT !.status = "RESCHEDULED"],
                             ![u] = [NoTask EXCEPT !.status = "PENDING", !.due = due]]
    BY <1>4 DEF RescheduleTask
  <2> QED BY <1>4, <2>1, <2>2 DEF RescheduleTask, WorkTypes
<1>5. ASSUME NEW t \in Tasks, ArchiveTask(t) \/ \E s \in {"COMPLETED", "CANCELLED"} : SettleTask(t, s) PROVE WorkTypes'
  <2>1. PICK row \in TaskRow : task' = [task EXCEPT ![t] = row]
    <3>1. task[t] \in TaskRow
      BY DEF WorkTypes
    <3>2. CASE ArchiveTask(t)
      <4>1. [task[t] EXCEPT !.archived = TRUE] \in TaskRow
        BY <3>1 DEF TaskRow
      <4> QED BY <3>2, <4>1 DEF ArchiveTask
    <3>3. ASSUME NEW s \in {"COMPLETED", "CANCELLED"}, SettleTask(t, s)
          PROVE  \E row \in TaskRow : task' = [task EXCEPT ![t] = row]
      <4>1. [task[t] EXCEPT !.status = s] \in TaskRow
        BY <3>1 DEF TaskRow
      <4> QED BY <3>3, <4>1 DEF SettleTask
    <3> QED BY <1>5, <3>2, <3>3
  <2> QED BY <1>5, <2>1 DEF ArchiveTask, SettleTask, WorkTypes
<1>6. ASSUME NEW c \in Cycles, NEW due \in Dues, OpenCycle(c, due) PROVE WorkTypes'
  <2>1. [NoCycle EXCEPT !.status = "PENDING", !.due = due] \in CycleRow
    BY <1>1 DEF NoCycle, CycleRow
  <2> QED BY <1>6, <2>1 DEF OpenCycle, WorkTypes
<1>7. ASSUME NEW c \in Cycles, NEW s \in {"DUE", "OVERDUE", "PAID", "CANCELLED"}, MoveCycle(c, s) PROVE WorkTypes'
  <2>1. cycle' = [cycle EXCEPT ![c] = [cycle[c] EXCEPT !.status = s, !.paid = IF s = "PAID" THEN {now} ELSE cycle[c].paid]]
    BY <1>7 DEF MoveCycle
  <2>2. [cycle[c] EXCEPT !.status = s, !.paid = IF s = "PAID" THEN {now} ELSE cycle[c].paid] \in CycleRow
    BY DEF WorkTypes, CycleRow
  <2> QED BY <1>7, <2>1, <2>2 DEF MoveCycle, WorkTypes
<1>8. ASSUME NEW c \in Cycles, NEW w \in WholeCenter.works, PromiseCycle(c, w) PROVE WorkTypes'
  <2>1. [cycle[c] EXCEPT !.work = w] \in CycleRow
    BY DEF WorkTypes, CycleRow, WholeCenter
  <2> QED BY <1>8, <2>1 DEF PromiseCycle, WorkTypes
<1>9. CASE UNCHANGED <<now, task, cycle, order, test>>
  BY <1>9 DEF WorkTypes
<1>10. ASSUME NEW t \in Tests, NEW due \in Dues, StartTest(t, due) PROVE WorkTypes'
  <2>1. [status |-> "ACTIVE", ends |-> due] \in TestRow
    BY <1>1 DEF TestRow
  <2> QED BY <1>10, <2>1 DEF StartTest, WorkTypes
<1>11. ASSUME NEW t \in Tests, NEW s \in {"EXPIRED", "CONVERTED", "CANCELLED"}, EndTest(t, s) PROVE WorkTypes'
  <2>1. [test[t] EXCEPT !.status = s] \in TestRow
    BY DEF WorkTypes, TestRow
  <2> QED BY <1>11, <2>1 DEF EndTest, WorkTypes
<1>12. CASE TaskStep
  BY <1>2, <1>3, <1>4, <1>5, <1>12 DEF TaskStep
<1>13. CASE CycleStep
  BY <1>2, <1>6, <1>7, <1>8, <1>13 DEF CycleStep
<1>14. CASE OrderStep
  BY <1>2, <1>14, OrderKept DEF OrderStep
<1>15. CASE TestStep
  BY <1>2, <1>9, <1>10, <1>11, <1>15 DEF TestStep, MoveLead
<1>16. CASE UNCHANGED workVars
  BY <1>9, <1>16 DEF workVars
<1> QED BY <1>12, <1>13, <1>14, <1>15, <1>16 DEF WorkListsNext

\* Whenever the page is opened, on whatever instant of a day however it is divided, a
\* follow-up, a renewal, a fulfillment, a subscription that was sold and not activated and
\* a trial with something to do are on a list (the
\* follow-ups, My Day, the renewal center and the fulfillment summary).
THEOREM WorkStaysInSight == WorkListsSpec => [](TasksInSight /\ CyclesInSight /\ OrdersInSight)
<1>1. WorkListsInit => WorkTypes
  BY DEF WorkListsInit, WorkTypes, NoTask, NoCycle, NoOrder, NoTest, TaskRow, CycleRow, OrderRow, TestRow, OrderFits,
         None
<1>2. WorkListsSpec => []WorkTypes
  BY <1>1, WorkTypesKept, PTL DEF WorkListsSpec
<1>3. WorkTypes => TasksInSight /\ CyclesInSight /\ OrdersInSight
  BY TasksListed, CyclesListed, OrdersListed
<1> QED BY <1>2, <1>3, PTL

----------------------------------------------------------------------------
(* The inbox.                                                              *)

\* A finite set of numbers has a last one: of the sets of those above each, the least by
\* inclusion is empty.
LEMMA LastExists ==
  ASSUME NEW S, S \subseteq Int, IsFiniteSet(S), S # {}
  PROVE  \E m \in S : \A i \in S : i <= m
<1> DEFINE Above(i) == {j \in S : j > i}
           T == {Above(i) : i \in S}
<1>1. IsWellFoundedOn(StrictSubsetOrdering(S), FiniteSubsetsOf(S))
  BY FS_StrictSubsetOrderingWellFounded
<1>2. T \subseteq FiniteSubsetsOf(S) /\ T # {}
  <2>1. FiniteSubsetsOf(S) = SUBSET S
    BY FS_FiniteSubsetsOfFinite
  <2>2. PICK i \in S : TRUE
    OBVIOUS
  <2>3. Above(i) \in T
    BY <2>2
  <2>4. \A j \in S : Above(j) \in SUBSET S
    OBVIOUS
  <2> HIDE DEF Above
  <2> QED BY <2>1, <2>3, <2>4
<1>3. PICK X \in T : \A Y \in T : <<Y, X>> \notin StrictSubsetOrdering(S)
  <2> HIDE DEF T
  <2> QED BY <1>1, <1>2, WFMin
<1>4. PICK m \in S : X = Above(m)
  BY <1>3
<1>5. Above(m) = {}
  <2>1. SUFFICES ASSUME NEW i \in Above(m) PROVE FALSE
    OBVIOUS
  <2>2. i \in S /\ i > m /\ i \in Int /\ m \in Int
    OBVIOUS
  <2>3. Above(i) \subseteq Above(m) /\ i \notin Above(i)
    <3>1. ASSUME NEW j \in S, j > i PROVE j > m
      <4>1. j \in Int
        OBVIOUS
      <4> QED BY <2>2, <3>1, <4>1
    <3>2. ~(i > i)
      BY <2>2
    <3> QED BY <3>1, <3>2
  <2>4. <<Above(i), Above(m)>> \in StrictSubsetOrdering(S)
    BY <2>1, <2>3 DEF StrictSubsetOrdering
  <2>5. Above(i) \in T
    BY <2>2
  <2> HIDE DEF T, Above
  <2> QED BY <1>3, <1>4, <2>4, <2>5
<1>6. \A i \in S : i <= m
  BY <1>5
<1> QED BY <1>6

\* So has a set of places a first one.
LEMMA FirstExists ==
  ASSUME NEW n \in Nat, NEW S, S \subseteq 1 .. n, S # {}
  PROVE  \E m \in S : \A i \in S : m <= i
<1> DEFINE f == [i \in S |-> 0 - i]
           T == {f[i] : i \in S}
<1>1. IsFiniteSet(S) /\ \A i \in S : i \in Int
  <2>1. IsFiniteSet(1 .. n)
    BY FS_Interval
  <2>2. IsFiniteSet(S)
    BY <2>1, FS_Subset
  <2> QED BY <2>2
<1>2. IsFiniteSet(T)
  <2>1. f \in Surjection(S, T)
    BY DEF Surjection
  <2> QED BY <1>1, <2>1, FS_Surjection
<1>3. T \subseteq Int /\ T # {}
  <2>1. \A i \in S : f[i] = 0 - i /\ f[i] \in Int
    BY <1>1
  <2> HIDE DEF f
  <2> QED BY <2>1
<1>4. PICK t \in T : \A u \in T : u <= t
  <2> HIDE DEF T
  <2> QED BY <1>2, <1>3, LastExists
<1>5. PICK m \in S : t = 0 - m
  OBVIOUS
<1>6. \A i \in S : 0 - i <= 0 - m
  BY <1>4, <1>5
<1> QED BY <1>1, <1>5, <1>6

\* The newest of some rows: they are of these, the last is among them, and with a row
\* all that are newer.
LEMMA NewestAreOf ==
  ASSUME NEW S, S \subseteq Int, IsFiniteSet(S), NEW n \in Nat \ {0}
  PROVE  /\ NewestOf(S, n) \subseteq S
         /\ \A m \in S : (\A i \in S : i <= m) => m \in NewestOf(S, n)
         /\ \A i \in NewestOf(S, n), j \in S : i <= j => j \in NewestOf(S, n)
<1> \A j \in S : j \in Int
  OBVIOUS
<1>1. NewestOf(S, n) \subseteq S
  BY DEF NewestOf
<1>2. ASSUME NEW m \in S, \A i \in S : i <= m PROVE m \in NewestOf(S, n)
  <2> DEFINE P == {j \in S : j >= m}
  <2>1. P = {m}
    <3>1. ASSUME NEW j \in S, j >= m PROVE j = m
      <4>1. j \in Int /\ m \in Int /\ j <= m
        BY <1>2
      <4> QED BY <3>1, <4>1
    <3>2. m >= m
      <4>1. m \in Int
        OBVIOUS
      <4> QED BY <4>1
    <3> QED BY <3>1, <3>2
  <2>2. Cardinality(P) <= n
    <3> HIDE DEF P
    <3> QED BY <2>1, FS_Singleton
  <2>3. NewestOf(S, n) = {i \in S : Cardinality({j \in S : j >= i}) <= n}
    BY DEF NewestOf
  <2> QED BY <2>2, <2>3
<1>3. ASSUME NEW i \in NewestOf(S, n), NEW j \in S, i <= j PROVE j \in NewestOf(S, n)
  <2> DEFINE P == {k \in S : k >= i}
             Q == {k \in S : k >= j}
  <2>1. i \in S /\ Cardinality(P) <= n
    BY DEF NewestOf
  <2>2. Q \subseteq P
    <3>1. ASSUME NEW k \in S, k >= j PROVE k >= i
      <4>1. k \in Int /\ j \in Int /\ i \in Int
        BY <2>1
      <4> QED BY <1>3, <3>1, <4>1
    <3> QED BY <3>1
  <2>3. IsFiniteSet(P)
    BY FS_Subset
  <2> HIDE DEF P, Q
  <2>4. IsFiniteSet(Q) /\ Cardinality(Q) <= Cardinality(P)
    BY <2>2, <2>3, FS_Subset
  <2>5. Cardinality(P) \in Nat /\ Cardinality(Q) \in Nat
    BY <2>3, <2>4, FS_CardinalityType
  <2>6. Cardinality(Q) <= n
    BY <2>1, <2>4, <2>5
  <2>7. NewestOf(S, n) = {k \in S : Cardinality({l \in S : l >= k}) <= n}
    BY DEF NewestOf
  <2> QED BY <2>6, <2>7 DEF Q
<1> QED BY <1>1, <1>2, <1>3

Happenings == {"MESSAGE", "ACTIVITY", "PIPELINE", "SALE", "FULFILLMENT", "RENEWAL"}
SaleStates == {"none", "DRAFT", "CONFIRMED", "CANCELLED"}
ChatRow == [log : Seq(Happenings), last : Nat, unread : Nat, renewals : BOOLEAN, trials : Nat, loose : SaleStates]
TalkRow == [stage : {"none", "OPEN", "WON", "LOST"}, archived : BOOLEAN, planned : SUBSET {"none", "OPEN", "WON", "LOST"}, sale : SaleStates]
MessagesIn(log) == {i \in DOMAIN log : log[i] = "MESSAGE"}

\* A conversation has counted its messages, and has one when it was ever dated; what
\* was planned for an opportunity while it was open waits only as long as it is.
ChatFits(row) == row.unread = Cardinality(MessagesIn(row.log)) /\ (row.last # 0 => row.unread > 0)
PlanFits(row) == "OPEN" \in row.planned => row.stage = "OPEN"
InboxInv ==
  /\ chat \in [Chats -> ChatRow] /\ talk \in [Talks -> TalkRow] /\ recent \in Seq(Talks)
  /\ \A c \in Chats : ChatFits(chat[c])
  /\ \A d \in Talks : PlanFits(talk[d])

LEMMA MessagesFinite ==
  ASSUME NEW log \in Seq(Happenings)
  PROVE  IsFiniteSet(MessagesIn(log)) /\ MessagesIn(log) \subseteq 1 .. Len(log)
<1>1. MessagesIn(log) \subseteq 1 .. Len(log)
  BY DEF MessagesIn
<1>2. IsFiniteSet(1 .. Len(log))
  BY FS_Interval
<1> QED BY <1>1, <1>2, FS_Subset

\* What is recorded at the end adds no message.
LEMMA RecordedAddsNone ==
  ASSUME NEW log \in Seq(Happenings), NEW more \in Seq(Happenings \ {"MESSAGE"})
  PROVE  log \o more \in Seq(Happenings) /\ MessagesIn(log \o more) = MessagesIn(log)
<1>1. more \in Seq(Happenings)
  OBVIOUS
<1>2. log \o more \in Seq(Happenings) /\ Len(log \o more) = Len(log) + Len(more)
      /\ \A i \in 1 .. Len(log \o more) :
           (log \o more)[i] = IF i <= Len(log) THEN log[i] ELSE more[i - Len(log)]
  BY <1>1
<1>3. \A i \in 1 .. Len(more) : more[i] # "MESSAGE"
  OBVIOUS
<1> QED BY <1>2, <1>3 DEF MessagesIn

\* A row recorded alone.
LEMMA AppendIsConcat ==
  ASSUME NEW X, NEW s \in Seq(X), NEW e
  PROVE  Append(s, e) = s \o <<e>>
OBVIOUS

LEMMA Inserted ==
  ASSUME NEW X, NEW s \in Seq(X), NEW at \in 1 .. Len(s) + 1, NEW e \in X
  PROVE  /\ InsertAt(s, at, e) \in Seq(X) /\ Len(InsertAt(s, at, e)) = Len(s) + 1
         /\ \A i \in 1 .. Len(s) + 1 :
              InsertAt(s, at, e)[i] = IF i < at THEN s[i] ELSE IF i = at THEN e ELSE s[i - 1]
<1> DEFINE a == SubSeq(s, 1, at - 1)
           b == SubSeq(s, at, Len(s))
           n == Len(s)
<1>1. n \in Nat /\ at \in Nat /\ at >= 1 /\ at <= n + 1 /\ n = Len(s)
  OBVIOUS
<1>2. a \in Seq(X) /\ Len(a) = at - 1 /\ \A i \in 1 .. at - 1 : a[i] = s[i]
  BY <1>1
<1>3. b \in Seq(X) /\ Len(b) = n - at + 1 /\ \A i \in 1 .. n - at + 1 : b[i] = s[at + i - 1]
  BY <1>1
<1> DEFINE c == a \o <<e>>
<1> HIDE DEF a, b, n
<1>4. c \in Seq(X) /\ Len(c) = at /\ c[at] = e /\ \A i \in 1 .. at - 1 : c[i] = s[i]
  BY <1>1, <1>2
<1> HIDE DEF c
<1>5. c \o b \in Seq(X) /\ Len(c \o b) = n + 1
      /\ \A i \in 1 .. n + 1 : (c \o b)[i] = IF i <= at THEN c[i] ELSE b[i - at]
  BY <1>1, <1>3, <1>4
<1>6. \A i \in 1 .. n + 1 : i > at => b[i - at] = s[i - 1]
  <2> TAKE i \in 1 .. n + 1
  <2> SUFFICES ASSUME i > at PROVE b[i - at] = s[i - 1]
    OBVIOUS
  <2>1. i - at \in 1 .. n - at + 1 /\ at + (i - at) - 1 = i - 1
    BY <1>1
  <2> QED BY <1>3, <2>1
<1>7. InsertAt(s, at, e) = c \o b
  BY DEF InsertAt, a, b, c
<1>8. \A i \in 1 .. n + 1 : (c \o b)[i] = IF i < at THEN s[i] ELSE IF i = at THEN e ELSE s[i - 1]
  BY <1>1, <1>4, <1>5, <1>6
<1> QED BY <1>1, <1>5, <1>7, <1>8

\* A message that is found late enters where it belongs: one more than there were.
LEMMA StoredAddsOne ==
  ASSUME NEW log \in Seq(Happenings), NEW at \in 1 .. Len(log) + 1
  PROVE  LET new == InsertAt(InsertAt(log, at, "ACTIVITY"), at, "MESSAGE")
         IN new \in Seq(Happenings) /\ Cardinality(MessagesIn(new)) = Cardinality(MessagesIn(log)) + 1
<1> DEFINE one == InsertAt(log, at, "ACTIVITY")
           new == InsertAt(one, at, "MESSAGE")
<1>1. /\ one \in Seq(Happenings) /\ Len(one) = Len(log) + 1
      /\ \A i \in 1 .. Len(one) : one[i] = IF i < at THEN log[i] ELSE IF i = at THEN "ACTIVITY" ELSE log[i - 1]
  BY Inserted DEF Happenings
<1> HIDE DEF one
<1>2. /\ new \in Seq(Happenings) /\ Len(new) = Len(log) + 2
      /\ \A i \in 1 .. Len(new) : new[i] = IF i < at THEN one[i] ELSE IF i = at THEN "MESSAGE" ELSE one[i - 1]
  <2>1. at \in 1 .. Len(one) + 1 /\ "MESSAGE" \in Happenings
    BY <1>1 DEF Happenings
  <2>2. /\ new \in Seq(Happenings) /\ Len(new) = Len(one) + 1
        /\ \A i \in 1 .. Len(one) + 1 : new[i] = IF i < at THEN one[i] ELSE IF i = at THEN "MESSAGE" ELSE one[i - 1]
    <3> HIDE DEF Happenings
    <3>1. one \in Seq(Happenings) /\ at \in 1 .. Len(one) + 1 /\ "MESSAGE" \in Happenings
      BY <1>1, <2>1
    <3> QED BY <3>1, Inserted
  <2> QED BY <1>1, <2>2
<1> HIDE DEF new
<1>3. \A i \in 1 .. Len(new) :
        new[i] = IF i < at THEN log[i] ELSE IF i = at THEN "MESSAGE" ELSE IF i = at + 1 THEN "ACTIVITY" ELSE log[i - 2]
  BY <1>1, <1>2
<1> DEFINE S == MessagesIn(log)
           T == MessagesIn(new) \ {at}
           f == [i \in S |-> IF i < at THEN i ELSE i + 2]
<1>4. IsFiniteSet(S) /\ S \subseteq 1 .. Len(log)
  BY MessagesFinite
<1>5. \A i \in S : f[i] \in T
  BY <1>2, <1>3, <1>4 DEF MessagesIn
<1>6. \A i, j \in S : f[i] = f[j] => i = j
  BY <1>4
<1>7. ASSUME NEW t \in T PROVE \E i \in S : f[i] = t
  <2>1. t \in 1 .. Len(new) /\ t # at /\ t # at + 1 /\ new[t] = "MESSAGE"
    BY <1>2, <1>3 DEF MessagesIn
  <2>2. CASE t < at
    <3>1. t \in S
      BY <1>3, <2>1, <2>2 DEF MessagesIn
    <3> QED BY <2>2, <3>1
  <2>3. CASE t > at + 1
    <3>1. t - 2 \in S /\ ~(t - 2 < at) /\ (t - 2) + 2 = t
      BY <1>2, <1>3, <2>1, <2>3 DEF MessagesIn
    <3>2. f[t - 2] = t
      BY <3>1
    <3> QED BY <3>1, <3>2
  <2> QED BY <2>1, <2>2, <2>3
<1>8. ExistsBijection(S, T)
  <2>1. f \in Bijection(S, T)
    <3> HIDE DEF S, T
    <3>1. f \in [S -> T]
      BY <1>5
    <3> HIDE DEF f
    <3> QED BY <1>6, <1>7, <3>1 DEF Bijection, Injection, Surjection, IsInjective
  <2> QED BY <2>1 DEF ExistsBijection
<1>9. IsFiniteSet(T) /\ Cardinality(T) = Cardinality(S)
  BY <1>4, <1>8, FS_Bijection
<1>10. at \in MessagesIn(new)
  BY <1>2, <1>3 DEF MessagesIn
<1>11. MessagesIn(new) = T \cup {at} /\ at \notin T
  BY <1>10
<1>12. Cardinality(MessagesIn(new)) = Cardinality(S) + 1
  <2> HIDE DEF T, S
  <2> QED BY <1>9, <1>11, FS_AddElement
<1> QED BY <1>2, <1>12 DEF new, one

----------------------------------------------------------------------------
LEMMA ConversationShows ==
  ASSUME InboxInv, NEW c \in Conversations
  PROVE  /\ c \in Chats /\ chat[c].unread > 0
         /\ chat[c].log \in Seq(Happenings)
         /\ chat[c].unread = Cardinality(RowsOf(c, {"MESSAGE"}))
         /\ RowsOf(c, {"MESSAGE"}) # {}
<1>1. c \in Chats /\ chat[c] \in ChatRow /\ ChatFits(chat[c]) /\ chat[c].last # 0
  BY DEF Conversations, InboxInv
<1>2. chat[c].log \in Seq(Happenings) /\ chat[c].unread > 0
  BY <1>1 DEF ChatRow, ChatFits
<1>3. RowsOf(c, {"MESSAGE"}) = MessagesIn(chat[c].log)
  BY DEF RowsOf, MessagesIn
<1>4. chat[c].unread = Cardinality(RowsOf(c, {"MESSAGE"}))
  BY <1>1, <1>3 DEF ChatFits
<1>5. Cardinality({}) = 0
  BY FS_EmptySet
<1> QED BY <1>1, <1>2, <1>4, <1>5

\* Rows of any kinds are finitely many.
LEMMA RowsFinite ==
  ASSUME NEW c \in Chats, chat[c].log \in Seq(Happenings), NEW kinds
  PROVE  IsFiniteSet(RowsOf(c, kinds)) /\ RowsOf(c, kinds) \subseteq Int /\ RowsOf(c, kinds) \subseteq 1 .. Len(chat[c].log)
<1>1. RowsOf(c, kinds) \subseteq 1 .. Len(chat[c].log)
  BY DEF RowsOf
<1>2. IsFiniteSet(1 .. Len(chat[c].log))
  BY FS_Interval
<1>3. \A i \in RowsOf(c, kinds) : i \in Int
  BY <1>1
<1> QED BY <1>1, <1>2, <1>3, FS_Subset

\* Bounds of the timeline are numbers above none.
LEMMA Bounds == Many \in Nat \ {0} /\ Few \in Nat \ {0} /\ Cut \in Nat \ {0}
  BY SmartInboxAssumption DEF SmartInboxAssumption

\* How many rows a query of one kind takes.
Upto(kind) == IF kind \in {"MESSAGE", "ACTIVITY", "PIPELINE"} THEN Many ELSE Few

LEMMA TakenOfKinds ==
  ASSUME NEW c \in Chats
  PROVE  \A i : i \in Taken(c) <=> \E kind \in Happenings : i \in NewestOf(RowsOf(c, {kind}), Upto(kind))
<1> DEFINE Main == {"MESSAGE", "ACTIVITY", "PIPELINE"}
           Rest == {"SALE", "FULFILLMENT", "RENEWAL"}
           U == UNION {NewestOf(RowsOf(c, {kind}), Many) : kind \in Main}
           V == UNION {NewestOf(RowsOf(c, {kind}), Few) : kind \in Rest}
<1>1. Taken(c) = U \cup V
  BY DEF Taken
<1>2. Happenings = Main \cup Rest
  BY DEF Happenings
<1>3. (\A kind \in Main : Upto(kind) = Many) /\ (\A kind \in Rest : Upto(kind) = Few)
  BY DEF Upto
<1> HIDE DEF Main, Rest
<1>4. \A i : i \in U <=> \E kind \in Main : i \in NewestOf(RowsOf(c, {kind}), Many)
  OBVIOUS
<1>5. \A i : i \in V <=> \E kind \in Rest : i \in NewestOf(RowsOf(c, {kind}), Few)
  OBVIOUS
<1> HIDE DEF U, V
<1> QED BY <1>1, <1>2, <1>3, <1>4, <1>5

\* The timeline has what happened last, and no hole among the rows of a kind.
LEMMA TimelineWhole ==
  ASSUME InboxInv, NEW c \in Conversations
  PROVE  /\ Len(chat[c].log) \in timeline(c)
         /\ \A i \in timeline(c), j \in DOMAIN chat[c].log :
              chat[c].log[i] = chat[c].log[j] /\ i < j => j \in timeline(c)
<1> DEFINE log == chat[c].log
           Of(kind) == NewestOf(RowsOf(c, {kind}), Upto(kind))
<1>1. c \in Chats /\ log \in Seq(Happenings) /\ RowsOf(c, {"MESSAGE"}) # {}
  BY ConversationShows
<1>2. \A kind : IsFiniteSet(RowsOf(c, {kind})) /\ RowsOf(c, {kind}) \subseteq Int /\ RowsOf(c, {kind}) \subseteq 1 .. Len(log)
  BY <1>1, RowsFinite
<1>3. \A kind : Upto(kind) \in Nat \ {0}
  BY Bounds DEF Upto
<1>4. \A kind : /\ Of(kind) \subseteq RowsOf(c, {kind})
                /\ \A m \in RowsOf(c, {kind}) : (\A i \in RowsOf(c, {kind}) : i <= m) => m \in Of(kind)
                /\ \A i \in Of(kind), j \in RowsOf(c, {kind}) : i <= j => j \in Of(kind)
  BY <1>2, <1>3, NewestAreOf
<1>5. \A i : i \in Taken(c) <=> \E kind \in Happenings : i \in Of(kind)
  BY <1>1, TakenOfKinds
<1>6. Taken(c) \subseteq 1 .. Len(log)
  BY <1>2, <1>4, <1>5
<1>7. IsFiniteSet(Taken(c)) /\ Taken(c) \subseteq Int
  <2>1. IsFiniteSet(1 .. Len(log))
    BY <1>1, FS_Interval
  <2>2. \A i \in 1 .. Len(log) : i \in Int
    OBVIOUS
  <2> QED BY <1>6, <2>1, <2>2, FS_Subset
<1>8. /\ timeline(c) \subseteq Taken(c)
      /\ \A m \in Taken(c) : (\A i \in Taken(c) : i <= m) => m \in timeline(c)
      /\ \A i \in timeline(c), j \in Taken(c) : i <= j => j \in timeline(c)
  BY <1>7, Bounds, NewestAreOf DEF timeline
<1>9. Len(log) \in Nat /\ Len(log) \in 1 .. Len(log) /\ log[Len(log)] \in Happenings
  <2>1. 1 .. Len(log) # {}
    BY <1>1, <1>2
  <2> QED BY <1>1, <2>1
<1>10. \A i \in DOMAIN log : i \in RowsOf(c, {log[i]}) /\ log[i] \in Happenings
  BY <1>1 DEF RowsOf
<1>11. \A kind : \A i \in RowsOf(c, {kind}) : log[i] = kind
  BY DEF RowsOf
<1> HIDE DEF Of, log
<1>12. Len(log) \in Taken(c)
  <2>1. Len(log) \in DOMAIN log
    BY <1>1, <1>9 DEF log
  <2>2. \A i \in RowsOf(c, {log[Len(log)]}) : i <= Len(log)
    <3> TAKE i \in RowsOf(c, {log[Len(log)]})
    <3>1. i \in 1 .. Len(log)
      BY <1>2
    <3> QED BY <1>9, <3>1
  <2>3. Len(log) \in Of(log[Len(log)])
    BY <1>4, <1>10, <2>1, <2>2
  <2> QED BY <1>5, <1>9, <2>3
<1>13. Len(log) \in timeline(c)
  <2>1. \A i \in Taken(c) : i <= Len(log)
    <3> TAKE i \in Taken(c)
    <3>1. i \in 1 .. Len(log)
      BY <1>6
    <3> QED BY <1>9, <3>1
  <2> QED BY <1>8, <1>12, <2>1
<1>14. ASSUME NEW i \in timeline(c), NEW j \in DOMAIN log, log[i] = log[j], i < j
       PROVE  j \in timeline(c)
  <2>1. PICK kind \in Happenings : i \in Of(kind)
    BY <1>5, <1>8
  <2>2. log[j] = kind
    BY <1>4, <1>11, <1>14, <2>1
  <2>3. j \in RowsOf(c, {kind})
    BY <1>10, <2>2
  <2>4. i \in Int /\ j \in Int
    BY <1>2, <1>7, <1>8, <2>3
  <2>5. i <= j
    BY <1>14, <2>4
  <2>6. j \in Of(kind)
    BY <1>4, <2>1, <2>3, <2>5
  <2>7. j \in Taken(c)
    BY <1>5, <2>6
  <2> QED BY <1>8, <2>5, <2>7
<1> QED BY <1>13, <1>14 DEF log

\* A set of opportunities among those updated has a last one, and one only.
LEMMA LastOfWhole ==
  ASSUME recent \in Seq(Talks), NEW ds, NEW es, ds \subseteq es
  PROVE  LastOf(ds) = LastOf(es) \/ \E d \in LastOf(es) : d \in es \ ds
<1> DEFINE Spots(S) == {j \in DOMAIN recent : recent[j] \in S}
           Lasts(S) == {j \in Spots(S) : \A k \in Spots(S) : k <= j}
<1>1. \A S : LastOf(S) = {recent[i] : i \in Lasts(S)}
  <2> TAKE S
  <2>1. Lasts(S) = {j \in DOMAIN recent : recent[j] \in S /\ \A k \in DOMAIN recent : recent[k] \in S => k <= j}
    OBVIOUS
  <2> QED BY <2>1 DEF LastOf
<1>2. \A S : Spots(S) \subseteq 1 .. Len(recent) /\ IsFiniteSet(Spots(S)) /\ Spots(S) \subseteq Int
  <2> TAKE S
  <2>1. Spots(S) \subseteq 1 .. Len(recent)
    OBVIOUS
  <2>2. IsFiniteSet(1 .. Len(recent)) /\ \A i \in 1 .. Len(recent) : i \in Int
    BY FS_Interval
  <2> HIDE DEF Spots
  <2> QED BY <2>1, <2>2, FS_Subset
<1>3. CASE Spots(es) = {}
  <2>1. Lasts(es) = {} /\ Lasts(ds) = {}
    BY <1>3
  <2> QED BY <1>1, <2>1
<1>4. CASE Spots(es) # {}
  <2>1. PICK m \in Spots(es) : \A i \in Spots(es) : i <= m
    <3> HIDE DEF Spots
    <3> QED BY <1>2, <1>4, LastExists
  <2>2. Lasts(es) = {m}
    <3>1. ASSUME NEW j \in Lasts(es) PROVE j = m
      <4>1. j <= m /\ m <= j
        BY <2>1, <3>1
      <4>2. j \in Int /\ m \in Int
        <5> HIDE DEF Spots
        <5> QED BY <1>2
      <4> QED BY <4>1, <4>2
    <3> QED BY <2>1, <3>1
  <2>3. LastOf(es) = {recent[m]}
    <3> HIDE DEF Lasts
    <3> QED BY <1>1, <2>2
  <2>4. CASE recent[m] \in ds
    <3>1. m \in Spots(ds) /\ Spots(ds) \subseteq Spots(es)
      BY <2>1, <2>4
    <3>2. Lasts(ds) = {m}
      <4>1. ASSUME NEW j \in Lasts(ds) PROVE j = m
        <5>1. j <= m /\ m <= j
          BY <2>1, <3>1, <4>1
        <5>2. j \in Int /\ m \in Int
          <6> HIDE DEF Spots
          <6> QED BY <1>2, <3>1
        <5> QED BY <5>1, <5>2
      <4> QED BY <2>1, <3>1, <4>1
    <3>3. LastOf(ds) = {recent[m]}
      <4> HIDE DEF Lasts
      <4> QED BY <1>1, <3>2
    <3> QED BY <2>3, <3>3
  <2>5. CASE recent[m] \notin ds
    <3>1. recent[m] \in es
      BY <2>1
    <3> QED BY <2>3, <2>5, <3>1
  <2> QED BY <2>4, <2>5
<1> QED BY <1>3, <1>4

LEMMA InboxShows == InboxInv => InboxKeepsInSight
<1> SUFFICES ASSUME InboxInv PROVE InboxKeepsInSight
  OBVIOUS
<1>1. \A v \in DOMAIN viewCounts \ {"RENEWALS"} : viewCounts[v] = Cardinality(buildWhere(v))
  <2>1. DOMAIN viewCounts = {"INBOX", "UNASSIGNED", "MINE", "CLOSED", "ARCHIVED", "PENDING", "RENEWALS"}
    BY DEF viewCounts
  <2>2. Cardinality({}) = 0
    BY FS_EmptySet
  <2>3. viewCounts["INBOX"] = Cardinality(buildWhere("INBOX"))
    <3>1. buildWhere("INBOX") = Conversations
      BY DEF buildWhere
    <3> QED BY <3>1 DEF viewCounts
  <2>4. viewCounts["UNASSIGNED"] = Cardinality(buildWhere("UNASSIGNED"))
    <3>1. buildWhere("UNASSIGNED") = Conversations
      BY DEF buildWhere
    <3> QED BY <3>1 DEF viewCounts
  <2>5. viewCounts["PENDING"] = Cardinality(buildWhere("PENDING"))
    <3>1. buildWhere("PENDING") = {c \in Conversations : HasPending(c)}
      BY DEF buildWhere
    <3> QED BY <3>1 DEF viewCounts
  <2>6. \A v \in {"MINE", "CLOSED", "ARCHIVED"} : viewCounts[v] = Cardinality(buildWhere(v))
    <3>1. \A v \in {"MINE", "CLOSED", "ARCHIVED"} : buildWhere(v) = {}
      BY DEF buildWhere
    <3>2. \A v \in {"MINE", "CLOSED", "ARCHIVED"} : viewCounts[v] = 0
      BY DEF viewCounts
    <3> QED BY <2>2, <3>1, <3>2
  <2> QED BY <2>1, <2>3, <2>4, <2>5, <2>6
<1>2. ASSUME NEW c \in Conversations
      PROVE  LET panel == detail(c)
                 shown == shownOpportunity(c)
             IN /\ c \in filtered("INBOX", "unread")
                /\ panel.conversation.unreadCount = panel.stats.messageCount
                /\ panel.conversation.lastMessage # {}
                /\ c \in filtered("INBOX", "pending") => panel.followUps # {}
                /\ \A d \in panel.followUps : "OPEN" \in talk[d].planned => talk[d].stage = "OPEN"
                /\ activeOpportunity(c) = shown \/ \E d \in shown : talk[d].archived
                /\ c \in filtered("INBOX", "sale") => panel.conversation.sold
                /\ Len(chat[c].log) \in panel.timeline
                /\ \A i \in panel.timeline, j \in DOMAIN chat[c].log :
                     chat[c].log[i] = chat[c].log[j] /\ i < j => j \in panel.timeline
  <2> DEFINE panel == detail(c)
             shown == shownOpportunity(c)
  <2>1. /\ panel.conversation.unreadCount = chat[c].unread
        /\ panel.conversation.lastMessage = NewestOf(RowsOf(c, {"MESSAGE"}), 1)
        /\ panel.conversation.sold = (SalesOf(c) # {})
        /\ panel.stats.messageCount = Cardinality(RowsOf(c, {"MESSAGE"}))
        /\ panel.followUps = {d \in TalksOf(c) : talk[d].planned # {}}
        /\ panel.timeline = timeline(c)
    BY DEF detail, mapConversation, responseStats
  <2> HIDE DEF panel
  <2>2. c \in Chats /\ chat[c].unread > 0 /\ chat[c].log \in Seq(Happenings)
        /\ chat[c].unread = Cardinality(RowsOf(c, {"MESSAGE"})) /\ RowsOf(c, {"MESSAGE"}) # {}
    BY ConversationShows
  <2>3. c \in filtered("INBOX", "unread")
    BY <2>2 DEF filtered, buildWhere
  <2>4. panel.conversation.lastMessage # {}
    <3> DEFINE S == RowsOf(c, {"MESSAGE"})
    <3>1. IsFiniteSet(S) /\ S \subseteq Int /\ S # {}
      BY <2>2, RowsFinite
    <3> HIDE DEF S
    <3>2. PICK m \in S : \A i \in S : i <= m
      BY <3>1, LastExists
    <3>3. 1 \in Nat \ {0}
      OBVIOUS
    <3>4. m \in NewestOf(S, 1)
      BY <3>1, <3>2, <3>3, NewestAreOf
    <3> QED BY <2>1, <3>4 DEF S
  <2>5. c \in filtered("INBOX", "pending") => panel.followUps # {}
    BY <2>1 DEF filtered, HasPending
  <2>6. \A d \in panel.followUps : "OPEN" \in talk[d].planned => talk[d].stage = "OPEN"
    BY <2>1 DEF InboxInv, TalksOf, PlanFits
  <2>7. activeOpportunity(c) = shown \/ \E d \in shown : talk[d].archived
    <3> DEFINE es == TalksOf(c)
               ds == {d \in TalksOf(c) : ~talk[d].archived}
    <3>1. recent \in Seq(Talks) /\ ds \subseteq es /\ \A d \in es \ ds : talk[d].archived
      BY DEF InboxInv
    <3>2. activeOpportunity(c) = LastOf(ds) /\ shown = LastOf(es)
      BY DEF activeOpportunity, shownOpportunity
    <3> HIDE DEF es, ds, shown
    <3> QED BY <3>1, <3>2, LastOfWhole
  <2>8. c \in filtered("INBOX", "sale") => panel.conversation.sold
    BY <2>1 DEF filtered
  <2>9. /\ Len(chat[c].log) \in panel.timeline
        /\ \A i \in panel.timeline, j \in DOMAIN chat[c].log :
             chat[c].log[i] = chat[c].log[j] /\ i < j => j \in panel.timeline
    BY <2>1, TimelineWhole
  <2> HIDE DEF shown
  <2>10. panel.conversation.unreadCount = panel.stats.messageCount
    BY <2>1, <2>2
  <2> QED BY <2>3, <2>4, <2>5, <2>6, <2>7, <2>8, <2>9, <2>10 DEF panel, shown
<1> QED BY <1>1, <1>2 DEF InboxKeepsInSight

----------------------------------------------------------------------------
\* The rows of a conversation after a step that records other things than messages.
LEMMA RowRecords ==
  ASSUME NEW row \in ChatRow, ChatFits(row), NEW more \in Seq(Happenings \ {"MESSAGE"}),
         NEW new, new \in ChatRow, new.log = row.log \o more, new.last = row.last, new.unread = row.unread
  PROVE  ChatFits(new)
<1>1. MessagesIn(new.log) = MessagesIn(row.log)
  BY RecordedAddsNone DEF ChatRow
<1> QED BY <1>1 DEF ChatFits

LEMMA TouchedType ==
  ASSUME NEW d \in Talks, recent \in Seq(Talks)
  PROVE  Touched(d) \in Seq(Talks)
<1> DEFINE I == {i \in 1 .. Len(recent) : recent[i] = d}
<1>1. CASE I = {}
  <2>1. RemoveFirst(recent, d) = recent
    BY <1>1 DEF RemoveFirst
  <2> QED BY <2>1 DEF Touched
<1>2. CASE I # {}
  <2>1. PICK m \in I : \A i \in I : m <= i
    <3>1. I \subseteq 1 .. Len(recent) /\ Len(recent) \in Nat
      OBVIOUS
    <3> HIDE DEF I
    <3> QED BY <1>2, <3>1, FirstExists
  <2>2. SelectInSeq(recent, LAMBDA v : v = d) = Min(I)
    BY <1>2 DEF SelectInSeq
  <2>3. Min(I) \in I
    BY <2>1 DEF Min
  <2>4. RemoveFirst(recent, d) = RemoveAt(recent, Min(I))
    BY <1>2, <2>2 DEF RemoveFirst
  <2>5. ASSUME NEW i \in 1 .. Len(recent) PROVE RemoveAt(recent, i) \in Seq(Talks)
    <3>1. SubSeq(recent, 1, i - 1) \in Seq(Talks)
      OBVIOUS
    <3>2. SubSeq(recent, i + 1, Len(recent)) \in Seq(Talks)
      OBVIOUS
    <3> QED BY <3>1, <3>2 DEF RemoveAt
  <2> QED BY <2>3, <2>4, <2>5 DEF Touched
<1> QED BY <1>1, <1>2

\* A step that writes one row of a contact, and leaves it fitting.
LEMMA ChatKept ==
  ASSUME InboxInv, NEW c \in Chats, NEW new \in ChatRow, ChatFits(new), chat' = [chat EXCEPT ![c] = new]
  PROVE  chat' \in [Chats -> ChatRow] /\ \A e \in Chats : ChatFits(chat'[e])
BY DEF InboxInv

LEMMA InboxStart == SmartInboxInit => InboxInv
<1> SUFFICES ASSUME SmartInboxInit PROVE InboxInv
  OBVIOUS
<1>1. MessagesIn(<<>>) = {} /\ Cardinality({}) = 0
  BY FS_EmptySet DEF MessagesIn
<1>2. NewChat \in ChatRow /\ ChatFits(NewChat)
  <2>1. NewChat.log = <<>> /\ NewChat.unread = 0 /\ NewChat.last = 0
    BY DEF NewChat
  <2>2. <<>> \in Seq(Happenings)
    OBVIOUS
  <2>3. NewChat \in ChatRow
    BY <2>2 DEF NewChat, ChatRow, SaleStates
  <2> QED BY <1>1, <2>1, <2>3 DEF ChatFits
<1>3. NoTalk \in TalkRow /\ PlanFits(NoTalk)
  BY DEF NoTalk, TalkRow, SaleStates, PlanFits
<1>4. <<>> \in Seq(Talks)
  OBVIOUS
<1>5. chat \in [Chats -> ChatRow] /\ \A c \in Chats : ChatFits(chat[c])
  BY <1>2 DEF SmartInboxInit
<1>6. talk \in [Talks -> TalkRow] /\ \A d \in Talks : PlanFits(talk[d])
  BY <1>3 DEF SmartInboxInit
<1> QED BY <1>4, <1>5, <1>6 DEF SmartInboxInit, InboxInv

\* A step that records adds no message.
LEMMA RecordedKeeps ==
  ASSUME InboxInv, NEW c \in Chats, NEW more \in Seq(Happenings \ {"MESSAGE"}), Recorded(c, more)
  PROVE  chat' \in [Chats -> ChatRow] /\ \A e \in Chats : ChatFits(chat'[e])
<1> DEFINE row == chat[c]
           new == [row EXCEPT !.log = @ \o more]
<1>1. row \in ChatRow /\ ChatFits(row)
  BY DEF InboxInv
<1>2. row.log \o more \in Seq(Happenings)
  BY <1>1, RecordedAddsNone DEF ChatRow
<1>3. new \in ChatRow /\ new.log = row.log \o more /\ new.last = row.last /\ new.unread = row.unread
  BY <1>1, <1>2 DEF ChatRow
<1>4. ChatFits(new)
  <2> HIDE DEF row, new
  <2> QED BY <1>1, <1>3, RowRecords
<1>5. chat' = [chat EXCEPT ![c] = new]
  BY DEF Recorded
<1> HIDE DEF new
<1> QED BY <1>3, <1>4, <1>5, ChatKept

LEMMA OtherWordsType ==
  /\ <<"ACTIVITY">> \in Seq(Happenings \ {"MESSAGE"})
  /\ <<"RENEWAL">> \in Seq(Happenings \ {"MESSAGE"})
  /\ <<"ACTIVITY", "PIPELINE">> \in Seq(Happenings \ {"MESSAGE"})
  /\ <<"PIPELINE", "ACTIVITY">> \in Seq(Happenings \ {"MESSAGE"})
  /\ <<"SALE", "ACTIVITY">> \in Seq(Happenings \ {"MESSAGE"})
  /\ <<"FULFILLMENT", "ACTIVITY">> \in Seq(Happenings \ {"MESSAGE"})
  /\ <<>> \in Seq(Happenings \ {"MESSAGE"})
BY DEF Happenings

LEMMA InboxKeeps == InboxInv /\ [InboxStep]_inboxVars => InboxInv'
<1> SUFFICES ASSUME InboxInv, [InboxStep]_inboxVars PROVE InboxInv'
  OBVIOUS
<1> USE OtherWordsType
<1>t. chat \in [Chats -> ChatRow] /\ talk \in [Talks -> TalkRow] /\ recent \in Seq(Talks)
  BY DEF InboxInv
<1>o. ChatOf \in [Talks -> Chats]
  BY SmartInboxAssumption DEF SmartInboxAssumption
<1>r. \A d \in Talks : Touched(d) \in Seq(Talks)
  BY <1>t, TouchedType
<1>f. \A d \in Talks : talk[d] \in TalkRow /\ PlanFits(talk[d])
  BY DEF InboxInv
<1>g. \A c \in Chats : chat[c] \in ChatRow /\ ChatFits(chat[c])
  BY DEF InboxInv
<1>w. \A d : d \in Talks => \A row \in TalkRow : PlanFits(row) /\ talk' = [talk EXCEPT ![d] = row]
        => talk' \in [Talks -> TalkRow] /\ \A e \in Talks : PlanFits(talk'[e])
  BY <1>t, <1>f
<1>n. \A c \in Chats : activeOpportunity(c) \subseteq TalksOf(c) /\ activeOpportunity(c) \subseteq Talks
  BY <1>t DEF activeOpportunity, LastOf, TalksOf
\* What leaves the opportunities alone.
<1>0. ASSUME NEW c \in Chats, NEW more \in Seq(Happenings \ {"MESSAGE"}), Recorded(c, more), UNCHANGED <<talk, recent>>
      PROVE  InboxInv'
  BY <1>0, RecordedKeeps DEF InboxInv
\* What records another word of a contact with a row of its own.
<1>9. ASSUME NEW c \in Chats, NEW more \in Seq(Happenings \ {"MESSAGE"}),
             NEW new \in ChatRow, new.log = chat[c].log \o more, new.last = chat[c].last, new.unread = chat[c].unread,
             chat' = [chat EXCEPT ![c] = new]
      PROVE  chat' \in [Chats -> ChatRow] /\ \A e \in Chats : ChatFits(chat'[e])
  <2>1. ChatFits(new)
    BY <1>g, <1>9, RowRecords
  <2> QED BY <1>9, <2>1, ChatKept
<1>1. ASSUME NEW c \in Chats, NEW at \in 1 .. LogEnd, StoreMessage(c, at) PROVE InboxInv'
  <2> DEFINE log == chat[c].log
             late == InsertAt(InsertAt(log, at, "ACTIVITY"), at, "MESSAGE")
             new == [chat[c] EXCEPT !.log = late, !.last = at, !.unread = @ + 1]
  <2>1. log \in Seq(Happenings) /\ at \in 1 .. Len(log) + 1
    BY <1>1, <1>g DEF StoreMessage, ChatRow
  <2>2. late \in Seq(Happenings) /\ Cardinality(MessagesIn(late)) = Cardinality(MessagesIn(log)) + 1
    BY <2>1, StoredAddsOne
  <2>3. chat' = [chat EXCEPT ![c] = new] /\ UNCHANGED <<talk, recent>>
    BY <1>1 DEF StoreMessage
  <2> HIDE DEF late
  <2>4. at \in Nat /\ at # 0
    BY <2>1
  <2>5. new \in ChatRow /\ new.log = late /\ new.last = at /\ new.unread = chat[c].unread + 1
    <3>1. chat[c] \in ChatRow /\ chat[c].unread + 1 \in Nat
      BY <1>g DEF ChatRow
    <3> QED BY <2>2, <2>4, <3>1 DEF ChatRow
  <2>6. ChatFits(new)
    BY <1>g, <2>2, <2>4, <2>5 DEF ChatFits, ChatRow
  <2> HIDE DEF new
  <2> QED BY <2>3, <2>5, <2>6, ChatKept DEF InboxInv
<1>2. ASSUME NEW c \in Chats, NEW due \in BOOLEAN, RenewalOf(c, due) PROVE InboxInv'
  <2> DEFINE more == IF due THEN <<"RENEWAL">> ELSE <<>>
             new == [chat[c] EXCEPT !.renewals = due, !.log = @ \o more]
  <2>1. more \in Seq(Happenings \ {"MESSAGE"}) /\ chat[c].log \o more \in Seq(Happenings)
    BY <1>g, RecordedAddsNone DEF ChatRow
  <2>2. chat' = [chat EXCEPT ![c] = new] /\ UNCHANGED <<talk, recent>>
    <3>1. chat[c].log \in Seq(Happenings)
      BY <1>g DEF ChatRow
    <3>2. (IF due THEN Append(chat[c].log, "RENEWAL") ELSE chat[c].log) = chat[c].log \o more
      <4>1. chat[c].log \o <<>> = chat[c].log
        BY <3>1
      <4>2. Append(chat[c].log, "RENEWAL") = chat[c].log \o <<"RENEWAL">>
        BY <3>1, AppendIsConcat
      <4>3. CASE due
        BY <4>2, <4>3
      <4>4. CASE ~due
        BY <4>1, <4>4
      <4> QED BY <4>3, <4>4
    <3>3. /\ chat' = [chat EXCEPT ![c].renewals = due, ![c].log = IF due THEN Append(@, "RENEWAL") ELSE @]
          /\ UNCHANGED <<talk, recent>>
      BY <1>2 DEF RenewalOf
    <3>4. chat' = [chat EXCEPT ![c] = [chat[c] EXCEPT !.renewals = due,
                                          !.log = IF due THEN Append(@, "RENEWAL") ELSE @]]
      BY <3>3
    <3> HIDE DEF more
    <3> QED BY <3>2, <3>3, <3>4
  <2> HIDE DEF more
  <2>3. new \in ChatRow /\ new.log = chat[c].log \o more /\ new.last = chat[c].last /\ new.unread = chat[c].unread
    BY <1>g, <2>1 DEF ChatRow
  <2> HIDE DEF new
  <2> QED BY <1>9, <2>1, <2>2, <2>3 DEF InboxInv
<1>3. ASSUME NEW c \in Chats, NEW status \in {"CONFIRMED", "CANCELLED"}, SettleLoose(c, status) PROVE InboxInv'
  <2> DEFINE more == <<"ACTIVITY">>
             new == [chat[c] EXCEPT !.loose = status, !.log = @ \o more]
  <2>1. chat[c].log \o more \in Seq(Happenings)
    BY <1>g, RecordedAddsNone DEF ChatRow
  <2>2. chat' = [chat EXCEPT ![c] = new] /\ UNCHANGED <<talk, recent>>
    <3>1. Append(chat[c].log, "ACTIVITY") = chat[c].log \o more
      BY <1>g, AppendIsConcat DEF ChatRow
    <3> HIDE DEF more
    <3> QED BY <1>3, <3>1 DEF SettleLoose
  <2>3. new \in ChatRow /\ new.log = chat[c].log \o more /\ new.last = chat[c].last /\ new.unread = chat[c].unread
    BY <1>g, <2>1 DEF ChatRow, SaleStates
  <2> HIDE DEF new
  <2> QED BY <1>9, <2>2, <2>3 DEF InboxInv
<1>4. ASSUME NEW c \in Chats, NEW stage \in {"OPEN", "WON", "LOST"}, movePipeline(c, stage) PROVE InboxInv'
  <2>1. PICK d \in activeOpportunity(c) :
          /\ Recorded(c, <<"PIPELINE", "ACTIVITY">>)
          /\ talk' = [talk EXCEPT ![d].stage = stage, ![d].planned = IF stage = "OPEN" THEN @ ELSE {}]
          /\ recent' = Touched(d)
    BY <1>4 DEF movePipeline
  <2> DEFINE row == [talk[d] EXCEPT !.stage = stage, !.planned = IF stage = "OPEN" THEN @ ELSE {}]
  <2>2. d \in Talks /\ talk[d] \in TalkRow
    BY <1>n, <1>f
  <2>3. row \in TalkRow /\ PlanFits(row) /\ talk' = [talk EXCEPT ![d] = row]
    <3>1. row \in TalkRow
      BY <2>2 DEF TalkRow
    <3>2. row.stage = stage /\ row.planned = IF stage = "OPEN" THEN talk[d].planned ELSE {}
      BY <2>2 DEF TalkRow
    <3>3. talk' = [talk EXCEPT ![d] = row]
      BY <2>1
    <3> HIDE DEF row
    <3> QED BY <3>1, <3>2, <3>3 DEF PlanFits
  <2> HIDE DEF row
  <2>4. talk' \in [Talks -> TalkRow] /\ \A e \in Talks : PlanFits(talk'[e])
    BY <1>w, <2>2, <2>3
  <2> QED BY <1>r, <2>1, <2>2, <2>4, RecordedKeeps DEF InboxInv
<1>5. ASSUME NEW c \in Chats, createSale(c) PROVE InboxInv'
  <2> DEFINE active == activeOpportunity(c)
             added == <<"SALE", "ACTIVITY">>
             new == [chat[c] EXCEPT !.log = @ \o added, !.loose = IF active = {} THEN "DRAFT" ELSE @]
  <2>1. chat[c].log \o added \in Seq(Happenings)
    BY <1>g, RecordedAddsNone DEF ChatRow
  <2>2. /\ chat' = [chat EXCEPT ![c] = new] /\ recent' = recent
        /\ talk' = [d \in Talks |-> IF d \in active THEN [talk[d] EXCEPT !.sale = "DRAFT"] ELSE talk[d]]
    BY <1>5, <1>g DEF createSale, ChatRow
  <2>3. new \in ChatRow /\ new.log = chat[c].log \o added /\ new.last = chat[c].last /\ new.unread = chat[c].unread
    BY <1>g, <2>1 DEF ChatRow, SaleStates
  <2> HIDE DEF new, active
  <2>4. talk' \in [Talks -> TalkRow] /\ \A e \in Talks : PlanFits(talk'[e])
    <3>1. \A d \in Talks : /\ [talk[d] EXCEPT !.sale = "DRAFT"] \in TalkRow
                           /\ [talk[d] EXCEPT !.sale = "DRAFT"].planned = talk[d].planned
                           /\ [talk[d] EXCEPT !.sale = "DRAFT"].stage = talk[d].stage
      BY <1>f DEF TalkRow, SaleStates
    <3> QED BY <1>f, <2>2, <3>1 DEF PlanFits
  <2>5. chat' \in [Chats -> ChatRow] /\ \A e \in Chats : ChatFits(chat'[e])
    BY <1>9, <2>2, <2>3
  <2> QED BY <1>t, <2>2, <2>4, <2>5 DEF InboxInv
<1>6. ASSUME NEW c \in Chats, scheduleFollowUp(c) PROVE InboxInv'
  <2>1. PICK d \in activeOpportunity(c) :
          /\ Recorded(c, <<"ACTIVITY">>)
          /\ talk' = [talk EXCEPT ![d].planned = @ \cup {talk[d].stage}] /\ recent' = recent
    BY <1>6 DEF scheduleFollowUp
  <2> DEFINE row == [talk[d] EXCEPT !.planned = @ \cup {talk[d].stage}]
  <2>2. d \in Talks /\ talk[d] \in TalkRow
    BY <1>n, <1>f
  <2>3. row \in TalkRow /\ PlanFits(row) /\ talk' = [talk EXCEPT ![d] = row]
    BY <1>f, <2>1, <2>2 DEF TalkRow, PlanFits
  <2> HIDE DEF row
  <2>4. talk' \in [Talks -> TalkRow] /\ \A e \in Talks : PlanFits(talk'[e])
    BY <1>w, <2>2, <2>3
  <2> QED BY <1>t, <2>1, <2>4, RecordedKeeps DEF InboxInv
<1>7. ASSUME NEW c \in Chats, addNote(c) \/ createFulfillment(c) \/ createTrial(c) PROVE InboxInv'
  <2>1. CASE addNote(c)
    BY <1>0, <2>1 DEF addNote
  <2>2. CASE createFulfillment(c)
    BY <1>0, <2>2 DEF createFulfillment
  <2>3. CASE createTrial(c)
    <3> DEFINE more == <<"ACTIVITY">>
               new == [chat[c] EXCEPT !.log = @ \o more, !.trials = @ + 1]
    <3>1. chat[c].log \o more \in Seq(Happenings)
      BY <1>g, RecordedAddsNone DEF ChatRow
    <3>2. chat' = [chat EXCEPT ![c] = new] /\ UNCHANGED <<talk, recent>>
      <4>1. Append(chat[c].log, "ACTIVITY") = chat[c].log \o more
        BY <1>g, AppendIsConcat DEF ChatRow
      <4> HIDE DEF more
      <4> QED BY <2>3, <4>1 DEF createTrial
    <3>3. new \in ChatRow /\ new.log = chat[c].log \o more /\ new.last = chat[c].last /\ new.unread = chat[c].unread
      <4>1. chat[c] \in ChatRow /\ chat[c].trials + 1 \in Nat
        BY <1>g DEF ChatRow
      <4> HIDE DEF more
      <4> QED BY <3>1, <4>1 DEF ChatRow
    <3> HIDE DEF new
    <3> QED BY <1>9, <3>2, <3>3 DEF InboxInv
  <2> QED BY <1>7, <2>1, <2>2, <2>3
<1>8. ASSUME NEW d \in Talks, OpenTalk(d) \/ ArchiveTalk(d) PROVE InboxInv'
  <2>1. CASE OpenTalk(d)
    <3> DEFINE row == [talk[d] EXCEPT !.stage = "OPEN"]
    <3>1. row \in TalkRow /\ PlanFits(row) /\ talk' = [talk EXCEPT ![d] = row]
      BY <1>f, <2>1 DEF TalkRow, OpenTalk, PlanFits
    <3> HIDE DEF row
    <3>2. talk' \in [Talks -> TalkRow] /\ \A e \in Talks : PlanFits(talk'[e])
      BY <1>w, <3>1
    <3> QED BY <1>o, <1>r, <2>1, <3>2, RecordedKeeps DEF InboxInv, OpenTalk
  <2>2. CASE ArchiveTalk(d)
    <3> DEFINE row == [talk[d] EXCEPT !.archived = TRUE]
    <3>1. row \in TalkRow /\ PlanFits(row) /\ talk' = [talk EXCEPT ![d] = row]
      BY <1>f, <2>2 DEF TalkRow, ArchiveTalk, PlanFits
    <3> HIDE DEF row
    <3>2. talk' \in [Talks -> TalkRow] /\ \A e \in Talks : PlanFits(talk'[e])
      BY <1>w, <3>1
    <3> QED BY <1>o, <1>r, <2>2, <3>2, RecordedKeeps DEF InboxInv, ArchiveTalk
  <2> QED BY <1>8, <2>1, <2>2
<1>10. ASSUME NEW d \in Talks, NEW status \in {"CONFIRMED", "CANCELLED"}, SettleSale(d, status) PROVE InboxInv'
  <2> DEFINE row == [talk[d] EXCEPT !.sale = status, !.stage = IF status = "CONFIRMED" THEN "WON" ELSE @,
                                    !.planned = IF status = "CANCELLED" \/ talk[d].stage = "WON" THEN @ ELSE {}]
  <2>1. row \in TalkRow /\ PlanFits(row) /\ talk' = [talk EXCEPT ![d] = row]
    <3>1. row \in TalkRow
      BY <1>f DEF TalkRow, SaleStates
    <3>2. /\ row.stage = IF status = "CONFIRMED" THEN "WON" ELSE talk[d].stage
          /\ row.planned = IF status = "CANCELLED" \/ talk[d].stage = "WON" THEN talk[d].planned ELSE {}
      BY <1>f DEF TalkRow
    <3>3. talk' = [talk EXCEPT ![d] = row]
      BY <1>10 DEF SettleSale
    <3> HIDE DEF row
    <3> QED BY <1>f, <3>1, <3>2, <3>3 DEF PlanFits
  <2> HIDE DEF row
  <2>2. talk' \in [Talks -> TalkRow] /\ \A e \in Talks : PlanFits(talk'[e])
    BY <1>w, <2>1
  <2>3. recent' \in Seq(Talks)
    <3>1. recent' = Touched(d) \/ recent' = recent
      BY <1>10 DEF SettleSale
    <3> QED BY <1>t, <1>r, <3>1
  <2>4. Recorded(ChatOf[d], <<"ACTIVITY", "PIPELINE">>) \/ Recorded(ChatOf[d], <<"ACTIVITY">>)
    <3> HIDE DEF row
    <3>1. CASE talk'[d].stage # talk[d].stage
      <4>1. (IF talk'[d].stage # talk[d].stage THEN <<"ACTIVITY", "PIPELINE">> ELSE <<"ACTIVITY">>) = <<"ACTIVITY", "PIPELINE">>
        BY <3>1
      <4> QED BY <1>10, <4>1 DEF SettleSale
    <3>2. CASE talk'[d].stage = talk[d].stage
      <4>1. (IF talk'[d].stage # talk[d].stage THEN <<"ACTIVITY", "PIPELINE">> ELSE <<"ACTIVITY">>) = <<"ACTIVITY">>
        BY <3>2
      <4> QED BY <1>10, <4>1 DEF SettleSale
    <3> QED BY <3>1, <3>2
  <2> QED BY <1>o, <2>2, <2>3, <2>4, RecordedKeeps DEF InboxInv
<1>11. CASE UNCHANGED inboxVars
  BY <1>11 DEF inboxVars, InboxInv
<1>12. Conversations \subseteq Chats
  BY DEF Conversations
<1>13. CASE InboxStep
  BY <1>13, <1>12, <1>1, <1>2, <1>3, <1>4, <1>5, <1>6, <1>7, <1>8, <1>10 DEF InboxStep
<1> QED BY <1>11, <1>13

\* Whatever comes in, however late, and whatever a seller does from the inbox: every
\* counter but that of the renewals is the length of its view, a conversation counts all
\* its messages and shows the newest, what is pending is in its panel and of an open
\* opportunity, and its timeline has what happened last and no hole in a kind (viewCounts,
\* buildWhere, detail, activeOpportunity and timeline of the service).
THEOREM InboxKeepsAll == SmartInboxSpec => []InboxKeepsInSight
BY InboxStart, InboxKeeps, InboxShows, PTL DEF SmartInboxSpec

----------------------------------------------------------------------------
(* The center adds up.                                                     *)

\* What has a date is due at one of the instants, and what was paid was so within the clock.
CenterInv ==
  /\ WorkTypes
  /\ now <= LastTick
  /\ \A c \in Cycles : /\ cycle[c].status # None => cycle[c].due \in Dues
                       /\ cycle[c].status = "PAID" => \E t \in 0 .. LastTick : cycle[c].paid = {t}

LEMMA CenterKept == CenterInv /\ [WorkListsNext]_workVars => CenterInv'
<1> SUFFICES ASSUME CenterInv, [WorkListsNext]_workVars PROVE CenterInv'
  OBVIOUS
<1>0. WorkTypes /\ WorkTypes'
  BY WorkTypesKept DEF CenterInv
<1>1. now' = now /\ cycle' = cycle => CenterInv'
  BY <1>0 DEF CenterInv
<1>2. CASE Pass
  BY <1>0, <1>2, WorkListsAssumption DEF Pass, CenterInv, WorkTypes, WorkListsAssumption
<1>3. ASSUME NEW c \in Cycles, NEW due \in Dues, OpenCycle(c, due) PROVE CenterInv'
  <2>1. cycle' = [cycle EXCEPT ![c] = [NoCycle EXCEPT !.status = "PENDING", !.due = due]] /\ now' = now
    BY <1>3 DEF OpenCycle
  <2> QED BY <1>0, <2>1 DEF CenterInv, NoCycle, WorkTypes, None
<1>4. ASSUME NEW c \in Cycles, NEW s \in {"DUE", "OVERDUE", "PAID", "CANCELLED"}, MoveCycle(c, s) PROVE CenterInv'
  <2>1. /\ cycle' = [cycle EXCEPT ![c] = [cycle[c] EXCEPT !.status = s, !.paid = IF s = "PAID" THEN {now} ELSE cycle[c].paid]]
        /\ now' = now /\ cycle[c].status # None
    BY <1>4 DEF MoveCycle, None
  <2>2. /\ cycle'[c].due = cycle[c].due /\ cycle'[c].status = s /\ (s = "PAID" => cycle'[c].paid = {now})
        /\ \A d \in Cycles : d # c => cycle'[d] = cycle[d]
    BY <1>0, <2>1 DEF WorkTypes, CycleRow
  <2>3. now \in 0 .. LastTick
    BY <1>0, WorkListsAssumption DEF WorkTypes, CenterInv, WorkListsAssumption
  <2> QED BY <1>0, <2>1, <2>2, <2>3 DEF CenterInv
<1>5. ASSUME NEW c \in Cycles, NEW w \in WholeCenter.works, PromiseCycle(c, w) PROVE CenterInv'
  <2>1. cycle' = [cycle EXCEPT ![c] = [cycle[c] EXCEPT !.work = w]] /\ now' = now
    BY <1>5 DEF PromiseCycle
  <2>2. /\ cycle'[c].due = cycle[c].due /\ cycle'[c].status = cycle[c].status /\ cycle'[c].paid = cycle[c].paid
        /\ \A d \in Cycles : d # c => cycle'[d] = cycle[d]
    BY <1>0, <2>1 DEF WorkTypes, CycleRow
  <2> QED BY <1>0, <2>1, <2>2 DEF CenterInv
<1>6. CASE TaskStep
  BY <1>1, <1>2, <1>6 DEF TaskStep, PlanTask, RescheduleTask, ArchiveTask, SettleTask
<1>7. CASE CycleStep
  BY <1>2, <1>3, <1>4, <1>5, <1>7 DEF CycleStep
<1>8. CASE OrderStep
  <2>1. ASSUME NEW o \in Orders, NEW row, SetOrder(o, row) PROVE CenterInv'
    BY <1>1, <2>1 DEF SetOrder
  <2>2. CASE \E o \in Orders :
               \/ SellOrder(o) \/ UnsellOrder(o) \/ AddOrder(o) \/ BeginAttempt(o) \/ AddActivation(o)
               \/ IssueCredential(o) \/ RevokeCredential(o)
    BY <2>1, <2>2 DEF SellOrder, UnsellOrder, AddOrder, BeginAttempt, AddActivation, IssueCredential, RevokeCredential
  <2>3. CASE \E o \in Orders :
               \/ \E s \in {"ACTIVE", "SUSPENDED", "CANCELLED"} : MoveSub(o, s)
               \/ \E s \in {"PENDING", "ASSIGNED", "PROCESSING", "COMPLETED", "FAILED", "CANCELLED"} : MoveOrder(o, s)
               \/ \E s \in {"COMPLETED", "FAILED"}, more \in BOOLEAN : EndAttempt(o, s, more)
               \/ \E s \in {"PENDING", "ACTIVE", "FAILED", "SUSPENDED", "REVOKED"} : Activated(o, s)
    BY <2>1, <2>3 DEF MoveSub, MoveOrder, EndAttempt, Activated
  <2> QED BY <1>2, <1>8, <2>2, <2>3 DEF OrderStep
<1>9. CASE TestStep
  BY <1>1, <1>2, <1>9 DEF TestStep, StartTest, EndTest, MoveLead
<1>10. CASE UNCHANGED workVars
  BY <1>1, <1>10 DEF workVars
<1> QED BY <1>6, <1>7, <1>8, <1>9, <1>10 DEF WorkListsNext

\* The last of what may be due is not before anything that is.
LEMMA WholeIsAll ==
  ASSUME CenterInv
  PROVE  centerWhere(WholeCenter) = {c \in Cycles : cycle[c].status # None}
<1>1. ASSUME NEW c \in Cycles, cycle[c].status # None PROVE c \in centerWhere(WholeCenter)
  <2>1. cycle[c].due \in Dues /\ cycle[c] \in CycleRow
    BY <1>1 DEF CenterInv, WorkTypes
  <2>2. Dues \subseteq Int /\ IsFiniteSet(Dues) /\ Dues # {}
    BY <2>1, WorkListsAssumption DEF WorkListsAssumption
  <2>3. \E m \in Dues : \A i \in Dues : i <= m
    BY <2>2, LastExists
  <2>4. \E m \in Dues : \A i \in Dues : m >= i
    BY <2>2, <2>3
  <2>5. cycle[c].due <= Max(Dues)
    BY <2>1, <2>2, <2>4 DEF Max
  <2>6. cycle[c].due \in Nat
    BY <2>1, WorkListsAssumption DEF WorkListsAssumption
  <2> QED BY <1>1, <2>1, <2>5, <2>6 DEF centerWhere, WholeCenter, CycleRow
<1>2. ASSUME NEW c \in Cycles, c \in centerWhere(WholeCenter) PROVE cycle[c].status # None
  BY <1>2 DEF centerWhere, WholeCenter, None
<1> QED BY <1>1, <1>2 DEF centerWhere

LEMMA DaysAddUp ==
  ASSUME CenterInv, NEW d
  PROVE  daySummary(d).total = daySummary(d).pending + daySummary(d).completed + daySummary(d).cancelled
                                 + daySummary(d).rescheduled
<1> DEFINE P == OfStatus(d, "PENDING")
           C == OfStatus(d, "COMPLETED")
           X == OfStatus(d, "CANCELLED")
           R == OfStatus(d, "RESCHEDULED")
<1>1. IsFiniteSet(OnDay(d)) /\ IsFiniteSet(P) /\ IsFiniteSet(C) /\ IsFiniteSet(X) /\ IsFiniteSet(R)
  BY FS_Subset, WorkListsAssumption DEF OnDay, OfStatus, WorkListsAssumption
<1>2. OnDay(d) = P \cup (C \cup (X \cup R))
  BY DEF OnDay, OfStatus, CenterInv, WorkTypes, TaskRow
<1>3. X \cap R = {} /\ C \cap (X \cup R) = {} /\ P \cap (C \cup (X \cup R)) = {}
  BY DEF OfStatus
<1> HIDE DEF P, C, X, R
<1>4. IsFiniteSet(X \cup R) /\ Cardinality(X \cup R) = Cardinality(X) + Cardinality(R)
  BY <1>1, <1>3, CountOfBoth
<1>5. IsFiniteSet(C \cup (X \cup R)) /\ Cardinality(C \cup (X \cup R)) = Cardinality(C) + Cardinality(X \cup R)
  BY <1>1, <1>3, <1>4, CountOfBoth
<1>6. Cardinality(P \cup (C \cup (X \cup R))) = Cardinality(P) + Cardinality(C \cup (X \cup R))
  BY <1>1, <1>3, <1>5, CountOfBoth
<1>7. Cardinality(P) \in Nat /\ Cardinality(C) \in Nat /\ Cardinality(X) \in Nat /\ Cardinality(R) \in Nat
  BY <1>1, FS_CardinalityType
<1>8. Cardinality(OnDay(d)) = Cardinality(P) + Cardinality(C) + Cardinality(X) + Cardinality(R)
  BY <1>2, <1>4, <1>5, <1>6, <1>7
<1> QED BY <1>8 DEF daySummary, P, C, X, R

LEMMA CenterTotals == CenterInv => CenterAddsUp
<1> SUFFICES ASSUME CenterInv PROVE CenterAddsUp
  OBVIOUS
<1> DEFINE whole == centerWhere(WholeCenter)
           key == [c \in Cycles |-> Day(cycle[c].due)]
           byDay == report(WholeCenter, key)
           days == {key[c] : c \in whole}
           paid == {c \in whole : cycle[c].status = "PAID"}
<1>1. whole = {c \in Cycles : cycle[c].status # None}
  BY WholeIsAll
<1>2. IsFiniteSet(whole) /\ IsFiniteSet(days) /\ IsFiniteSet(paid) /\ whole \subseteq Cycles
  <2>1. IsFiniteSet(whole) /\ IsFiniteSet(paid)
    BY <1>1, FS_Subset, WorkListsAssumption DEF WorkListsAssumption
  <2>2. IsFiniteSet(days)
    <3> HIDE DEF whole, key
    <3> QED BY <2>1, ImageFinite
  <2> QED BY <1>1, <2>1, <2>2
<1>3. renewalsToday \subseteq renewalCards.today
  BY <1>1 DEF renewalsToday, Unpaid, renewalCards
<1>4. UNION {calendar(WholeCenter)[d] : d \in DOMAIN calendar(WholeCenter)} = whole
  <2>1. DOMAIN calendar(WholeCenter) = {Day(cycle[c].due) : c \in whole}
    BY DEF calendar
  <2>2. \A d \in DOMAIN calendar(WholeCenter) :
          calendar(WholeCenter)[d] = {c \in whole : Day(cycle[c].due) = d}
    BY DEF calendar
  <2> HIDE DEF whole
  <2> QED BY <2>1, <2>2
<1>5. byDay = [k \in days |-> [count |-> Cardinality({c \in whole : key[c] = k}),
                               paid |-> Cardinality({c \in {x \in whole : key[x] = k} : cycle[c].status = "PAID"})]]
  BY DEF report
<1>6. SumFunction([d \in DOMAIN byDay |-> byDay[d].count]) = Cardinality(whole)
  <2> DEFINE by == [d \in DOMAIN byDay |-> byDay[d].count]
  <2> DEFINE group == [k \in days |-> {c \in whole : key[c] = k}]
  <2>1. DOMAIN by = days /\ \A k \in days : by[k] = Cardinality(group[k])
    <3> HIDE DEF whole, key, byDay, days
    <3> QED BY <1>5
  <2>2. Groups(group, days, whole)
    <3>1. \A c \in whole : key[c] \in days
      OBVIOUS
    <3> HIDE DEF whole, key, byDay, days
    <3> QED BY <3>1 DEF Groups
  <2> HIDE DEF group, by, whole, key, byDay, days
  <2>3. SumFunctionOnSet(by, days) = Cardinality(whole)
    BY <1>2, <2>1, <2>2, CountOfGroups
  <2> QED BY <2>1, <2>3, SumIsOnSet DEF by
<1>7. SumFunction([d \in DOMAIN byDay |-> byDay[d].paid]) = Cardinality(paid)
  <2> DEFINE by == [d \in DOMAIN byDay |-> byDay[d].paid]
             group == [k \in days |-> {c \in {x \in whole : key[x] = k} : cycle[c].status = "PAID"}]
  <2>1. DOMAIN by = days /\ \A k \in days : by[k] = Cardinality(group[k])
    <3> HIDE DEF whole, key, byDay, days
    <3> QED BY <1>5
  <2>2. Groups(group, days, paid)
    <3>1. \A c \in paid : key[c] \in days
      OBVIOUS
    <3> HIDE DEF whole, key, byDay, days
    <3> QED BY <3>1 DEF Groups
  <2> HIDE DEF by, whole, key, byDay, days, paid, group
  <2>4. SumFunctionOnSet(by, days) = Cardinality(paid)
    BY <1>2, <2>1, <2>2, CountOfGroups
  <2> QED BY <2>1, <2>4, SumIsOnSet DEF by
<1>8. customerRenewals(Cycles).ltv = Cardinality(paid)
  <2>1. {c \in {x \in Cycles : cycle[x].status # None} : cycle[c].status = "PAID"} = paid
    BY <1>1
  <2> QED BY <2>1 DEF customerRenewals
<1>9. renewalCards.history = renewedIn(0, LastTick + 1)
  <2>1. renewalCards.history = paid
    BY DEF renewalCards
  <2>2. paid \subseteq renewedIn(0, LastTick + 1)
    BY <1>1, WorkListsAssumption DEF renewedIn, CenterInv, WorkListsAssumption
  <2>3. renewedIn(0, LastTick + 1) \subseteq paid
    BY <1>1 DEF renewedIn, None
  <2> QED BY <2>1, <2>2, <2>3
<1>10. \A d \in {Day(t) : t \in Dues} :
         daySummary(d).total = daySummary(d).pending + daySummary(d).completed + daySummary(d).cancelled
                                 + daySummary(d).rescheduled
  BY DaysAddUp
<1>11. SumFunction([d \in DOMAIN byDay |-> byDay[d].paid]) = customerRenewals(Cycles).ltv
  BY <1>7, <1>8
<1> HIDE DEF whole, byDay, days, paid
<1> QED BY <1>3, <1>4, <1>6, <1>9, <1>10, <1>11 DEF CenterAddsUp, whole, byDay

\* No work falls between two lists, and the days, the groups and the cards of the renewal
\* center add up to the renewals there are (my-day.service, renewal-intelligence).
THEOREM NothingIsForgotten == WorkListsSpec => []NothingForgotten
<1>1. WorkListsInit => CenterInv
  BY WorkListsAssumption DEF WorkListsInit, CenterInv, WorkTypes, NoTask, NoCycle, NoOrder, NoTest, TaskRow,
     CycleRow, OrderRow, OrderFits, TestRow, WorkListsAssumption, None
<1>2. WorkListsSpec => []CenterInv
  BY <1>1, CenterKept, PTL DEF WorkListsSpec
<1>3. CenterInv => NothingForgotten
  BY TasksListed, CyclesListed, OrdersListed, CenterTotals DEF CenterInv, NothingForgotten
<1> QED BY <1>2, <1>3, PTL


----------------------------------------------------------------------------
(* The board is whole.                                                     *)

LEMMA LeastExists ==
  ASSUME NEW S, S \subseteq Int, IsFiniteSet(S), S # {}
  PROVE  \E m \in S : \A i \in S : m <= i
<1> DEFINE f == [i \in S |-> 0 - i]
           T == {f[i] : i \in S}
<1>1. \A i \in S : i \in Int /\ f[i] = 0 - i /\ f[i] \in Int
  OBVIOUS
<1>2. IsFiniteSet(T)
  <2> HIDE DEF f
  <2> QED BY ImageFinite
<1>3. T \subseteq Int /\ T # {}
  <2> HIDE DEF f
  <2> QED BY <1>1
<1>4. PICK t \in T : \A u \in T : u <= t
  <2> HIDE DEF T
  <2> QED BY <1>2, <1>3, LastExists
<1>5. PICK m \in S : t = f[m]
  OBVIOUS
<1>6. ASSUME NEW i \in S PROVE m <= i
  <2>1. f[i] <= f[m]
    BY <1>4, <1>5
  <2> HIDE DEF f
  <2> QED BY <1>1, <2>1
<1> QED BY <1>6

\* A page is the newest of what is left of its column, and the next one starts below it.
LEMMA PageIs ==
  ASSUME NEW s, NEW cursor, NEW page, page = pipelinePage(s, cursor)
  PROVE  /\ page.data \subseteq Below(s, cursor)
         /\ page.nextCursor \in Cards \cup {Nothing}
         /\ page.nextCursor = Nothing => page.data = Below(s, cursor)
         /\ page.nextCursor # Nothing => /\ page.nextCursor \in page.data
                                         /\ \A o \in page.data : page.nextCursor <= o
                                         /\ \A o \in Below(s, cursor) \ page.data : o < page.nextCursor
<1> DEFINE rest == Below(s, cursor)
           newer(o) == {p \in rest : p > o}
           data == {o \in rest : Cardinality(newer(o)) < PageSize}
<1>1. page = [data |-> data, nextCursor |-> IF Cardinality(rest) > PageSize THEN Min(data) ELSE Nothing]
  BY DEF pipelinePage
<1>2. rest \subseteq Cards /\ rest \subseteq Int /\ IsFiniteSet(rest) /\ PageSize \in Nat \ {0} /\ Nothing \notin Cards
  <2>1. rest \subseteq Cards
    BY DEF Below, InColumn, buildListWhere
  <2>2. Cards \subseteq Nat /\ IsFiniteSet(Cards) /\ PageSize \in Nat \ {0} /\ Nothing \notin Cards
    BY PipelineBoardAssumption DEF PipelineBoardAssumption
  <2> HIDE DEF rest
  <2>3. IsFiniteSet(rest)
    BY <2>1, <2>2, FS_Subset
  <2> QED BY <2>1, <2>2, <2>3
<1>3. ASSUME NEW o \in rest
      PROVE  /\ newer(o) \subseteq rest /\ IsFiniteSet(newer(o))
             /\ Cardinality(newer(o)) \in Nat /\ Cardinality(newer(o)) < Cardinality(rest)
             /\ Cardinality(rest) \in Nat
  <2>1. newer(o) \subseteq rest /\ o \notin newer(o)
    BY <1>2
  <2> HIDE DEF newer, rest
  <2>2. IsFiniteSet(newer(o)) /\ IsFiniteSet(rest \ {o}) /\ newer(o) \subseteq rest \ {o}
    BY <1>2, <2>1, FS_Subset
  <2>3. Cardinality(newer(o)) <= Cardinality(rest \ {o}) /\ Cardinality(rest \ {o}) = Cardinality(rest) - 1
    BY <1>2, <1>3, <2>2, FS_Subset, FS_RemoveElement
  <2>4. Cardinality(newer(o)) \in Nat /\ Cardinality(rest) \in Nat
    BY <1>2, <2>2, FS_CardinalityType
  <2> QED BY <2>1, <2>2, <2>3, <2>4
<1>11. rest = Below(s, cursor)
  OBVIOUS
<1>4. CASE ~(Cardinality(rest) > PageSize)
  <2>1. ASSUME NEW o \in rest PROVE Cardinality(newer(o)) < PageSize
    <3> HIDE DEF newer, rest
    <3> QED BY <1>2, <1>3, <1>4
  <2>2. data = rest
    <3> HIDE DEF newer, rest
    <3> QED BY <2>1
  <2> HIDE DEF rest, data
  <2>3. page.data = rest /\ page.nextCursor = Nothing
    BY <1>1, <1>4, <2>2
  <2> HIDE DEF rest
  <2> QED BY <1>11, <2>3
<1>5. CASE Cardinality(rest) > PageSize
  <2>1. \E m \in rest : \A i \in rest : i <= m
    <3>1. rest # {}
      <4> HIDE DEF rest
      <4> QED BY <1>2, <1>5, FS_EmptySet
    <3> HIDE DEF rest
    <3> QED BY <1>2, <3>1, LastExists
  <2>2. PICK m \in rest : \A i \in rest : i <= m
    BY <2>1
  <2>3. newer(m) = {}
    <3> HIDE DEF rest
    <3>1. \A i \in rest : i \in Int /\ m \in Int
      BY <1>2, <2>2
    <3> QED BY <2>2, <3>1
  <2>4. m \in data
    <3> HIDE DEF rest
    <3>1. Cardinality(newer(m)) = 0
      BY <2>3, FS_EmptySet
    <3> HIDE DEF newer
    <3> QED BY <1>2, <3>1
  <2>5. \E l \in data : \A i \in data : l <= i
    <3>1. data \subseteq rest
      OBVIOUS
    <3> HIDE DEF data, rest
    <3>2. data \subseteq Int /\ IsFiniteSet(data)
      BY <1>2, <3>1, FS_Subset
    <3> QED BY <2>4, <3>2, LeastExists
  <2>6. Min(data) \in data /\ \A i \in data : Min(data) <= i
    <3> HIDE DEF data, rest
    <3> QED BY <2>5 DEF Min
  <2>7. ASSUME NEW o \in rest \ data, NEW d \in data PROVE o < d
    <3>1. o \in rest /\ d \in rest /\ o \in Int /\ d \in Int /\ o # d
      BY <1>2, <2>7
    <3>2. Cardinality(newer(d)) < PageSize /\ ~(Cardinality(newer(o)) < PageSize)
      BY <2>7
    <3>3. ~(o > d)
      <4> SUFFICES ASSUME o > d PROVE FALSE
        OBVIOUS
      <4>1. newer(o) \subseteq newer(d)
        <5>1. ASSUME NEW p \in rest, p > o PROVE p > d
          <6>1. p \in Int
            BY <1>2
          <6> QED BY <3>1, <5>1, <6>1
        <5> QED BY <5>1
      <4>2. Cardinality(newer(o)) \in Nat /\ Cardinality(newer(d)) \in Nat /\ IsFiniteSet(newer(d))
        <5> HIDE DEF rest, newer
        <5> QED BY <1>3, <3>1
      <4>3. Cardinality(newer(o)) <= Cardinality(newer(d))
        <5> HIDE DEF newer
        <5> QED BY <4>1, <4>2, FS_Subset
      <4> HIDE DEF newer, rest
      <4> QED BY <1>2, <3>2, <4>2, <4>3
    <3> QED BY <3>1, <3>3
  <2>8. data \subseteq rest
    OBVIOUS
  <2> HIDE DEF data, rest
  <2>9. page.data = data /\ page.nextCursor = Min(data)
    BY <1>1, <1>5
  <2>10. Min(data) \in Cards /\ Min(data) # Nothing
    BY <1>2, <2>6, <2>8
  <2>11. ASSUME NEW o \in rest \ data PROVE o < Min(data)
    BY <2>6, <2>7, <2>11
  <2> QED BY <1>11, <2>6, <2>8, <2>9, <2>10, <2>11
<1> QED BY <1>4, <1>5

\* One who pages through a column has seen the cards from the cursor on that stayed in it,
\* and none of those below.
ReaderInv ==
  /\ reader \in [stage : Columns \cup {Nothing}, cursor : Cards \cup {Nothing}, seen : SUBSET Cards,
                 twice : SUBSET Cards, stayed : SUBSET Cards]
  /\ reader.twice = {}
  /\ reader.stage = Nothing => reader.cursor = Nothing /\ reader.seen = {}
  /\ reader.cursor # Nothing => \A o \in reader.seen : reader.cursor <= o
  /\ \A o \in reader.stayed : /\ card[o].stage = reader.stage /\ ~card[o].archived
                              /\ o \in reader.seen \/ (reader.cursor # Nothing /\ o < reader.cursor)

LEMMA StayingKeeps ==
  ASSUME ReaderInv, NEW now0, reader' = Staying(now0), card' = now0
  PROVE  ReaderInv'
<1> DEFINE kept == {o \in reader.stayed : now0[o].stage = reader.stage /\ ~now0[o].archived}
<1>1. reader' = [reader EXCEPT !.stayed = kept]
  BY DEF Staying
<1>2. /\ reader'.stage = reader.stage /\ reader'.cursor = reader.cursor /\ reader'.seen = reader.seen
      /\ reader'.twice = reader.twice /\ reader'.stayed = kept
      /\ reader' \in [stage : Columns \cup {Nothing}, cursor : Cards \cup {Nothing}, seen : SUBSET Cards,
                      twice : SUBSET Cards, stayed : SUBSET Cards]
  <2>1. kept \subseteq Cards
    BY DEF ReaderInv
  <2> HIDE DEF kept
  <2> QED BY <1>1, <2>1 DEF ReaderInv
<1>3. \A o \in kept : o \in reader.stayed /\ card'[o].stage = reader.stage /\ ~card'[o].archived
  OBVIOUS
<1> HIDE DEF kept
<1> QED BY <1>2, <1>3 DEF ReaderInv

LEMMA PageKeeps ==
  ASSUME ReaderInv, NEW s \in Columns, ReadPage(s)
  PROVE  ReaderInv'
<1> DEFINE page == pipelinePage(s, reader.cursor)
           rest == Below(s, reader.cursor)
           stayed == IF reader.stage = Nothing THEN InColumn(s) ELSE reader.stayed
<1>1. /\ reader' = [stage |-> s, cursor |-> page.nextCursor, seen |-> reader.seen \cup page.data,
                    twice |-> reader.twice \cup (reader.seen \cap page.data), stayed |-> stayed]
      /\ reader.stage = Nothing \/ (reader.stage = s /\ reader.cursor # Nothing)
      /\ card' = card
  BY DEF ReadPage
<1>2. /\ page.data \subseteq rest
      /\ page.nextCursor \in Cards \cup {Nothing}
      /\ page.nextCursor = Nothing => page.data = rest
      /\ page.nextCursor # Nothing => /\ page.nextCursor \in page.data
                                      /\ \A o \in page.data : page.nextCursor <= o
                                      /\ \A o \in rest \ page.data : o < page.nextCursor
  <2> HIDE DEF page
  <2> QED BY PageIs DEF page
<1>3. rest = {o \in InColumn(s) : reader.cursor # Nothing => o < reader.cursor}
  BY DEF Below
<1>4. InColumn(s) \subseteq Cards /\ \A o \in InColumn(s) : card[o].stage = s /\ ~card[o].archived
  BY DEF InColumn, buildListWhere
<1>5. Cards \subseteq Int /\ Nothing \notin Cards /\ Nothing \notin Columns
  BY PipelineBoardAssumption DEF PipelineBoardAssumption
<1>6. reader.seen \subseteq Cards /\ reader.stayed \subseteq Cards /\ reader.cursor \in Cards \cup {Nothing}
  BY DEF ReaderInv
<1>7. /\ \A o \in reader.stayed : /\ card[o].stage = reader.stage /\ ~card[o].archived
                                  /\ o \in reader.seen \/ (reader.cursor # Nothing /\ o < reader.cursor)
      /\ reader.cursor # Nothing => \A o \in reader.seen : reader.cursor <= o
      /\ reader.stage = Nothing => reader.cursor = Nothing /\ reader.seen = {}
      /\ reader.twice = {}
  BY DEF ReaderInv
<1> HIDE DEF page, rest
<1>8. reader.seen \cap page.data = {}
  <2>1. CASE reader.stage = Nothing
    BY <1>7, <2>1
  <2>2. CASE reader.cursor # Nothing
    <3>1. ASSUME NEW o \in reader.seen, o \in page.data PROVE FALSE
      <4>1. o \in Int /\ reader.cursor \in Int /\ reader.cursor <= o /\ o < reader.cursor
        BY <1>2, <1>3, <1>5, <1>6, <1>7, <2>2, <3>1
      <4> QED BY <4>1
    <3> QED BY <3>1
  <2> QED BY <1>1, <2>1, <2>2
<1>9. ASSUME NEW o \in stayed
      PROVE  /\ o \in Cards /\ card[o].stage = s /\ ~card[o].archived
             /\ o \in reader.seen \/ o \in rest
  <2>1. CASE reader.stage = Nothing
    BY <1>3, <1>4, <1>7, <1>9, <2>1
  <2>2. CASE reader.stage = s /\ reader.cursor # Nothing /\ reader.stage # Nothing
    <3>1. o \in reader.stayed /\ o \in Cards /\ card[o].stage = s /\ ~card[o].archived
      BY <1>6, <1>7, <1>9, <2>2
    <3>2. o \in InColumn(s)
      BY <1>5, <3>1 DEF InColumn, buildListWhere, OnBoard
    <3> QED BY <1>3, <1>7, <3>1, <3>2
  <2> QED BY <1>1, <2>1, <2>2
<1>10. ASSUME NEW o \in stayed
       PROVE  o \in reader.seen \cup page.data \/ (page.nextCursor # Nothing /\ o < page.nextCursor)
  BY <1>2, <1>9
<1>11. page.nextCursor # Nothing => \A o \in reader.seen \cup page.data : page.nextCursor <= o
  <2> SUFFICES ASSUME page.nextCursor # Nothing, NEW o \in reader.seen, o \notin page.data
               PROVE  page.nextCursor <= o
    BY <1>2
  <2>1. reader.cursor # Nothing /\ reader.cursor <= o
    BY <1>1, <1>7
  <2>2. PICK d \in page.data : d = page.nextCursor
    BY <1>2
  <2>3. d < reader.cursor
    BY <1>2, <1>3, <2>1
  <2>4. d \in Int /\ o \in Int /\ reader.cursor \in Int /\ page.nextCursor \in Int
    BY <1>2, <1>3, <1>4, <1>5, <1>6, <2>1
  <2> QED BY <2>1, <2>2, <2>3, <2>4
<1>12. stayed \subseteq Cards /\ page.data \subseteq Cards
  BY <1>2, <1>3, <1>4, <1>9
<1> HIDE DEF stayed
<1>13. /\ reader'.stage = s /\ reader'.cursor = page.nextCursor /\ reader'.seen = reader.seen \cup page.data
       /\ reader'.twice = {} /\ reader'.stayed = stayed /\ s # Nothing
  BY <1>1, <1>5, <1>7, <1>8
<1>14. reader' \in [stage : Columns \cup {Nothing}, cursor : Cards \cup {Nothing}, seen : SUBSET Cards,
                    twice : SUBSET Cards, stayed : SUBSET Cards]
  BY <1>1, <1>2, <1>6, <1>7, <1>8, <1>12
<1> QED BY <1>1, <1>9, <1>10, <1>11, <1>13, <1>14 DEF ReaderInv

LEMMA ReaderKept == BoardInv /\ ReaderInv /\ [PipelineBoardNext]_boardVars => ReaderInv'
<1> SUFFICES ASSUME ReaderInv, [PipelineBoardNext]_boardVars PROVE ReaderInv'
  OBVIOUS
<1>1. CASE UNCHANGED <<card, reader>>
  BY <1>1 DEF ReaderInv
<1>2. ASSUME NEW new, PutCards(new) PROVE ReaderInv'
  BY <1>2, StayingKeeps DEF PutCards
<1>3. CASE EditStep
  <2>1. ASSUME NEW class, NEW good, NEW u, NEW owner, NEW s, CreateCard(u, owner, s, class, good) PROVE ReaderInv'
    BY <1>2, <2>1 DEF CreateCard
  <2>2. ASSUME NEW u, NEW asked, UpdateCard(u, asked) PROVE ReaderInv'
    BY <1>2, <2>2 DEF UpdateCard
  <2> QED BY <1>3, <2>1, <2>2 DEF EditStep
<1>4. CASE \E u \in Users : DropEdit(u) \/ \E o \in Cards : ReadCard(u, o)
  BY <1>1, <1>4 DEF DropEdit, ReadCard
<1>5. CASE \E u \in Users : \E to \in Users \cup {Nothing} : AssignCard(u, to)
  BY <1>2, <1>5 DEF AssignCard
<1>6. CASE \E o \in Cards : \/ \E s \in Columns : MoveCard(o, s) \/ ReopenCard(o, s)
                            \/ \E archived \in BOOLEAN : ArchiveCard(o, archived)
  BY <1>2, <1>6 DEF MoveCard, ReopenCard, ArchiveCard, PlaceCard
<1>7. CASE \E s \in Columns : ArchiveColumn(s) \/ RestoreColumn(s)
  BY <1>1, <1>7 DEF ArchiveColumn, RestoreColumn
<1>8. CASE \E s \in Columns : ReadPage(s)
  BY <1>8, PageKeeps
<1>9. CASE CloseColumn
  BY <1>9 DEF CloseColumn, NoReader, ReaderInv
<1>10. CASE UNCHANGED boardVars
  BY <1>1, <1>10 DEF boardVars
<1> QED BY <1>3, <1>4, <1>5, <1>6, <1>7, <1>8, <1>9, <1>10 DEF PipelineBoardNext

\* The summary counts a card once, in its column and in its currency.
LEMMA SummaryCounts ==
  ASSUME card \in [Cards -> CardRow], columns \subseteq Columns
  PROVE  /\ DOMAIN getPipelineSummary.perColumn = columns
         /\ \A s \in columns : Cardinality(InColumn(s)) <= getPipelineSummary.perColumn[s]
         /\ SumOfRows(getPipelineSummary.totals, DOMAIN getPipelineSummary.totals) =
              Cardinality(buildListWhere(TRUE)) + Cardinality(buildListWhere(FALSE))
<1> DEFINE Coins2 == {card[o].coin : o \in Cards}
           K == Columns \X Coins2
           Coins3 == {k[2] : k \in K}
           group == [k \in K |-> {o \in Cards : card[o].stage = k[1] /\ card[o].coin = k[2]}]
           There == {o \in Cards : OnBoard(o)}
           OfColumn(s) == {k \in K : k[1] = s}
           OfCoin(c) == {k \in K : k[2] = c}
           In1(s) == {o \in Cards : card[o].stage = s}
           Of1 == [c \in Coins3 |-> {o \in There : card[o].coin = c}]
           by == groupSummary
           totals == [c \in Coins3 |-> SumFunctionOnSet(by, OfCoin(c))]
<1>1. Cards \subseteq Nat /\ IsFiniteSet(Cards) /\ IsFiniteSet(Columns) /\ Nothing \notin Columns
  BY PipelineBoardAssumption DEF PipelineBoardAssumption
<1>2. IsFiniteSet(Coins2) /\ IsFiniteSet(K) /\ IsFiniteSet(Coins3)
  <2> DEFINE f == [o \in Cards |-> card[o].coin]
  <2>1. Coins2 = {f[o] : o \in Cards}
    OBVIOUS
  <2> HIDE DEF f
  <2>2. IsFiniteSet(Coins2)
    BY <1>1, <2>1, ImageFinite
  <2> HIDE DEF Coins2
  <2>3. IsFiniteSet(K)
    BY <1>1, <2>2, FS_Product
  <2> DEFINE g == [k \in K |-> k[2]]
  <2>4. Coins3 = {g[k] : k \in K}
    OBVIOUS
  <2> HIDE DEF g, K
  <2> QED BY <2>2, <2>3, <2>4, ImageFinite
<1>3. \A k \in K : by[k] = Cardinality(group[k]) /\ group[k] \subseteq Cards
  BY DEF groupSummary
<1>4. \A o \in Cards : card[o].stage \in Columns \cup {Nothing} /\ card[o].coin \in Coins2
  BY DEF CardRow
<1>5. ASSUME NEW s \in columns
      PROVE  SumFunctionOnSet(by, OfColumn(s)) = Cardinality(In1(s)) /\ InColumn(s) \subseteq In1(s)
  <2>1. OfColumn(s) \subseteq K /\ In1(s) \subseteq Cards /\ s \in Columns
    OBVIOUS
  <2>2. Groups(group, OfColumn(s), In1(s))
    <3>1. \A k \in OfColumn(s) : group[k] \subseteq In1(s)
      OBVIOUS
    <3>2. ASSUME NEW o \in In1(s) PROVE \E k \in OfColumn(s) : o \in group[k]
      <4>1. <<s, card[o].coin>> \in OfColumn(s) /\ o \in group[<<s, card[o].coin>>]
        BY <1>4, <2>1, <3>2
      <4> QED BY <4>1
    <3>3. ASSUME NEW k \in OfColumn(s), NEW j \in OfColumn(s), k # j PROVE group[k] \cap group[j] = {}
      <4>1. k = <<k[1], k[2]>> /\ j = <<j[1], j[2]>> /\ k[1] = j[1]
        OBVIOUS
      <4>2. k[2] # j[2]
        BY <3>3, <4>1
      <4> QED BY <4>2
    <3> HIDE DEF group, OfColumn, In1
    <3> QED BY <3>1, <3>2, <3>3 DEF Groups
  <2>3. IsFiniteSet(In1(s)) /\ IsFiniteSet(OfColumn(s))
    <3> HIDE DEF In1, OfColumn, K
    <3> QED BY <1>1, <1>2, <2>1, FS_Subset
  <2>4. InColumn(s) \subseteq In1(s)
    BY DEF InColumn, buildListWhere
  <2> HIDE DEF group, OfColumn, In1, K, by
  <2>5. \A k \in OfColumn(s) : by[k] = Cardinality(group[k])
    BY <1>3, <2>1
  <2> QED BY <2>2, <2>3, <2>4, <2>5, CountOfGroups
<1>6. ASSUME NEW c \in Coins3
      PROVE  SumFunctionOnSet(by, OfCoin(c)) = Cardinality(Of1[c])
  <2>1. OfCoin(c) \subseteq K /\ Of1[c] \subseteq Cards
    OBVIOUS
  <2>2. Groups(group, OfCoin(c), Of1[c])
    <3>1. \A k \in OfCoin(c) : group[k] \subseteq Of1[c]
      BY <1>1 DEF OnBoard
    <3>2. ASSUME NEW o \in Of1[c] PROVE \E k \in OfCoin(c) : o \in group[k]
      <4>1. o \in Cards /\ card[o].stage \in Columns /\ card[o].coin = c
        BY <1>4, <3>2 DEF OnBoard
      <4>2. <<card[o].stage, c>> \in OfCoin(c) /\ o \in group[<<card[o].stage, c>>]
        BY <4>1
      <4> QED BY <4>2
    <3>3. ASSUME NEW k \in OfCoin(c), NEW j \in OfCoin(c), k # j PROVE group[k] \cap group[j] = {}
      <4>1. k = <<k[1], k[2]>> /\ j = <<j[1], j[2]>> /\ k[2] = j[2]
        OBVIOUS
      <4>2. k[1] # j[1]
        BY <3>3, <4>1
      <4> QED BY <4>2
    <3> HIDE DEF group, OfCoin, Of1
    <3> QED BY <3>1, <3>2, <3>3 DEF Groups
  <2>3. IsFiniteSet(Of1[c]) /\ IsFiniteSet(OfCoin(c))
    <3> HIDE DEF Of1, OfCoin, K
    <3> QED BY <1>1, <1>2, <2>1, FS_Subset
  <2> HIDE DEF group, OfCoin, Of1, K, by
  <2>4. \A k \in OfCoin(c) : by[k] = Cardinality(group[k])
    BY <1>3, <2>1
  <2> QED BY <2>2, <2>3, <2>4, CountOfGroups
<1>7. SumFunctionOnSet(totals, Coins3) = Cardinality(There)
  <2>1. Groups(Of1, Coins3, There)
    <3>1. ASSUME NEW o \in There PROVE \E c \in Coins3 : o \in Of1[c]
      <4>1. <<card[o].stage, card[o].coin>> \in K
        BY <1>4 DEF OnBoard
      <4> QED BY <4>1
    <3>2. \A c \in Coins3 : Of1[c] \subseteq There
      OBVIOUS
    <3>3. \A c, d \in Coins3 : c # d => Of1[c] \cap Of1[d] = {}
      OBVIOUS
    <3> HIDE DEF Coins3, There, Of1
    <3> QED BY <3>1, <3>2, <3>3 DEF Groups
  <2>2. IsFiniteSet(There)
    BY <1>1, FS_Subset
  <2>3. \A c \in Coins3 : totals[c] = SumFunctionOnSet(by, OfCoin(c))
    OBVIOUS
  <2> HIDE DEF totals, Coins3, by, OfCoin, There, Of1
  <2>4. \A c \in Coins3 : totals[c] = Cardinality(Of1[c])
    BY <1>6, <2>3
  <2>5. IsFiniteSet(Coins3)
    BY <1>2
  <2> QED BY <2>1, <2>2, <2>4, <2>5, CountOfGroups
<1>8. Cardinality(There) = Cardinality(buildListWhere(TRUE)) + Cardinality(buildListWhere(FALSE))
  <2>1. /\ There = buildListWhere(TRUE) \cup buildListWhere(FALSE)
        /\ buildListWhere(TRUE) \cap buildListWhere(FALSE) = {}
        /\ buildListWhere(TRUE) \subseteq Cards /\ buildListWhere(FALSE) \subseteq Cards
    BY DEF buildListWhere, CardRow
  <2>2. IsFiniteSet(buildListWhere(TRUE)) /\ IsFiniteSet(buildListWhere(FALSE))
    BY <1>1, <2>1, FS_Subset
  <2> HIDE DEF There
  <2> QED BY <2>1, <2>2, CountOfBoth
<1>9. /\ getPipelineSummary = [perColumn |-> [s \in columns |-> SumFunctionOnSet(by, OfColumn(s))], totals |-> totals]
  <2>1. DOMAIN by = K
    BY DEF groupSummary
  <2>2. getPipelineSummary =
          [perColumn |-> [s \in columns |-> SumFunctionOnSet(by, {k \in DOMAIN by : k[1] = s})],
           totals |-> [c \in {k[2] : k \in DOMAIN by} |-> SumFunctionOnSet(by, {k \in DOMAIN by : k[2] = c})]]
    BY DEF getPipelineSummary, SumOfRows
  <2> HIDE DEF by, K
  <2> QED BY <2>1, <2>2
<1>10. ASSUME NEW s \in columns PROVE Cardinality(InColumn(s)) <= Cardinality(In1(s))
  <2>1. In1(s) \subseteq Cards
    OBVIOUS
  <2> HIDE DEF In1
  <2>2. IsFiniteSet(In1(s))
    BY <1>1, <2>1, FS_Subset
  <2> QED BY <1>5, <2>2, FS_Subset
<1>12. DOMAIN totals = Coins3
  OBVIOUS
<1> HIDE DEF totals, by, OfColumn, In1, There, Coins3
<1>13. /\ getPipelineSummary.totals = totals
       /\ getPipelineSummary.perColumn = [s \in columns |-> SumFunctionOnSet(by, OfColumn(s))]
  BY <1>9
<1> QED BY <1>5, <1>7, <1>8, <1>10, <1>12, <1>13 DEF SumOfRows

\* However edits, moves and pages interleave, each card is in one list, the summary counts
\* each once and no column shows more than it counts, and one who pages through a column
\* sees each card that stayed in it, and none twice (list, getPipeline, getPipelineSummary
\* and getStageOpportunities of the opportunities service).
THEOREM BoardIsWholeAlways == PipelineBoardSpec => []BoardIsWhole
<1>1. PipelineBoardInit => ReaderInv
  BY DEF PipelineBoardInit, NoReader, ReaderInv
<1>2. PipelineBoardSpec => [](BoardInv /\ ReaderInv)
  BY <1>1, BoardStart, BoardStepKeeps, ReaderKept, PTL DEF PipelineBoardSpec
<1>3. ASSUME BoardInv, ReaderInv PROVE BoardIsWhole
  <2>1. buildListWhere(TRUE) \cap buildListWhere(FALSE) = {}
    BY DEF buildListWhere
  <2>2. card \in [Cards -> CardRow] /\ columns \subseteq Columns
    BY <1>3 DEF BoardInv
  <2>3. ASSUME NEW s \in columns
        PROVE  getPipeline(Nothing)[s].data \subseteq InColumn(s)
    <3> DEFINE page == pipelinePage(s, Nothing)
    <3>1. getPipeline(Nothing)[s] = page
      BY DEF getPipeline
    <3>2. page.data \subseteq Below(s, Nothing)
      <4> HIDE DEF page
      <4> QED BY PageIs DEF page
    <3>3. Below(s, Nothing) \subseteq InColumn(s)
      BY DEF Below
    <3> HIDE DEF page
    <3> QED BY <3>1, <3>2, <3>3
  <2>4. \A s, r \in columns : s # r => InColumn(s) \cap InColumn(r) = {}
    BY DEF InColumn
  <2>5. \A s, r \in columns : s # r => getPipeline(Nothing)[s].data \cap getPipeline(Nothing)[r].data = {}
    BY <2>3, <2>4
  <2>6. reader.twice = {}
    BY <1>3 DEF ReaderInv
  <2>7. ReaderDone => reader.stayed \subseteq reader.seen
    BY <1>3 DEF ReaderDone, ReaderInv
  <2>8. CardsAreTold
    BY <1>3 DEF BoardInv, ToldOf, CardsAreTold
  <2> QED BY <2>1, <2>2, <2>3, <2>5, <2>6, <2>7, <2>8, SummaryCounts DEF BoardIsWhole
<1> QED BY <1>2, <1>3, PTL


----------------------------------------------------------------------------
(* The bounded instances are behaviours of the parts.                      *)

LEMMA PartsBegin ==
  MCReportsInit => RowsInit /\ FinancesInit /\ view = {} /\ WorkListsInit /\ SmartInboxInit /\ PipelineBoardInit
                     /\ DailyMetricsInit
  BY DEF MCReportsInit

LEMMA DraftIsAny ==
  ASSUME NEW s \in Sales, NEW extra \in Int, NEW ds \in SUBSET Deals, Draft(s, extra, ds)
  PROVE  RowsNext
<1>1. WholeSale(s) \in [Lines -> Nat]
  BY ReportRowsAssumption DEF ReportRowsAssumption, WholeSale
<1> DEFINE t == WholeSale(s)
<1>2. t \in [Lines -> Nat] /\ \E b \in Buyers, u \in Sellers : DraftSale(s, b, u, ds, t, extra)
  BY <1>1, MCReportsAssumption DEF Draft, SellerOf, MCReportsAssumption
<1> HIDE DEF t
<1> QED BY <1>2 DEF RowsNext

LEMMA AbroadIs == Abroad \in Countries /\ NoCountry \in Countries
  BY ReportRowsAssumption, MCReportsAssumption DEF ReportRowsAssumption, MCReportsAssumption, Abroad

LEMMA SoldIsRows == SoldPart => RowsNext
<1> SUFFICES ASSUME SoldPart PROVE RowsNext
  OBVIOUS
<1> USE AbroadIs, MCReportsAssumption DEF MCReportsAssumption
<1>1. CASE Tomorrow \/ \E b \in Buyers : (today = 0 /\ AddBuyer(b, Abroad)) \/ EditCountry(b, NoCountry) \/ RemoveBuyer(b)
  BY <1>1 DEF RowsNext
<1>2. CASE \E s \in Sales : Draft(s, 0, {}) \/ ConfirmSale(s)
  <2>1. CASE \E s \in Sales : ConfirmSale(s)
    BY <2>1 DEF RowsNext
  <2>2. ASSUME NEW s \in Sales, Draft(s, 0, {}) PROVE RowsNext
    <3>1. 0 \in Int /\ {} \in SUBSET Deals
      OBVIOUS
    <3> QED BY <2>2, <3>1, DraftIsAny
  <2> QED BY <1>2, <2>1, <2>2
<1>3. CASE CancelSale(s_one) \/ RemoveSale(s_two) \/ (today = LastDay /\ sale[s_one].status = "CONFIRMED" /\ SwitchUser(u_one))
  BY <1>3 DEF RowsNext
<1>4. ASSUME NEW b \in Buyers, NEW d \in {Unset, 0}, CorrectSale(s_one, b, d) PROVE RowsNext
  <2>1. d \in Days \cup {Unset} /\ s_one \in Sales
    BY ReportRowsAssumption DEF ReportRowsAssumption, Days, Unset
  <2> QED BY <1>4, <2>1 DEF RowsNext
<1> QED BY <1>1, <1>2, <1>3, <1>4 DEF SoldPart

LEMMA PaidIsRows == PaidPart => RowsNext
<1> SUFFICES ASSUME PaidPart PROVE RowsNext
  OBVIOUS
<1> USE AbroadIs, MCReportsAssumption DEF MCReportsAssumption
<1>1. CASE Tomorrow \/ \E b \in Buyers : Only(b) /\ AddBuyer(b, Abroad)
  BY <1>1 DEF RowsNext
<1>2. CASE Draft(s_one, -1, {})
  <2>1. -1 \in Int /\ {} \in SUBSET Deals /\ s_one \in Sales
    OBVIOUS
  <2> QED BY <1>2, <2>1, DraftIsAny
<1>3. CASE ConfirmSale(s_one) \/ CancelSale(s_one)
  BY <1>3 DEF RowsNext
<1>4. ASSUME NEW t \in Takings, NEW m \in Methods, NEW net \in 0 .. Price, NEW lost \in {0, 1}, Take(t, m, net, lost)
      PROVE  RowsNext
  <2>1. net \in Nat /\ lost \in Nat
    BY ReportRowsAssumption DEF ReportRowsAssumption
  <2> QED BY <1>4, <2>1 DEF RowsNext
<1>5. ASSUME NEW t \in Takings, NEW amount \in 1 .. Price, GiveBack(t, amount) PROVE RowsNext
  <2>1. amount \in Nat \ {0}
    BY ReportRowsAssumption DEF ReportRowsAssumption
  <2> QED BY <1>5, <2>1 DEF RowsNext
<1> QED BY <1>1, <1>2, <1>3, <1>4, <1>5 DEF PaidPart

LEMMA ViewsIsRows == ViewsPart => RowsNext
<1> SUFFICES ASSUME ViewsPart PROVE RowsNext
  OBVIOUS
<1> USE AbroadIs, MCReportsAssumption DEF MCReportsAssumption
<1>1. CASE Tomorrow \/ \E b \in Buyers : Only(b) /\ (AddBuyer(b, Abroad) \/ EditCountry(b, NoCountry))
  BY <1>1 DEF RowsNext
<1>2. CASE \E s \in Sales : ConfirmSale(s)
  BY <1>2 DEF RowsNext
<1>3. ASSUME NEW s \in Sales, Draft(s, 0, {}) PROVE RowsNext
  <2>1. 0 \in Int /\ {} \in SUBSET Deals
    OBVIOUS
  <2> QED BY <1>3, <2>1, DraftIsAny
<1>4. CASE \/ \E f \in Deliveries : Activate(f) \/ \E p \in Providers : Deliver(f, p)
           \/ \E n \in Names : RenameProduct(n)
  BY <1>4 DEF RowsNext
<1> QED BY <1>1, <1>2, <1>3, <1>4 DEF ViewsPart

LEMMA DealsIsRows == DealsPart => RowsNext
<1> SUFFICES ASSUME DealsPart PROVE RowsNext
  OBVIOUS
<1> USE AbroadIs, MCReportsAssumption DEF MCReportsAssumption
<1>1. CASE Tomorrow \/ \E b \in Buyers : today = 0 /\ AddBuyer(b, Abroad)
  BY <1>1 DEF RowsNext
<1>2. CASE \E d \in Deals : ArchiveDeal(d) \/ \E b \in Buyers, ads \in SUBSET Ads : OpenDeal(d, b, u_one, ads)
  BY <1>2 DEF RowsNext
<1>3. CASE \E s \in Sales : ConfirmSale(s)
  BY <1>3 DEF RowsNext
<1>4. ASSUME NEW s \in Sales, NEW d \in Deals, Draft(s, 0, {d}) PROVE RowsNext
  <2>1. 0 \in Int /\ {d} \in SUBSET Deals
    OBVIOUS
  <2> QED BY <1>4, <2>1, DraftIsAny
<1>5. CASE ActivateSub(i_one) \/ EndSub(i_one) \/ CancelSale(s_one) \/ ActivateSub(i_two) \/ ActivateSub(i_three)
  BY <1>5 DEF RowsNext
<1> QED BY <1>1, <1>2, <1>3, <1>4, <1>5 DEF DealsPart

LEMMA SpendingIsFinances == SpendingPart => FinancesNext
<1> SUFFICES ASSUME SpendingPart PROVE FinancesNext
  OBVIOUS
<1>1. CASE \E active \in BOOLEAN : UpdateRate(Baseline + 1, active)
  BY <1>1, MCReportsAssumption DEF MCReportsAssumption, FinancesNext
<1>2. CASE \E c \in Categories, n \in CategoryNames : CreateCategory(c, n) \/ \E on \in BOOLEAN : UpdateCategory(c, n, on)
  BY <1>2 DEF FinancesNext
<1>3. CASE \E c \in Categories : ArchiveCategory(c)
  BY <1>3 DEF FinancesNext
<1>4. CASE \E e \in Expenses : ArchiveExpense(e)
  BY <1>4 DEF FinancesNext
<1>5. ASSUME NEW e \in Expenses, NEW cs \in Chosen,
             \/ \E coin \in Coins : CreateExpense(e, cs, 1, coin, 0)
             \/ GenerateExpense(e, cs, 1, "local", LastDay)
             \/ UpdateExpense(e, cs, Price, "USD", LastDay)
      PROVE  FinancesNext
  <2>1. cs \in SUBSET Categories /\ LastDay \in Int /\ Price \in Nat /\ 1 \in Nat /\ 0 \in Int
        /\ "local" \in Coins /\ "USD" \in Coins
    BY ReportRowsAssumption DEF Chosen, ReportRowsAssumption, Coins
  <2> QED BY <1>5, <2>1 DEF FinancesNext
<1> QED BY <1>1, <1>2, <1>3, <1>4, <1>5 DEF SpendingPart

\* What a request names are some of the fields.
LEMMA ChangesAreAsked ==
  ASSUME NEW asked \in Changes
  PROVE  \E fields \in SUBSET {"class", "good", "amount", "coin"}, class \in Classes \cup {Nothing},
            good \in Goods \cup {Nothing}, amount \in BOOLEAN, coin \in {"local", "USD", Nothing} :
           asked = AskedOf(fields, class, good, amount, coin)
<1>1. CASE asked \in [class : Maybe(Classes)]
  <2>1. PICK class \in Classes \cup {Nothing} : asked = [class |-> class]
    BY <1>1 DEF Maybe
  <2>2. asked = AskedOf({"class"}, class, Nothing, FALSE, Nothing)
    BY <2>1 DEF AskedOf
  <2> QED BY <2>2
<1>2. CASE asked \in [good : Maybe(Goods)]
  <2>1. PICK good \in Goods \cup {Nothing} : asked = [good |-> good]
    BY <1>2 DEF Maybe
  <2>2. asked = AskedOf({"good"}, Nothing, good, FALSE, Nothing)
    BY <2>1 DEF AskedOf
  <2> QED BY <2>2
<1>3. CASE asked \in [amount : BOOLEAN]
  <2>1. PICK amount \in BOOLEAN : asked = [amount |-> amount]
    BY <1>3
  <2>2. asked = AskedOf({"amount"}, Nothing, Nothing, amount, Nothing)
    BY <2>1 DEF AskedOf
  <2> QED BY <2>2
<1>4. CASE asked \in [amount : {TRUE}, coin : {"USD"}]
  <2>1. asked = [amount |-> TRUE, coin |-> "USD"]
    BY <1>4
  <2> DEFINE all == [class |-> Nothing, good |-> Nothing, amount |-> TRUE, coin |-> "USD"]
             made == [f \in {"amount", "coin"} |-> all[f]]
  <2>3. all.amount = TRUE /\ all.coin = "USD"
    OBVIOUS
  <2>4. asked = made
    <3>1. DOMAIN asked = {"amount", "coin"} /\ asked.amount = TRUE /\ asked.coin = "USD" /\ asked = [f \in {"amount", "coin"} |-> asked[f]]
      BY <2>1
    <3> HIDE DEF all
    <3> QED BY <2>3, <3>1
  <2>2. asked = AskedOf({"amount", "coin"}, Nothing, Nothing, TRUE, "USD")
    BY <2>4 DEF AskedOf
  <2> QED BY <2>2
<1>5. CASE asked = <<>>
  <2>1. asked = AskedOf({}, Nothing, Nothing, FALSE, Nothing)
    BY <1>5 DEF AskedOf
  <2> QED BY <2>1
<1> QED BY <1>1, <1>2, <1>3, <1>4, <1>5 DEF Changes

LEMMA CardsAreBoard == part \in CardParts /\ CardStep => PipelineBoardNext
<1> SUFFICES ASSUME part \in CardParts, CardStep PROVE PipelineBoardNext
  OBVIOUS
<1>1. Kept \in Users
  BY MCReportsAssumption DEF MCReportsAssumption, Kept, Users
<1>2. ASSUME NEW u \in Users, NEW owner \in Users \cup {Nothing}, NEW s \in Columns,
             NEW class \in Classes \cup {Nothing}, NEW good \in Goods \cup {Nothing},
             CreateCard(u, owner, s, class, good)
      PROVE  PipelineBoardNext
  BY <1>2 DEF PipelineBoardNext, EditStep
<1>3. ASSUME NEW u \in Users, NEW asked \in Changes, UpdateCard(u, asked)
      PROVE  PipelineBoardNext
  <2>1. PICK fields \in SUBSET {"class", "good", "amount", "coin"}, class \in Classes \cup {Nothing},
             good \in Goods \cup {Nothing}, amount \in BOOLEAN, coin \in {"local", "USD", Nothing} :
           asked = AskedOf(fields, class, good, amount, coin)
    BY ChangesAreAsked
  <2>2. UpdateCard(u, AskedOf(fields, class, good, amount, coin))
    BY <1>3, <2>1
  <2> QED BY <2>2 DEF PipelineBoardNext, EditStep
<1>4. CASE part = "claims"
  <2>1. \/ \E u \in Users, s \in Columns : CreateCard(u, u, s, Nothing, Nothing) \/ CreateCard(Kept, Nothing, s, Nothing, Nothing)
        \/ \E u \in Users, o \in Cards : ReadCard(u, o)
        \/ \E u \in Users : DropEdit(u) \/ \E to \in Users \cup {Nothing} : AssignCard(u, to)
        \/ \E o \in Cards, archived \in BOOLEAN : ArchiveCard(o, archived)
    BY <1>4 DEF CardStep
  <2>2. CASE \E u \in Users, s \in Columns : CreateCard(u, u, s, Nothing, Nothing) \/ CreateCard(Kept, Nothing, s, Nothing, Nothing)
    BY <1>1, <1>2, <2>2
  <2>3. CASE \E u \in Users : \/ \E o \in Cards : ReadCard(u, o)
                              \/ DropEdit(u) \/ \E to \in Users \cup {Nothing} : AssignCard(u, to)
    <3>1. PICK u \in Users : (\E o \in Cards : ReadCard(u, o)) \/ DropEdit(u) \/ \E to \in Users \cup {Nothing} : AssignCard(u, to)
      BY <2>3
    <3>2. CASE \E o \in Cards : ReadCard(u, o)
      BY <3>2 DEF PipelineBoardNext
    <3>3. CASE DropEdit(u)
      BY <3>3 DEF PipelineBoardNext
    <3>4. CASE \E to \in Users \cup {Nothing} : AssignCard(u, to)
      BY <3>4 DEF PipelineBoardNext
    <3> QED BY <3>1, <3>2, <3>3, <3>4
  <2>4. CASE \E o \in Cards, archived \in BOOLEAN : ArchiveCard(o, archived)
    BY <2>4 DEF PipelineBoardNext
  <2> QED BY <2>1, <2>2, <2>3, <2>4
<1>5. CASE part = "interests"
  <2>1. \/ \E s \in Columns, k \in Classes \cup {Nothing}, g \in Goods \cup {Nothing} : CreateCard(Kept, Nothing, s, k, g)
        \/ \E u \in Hands, o \in Cards : ReadCard(u, o)
        \/ \E u \in Hands, asked \in Changes : UpdateCard(u, asked)
    BY <1>5 DEF CardStep
  <2>2. Hands \subseteq Users
    BY DEF Users
  <2>3. CASE \E s \in Columns, k \in Classes \cup {Nothing}, g \in Goods \cup {Nothing} : CreateCard(Kept, Nothing, s, k, g)
    BY <1>1, <1>2, <2>3
  <2>4. CASE \E u \in Hands, asked \in Changes : UpdateCard(u, asked)
    BY <1>3, <2>2, <2>4
  <2>5. CASE \E u \in Hands, o \in Cards : ReadCard(u, o)
    BY <2>2, <2>5 DEF PipelineBoardNext
  <2> QED BY <2>1, <2>3, <2>4, <2>5
<1>6. CASE part = "board"
  <2>1. \/ \E s \in Columns : CreateCard(Kept, Nothing, s, Nothing, Nothing) \/ ArchiveColumn(s) \/ RestoreColumn(s) \/ ReadPage(s)
        \/ \E o \in Cards : \/ \E s \in Columns : MoveCard(o, s) \/ ReopenCard(o, s)
                            \/ \E archived \in BOOLEAN : ArchiveCard(o, archived)
        \/ CloseColumn
    BY <1>6 DEF CardStep
  <2>2. CASE \E s \in Columns : CreateCard(Kept, Nothing, s, Nothing, Nothing)
    BY <1>1, <1>2, <2>2
  <2> QED BY <2>1, <2>2 DEF PipelineBoardNext
<1> QED BY <1>4, <1>5, <1>6 DEF CardParts

LEMMA PartsStep ==
  ASSUME [MCReportsNext]_mcVars
  PROVE  /\ [FiguresNext]_viewVars /\ [WorkListsNext]_workVars /\ [InboxStep]_inboxVars
         /\ [PipelineBoardNext]_boardVars /\ [DailyMetricsNext]_metricVars
<1> DEFINE Done == /\ [FiguresNext]_viewVars /\ [WorkListsNext]_workVars /\ [InboxStep]_inboxVars
                   /\ [PipelineBoardNext]_boardVars /\ [DailyMetricsNext]_metricVars
<1>1. (UNCHANGED rows /\ UNCHANGED financeVars) => UNCHANGED viewVars
  BY DEF rows, viewVars, rowVars
<1>2. CASE UNCHANGED mcVars
  <2>1. UNCHANGED <<rows, financeVars, workVars, inboxVars, boardVars, metricVars>>
    BY <1>2 DEF mcVars
  <2> QED BY <1>1, <2>1
<1>3. CASE /\ UNCHANGED <<workVars, inboxVars, boardVars, metricVars, financeVars>>
           /\ \/ part = "sold" /\ SoldPart /\ UNCHANGED view
              \/ part = "paid" /\ PaidPart /\ UNCHANGED view
              \/ part = "views" /\ (Refresh \/ (ViewsPart /\ UNCHANGED view))
              \/ part = "deals" /\ DealsPart /\ UNCHANGED view
  <2>1. FiguresNext
    BY <1>3, SoldIsRows, PaidIsRows, ViewsIsRows, DealsIsRows DEF FiguresNext
  <2> QED BY <1>3, <2>1
<1>4. CASE (TaskStep \/ CycleStep \/ OrderStep \/ TestStep) /\ UNCHANGED <<rows, inboxVars, boardVars, metricVars, financeVars>>
  BY <1>1, <1>4 DEF WorkListsNext
<1>5. CASE DailyMetricsNext /\ UNCHANGED <<rows, workVars, inboxVars, boardVars, financeVars>>
  BY <1>1, <1>5
<1>6. CASE SpendingPart /\ UNCHANGED <<rows, workVars, inboxVars, boardVars, metricVars>>
  <2>1. FiguresNext
    BY <1>6, SpendingIsFinances DEF FiguresNext, rows, rowVars
  <2> QED BY <1>6, <2>1
<1>7. CASE InboxStep /\ UNCHANGED <<rows, workVars, boardVars, metricVars, financeVars>>
  BY <1>1, <1>7
<1>8. CASE part \in CardParts /\ CardStep /\ UNCHANGED <<rows, workVars, inboxVars, metricVars, financeVars>>
  <2>1. PipelineBoardNext
    BY <1>8, CardsAreBoard
  <2> QED BY <1>1, <1>8, <2>1
<1> QED BY <1>2, <1>3, <1>4, <1>5, <1>6, <1>7, <1>8 DEF MCReportsNext

\* What the runs explore are behaviours of the figures, of the lists of work, of the inbox,
\* of the board and of the metrics, so what holds of those holds of them.
THEOREM PartsAreBehaviours ==
  MCReportsSpec => FiguresSpec /\ WorkListsSpec /\ SmartInboxSpec /\ PipelineBoardSpec /\ DailyMetricsSpec
<1>1. [MCReportsNext]_mcVars => /\ [FiguresNext]_viewVars /\ [WorkListsNext]_workVars /\ [InboxStep]_inboxVars
                                /\ [PipelineBoardNext]_boardVars /\ [DailyMetricsNext]_metricVars
  BY PartsStep
<1> QED BY <1>1, PartsBegin, PTL DEF MCReportsSpec, FiguresSpec, WorkListsSpec, SmartInboxSpec, PipelineBoardSpec,
        DailyMetricsSpec

\* However long the business runs, no list forgets what waits: the center of work, my day
\* and the renewals, the inbox, and the board (the lists of the follow-ups, renewals,
\* fulfillment and trials services, the smart inbox, and the board of opportunities).
THEOREM WorkStaysInSightEverywhere == MCReportsSpec => []WorkInSight
<1>1. NothingForgotten /\ InboxKeepsInSight /\ BoardIsWhole => WorkInSight
  BY DEF WorkInSight
<1> QED BY <1>1, PartsAreBehaviours, NothingIsForgotten, InboxKeepsAll, BoardIsWholeAlways, PTL


----------------------------------------------------------------------------
(* What the rows of the figures are.                                       *)

Ones(S) == {{x} : x \in S}
Dated == Days \cup {Unset}

BuyerRow == [state : {Void, "live", "removed"}, country : Countries, made : Dated, customer : BOOLEAN]
DealRow == [state : {Void, "live", "archived"}, of : SUBSET Buyers, by : SUBSET Sellers, ad : SUBSET Ads,
            stage : {"POTENTIAL_BUYER", "PURCHASED"}, made : Dated]
SaleRow == [status : {Void, "DRAFT", "CONFIRMED", "CANCELLED", "removed"}, of : SUBSET Buyers, by : SUBSET Sellers,
            deal : SUBSET Deals, made : Dated, sold : Dated, extra : Int]
SubRow == [status : {Void, "PENDING", "ACTIVE", "CANCELLED", "removed"}, of : SUBSET Buyers, starts : Dated, ends : Dated]
LineRow == [total : Nat, name : Names]
TakingRow == [status : {Void, "CONFIRMED", "REFUNDED"}, net : Nat, lost : Nat, back : Nat,
              method : SUBSET Methods, day : Dated]
DeliveryRow == [state : {Void, "live"}, by : Providers, active : Dated]

RowsTyped ==
  /\ today \in Days /\ name \in Names
  /\ buyer \in [Buyers -> BuyerRow] /\ deal \in [Deals -> DealRow] /\ sale \in [Sales -> SaleRow]
  /\ sub \in [Lines -> SubRow] /\ line \in [Lines -> LineRow]
  /\ taking \in [Takings -> TakingRow] /\ delivery \in [Deliveries -> DeliveryRow]

\* A row that is there has one of each row it refers to.
DealRight(row) == Exists(row) => row.of \in Ones(Buyers) /\ row.by \in Ones(Sellers) /\ row.made \in Days
SaleRight(row) ==
  row.status # Void => /\ row.of \in Ones(Buyers) /\ row.by \in Ones(Sellers) /\ row.made \in Days
                       /\ row.deal \in {{}} \cup Ones(Deals)
SubRight(row) == row.status # Void => row.of \in Ones(Buyers)
TakingRight(row) ==
  /\ row.status # Void => row.method \in Ones(Methods) /\ row.day \in Days
  /\ row.status = Void => row.back = row.net
  /\ row.back <= row.net

\* A sale of less than nothing is not drafted, and one no longer billed holds nothing.
RowsInv ==
  /\ RowsTyped
  /\ \A d \in Deals : DealRight(deal[d])
  /\ \A s \in Sales : /\ SaleRight(sale[s])
                      /\ \A d \in sale[s].deal : Exists(deal[d])
                      /\ sale[s].status # Void => Total(s) >= 0
  /\ \A l \in Lines : SubRight(sub[l])
  /\ \A t \in Takings : /\ TakingRight(taking[t])
                        /\ taking[t].back # taking[t].net => TakenFor[t] \in Billed

\* An expense has an amount, in one of the two currencies.
ExpenseRow == [state : {Void, "live", "archived"}, in : SUBSET Categories, amount : Nat, coin : Coins,
               usd : SUBSET Nat, day : Int]
FinancesInv ==
  /\ expense \in [Expenses -> ExpenseRow]
  /\ rateOf \subseteq [rate : Rates, active : BOOLEAN, at : Int]

\* The rows of a sale say what it is worth.
TotalOf(s, held, extra) == SumFunctionOnSet([l \in {l \in Lines : SaleOf[l] = s /\ held[l].total > 0} |-> held[l].total],
                                            {l \in Lines : SaleOf[l] = s /\ held[l].total > 0}) + extra

LEMMA TotalIs == ASSUME NEW s PROVE Total(s) = TotalOf(s, line, sale[s].extra) /\ Total(s)' = TotalOf(s, line', sale'[s].extra)
BY DEF Total, Subtotal, SumOf, LinesOf, LineTotal, TotalOf

LEMMA TotalOfSame ==
  ASSUME NEW s, NEW held, NEW more, NEW extra, \A l \in Lines : SaleOf[l] = s => more[l] = held[l]
  PROVE  TotalOf(s, held, extra) = TotalOf(s, more, extra)
<1> DEFINE S == {l \in Lines : SaleOf[l] = s /\ held[l].total > 0}
           T == {l \in Lines : SaleOf[l] = s /\ more[l].total > 0}
<1>1. S = T
  OBVIOUS
<1>2. [l \in S |-> held[l].total] = [l \in T |-> more[l].total]
  BY <1>1
<1>3. TotalOf(s, held, extra) = SumFunctionOnSet([l \in S |-> held[l].total], S) + extra
  BY DEF TotalOf
<1>4. TotalOf(s, more, extra) = SumFunctionOnSet([l \in T |-> more[l].total], T) + extra
  BY DEF TotalOf
<1> HIDE DEF S, T
<1> QED BY <1>1, <1>2, <1>3, <1>4

LEMMA TotalStays ==
  ASSUME NEW s, sale'[s].extra = sale[s].extra, \A l \in Lines : SaleOf[l] = s => line'[l] = line[l]
  PROVE  Total(s)' = Total(s)
BY TotalIs, TotalOfSame

LEMMA FiguresFinite ==
  /\ IsFiniteSet(Buyers) /\ IsFiniteSet(Countries) /\ IsFiniteSet(Sellers)
  /\ IsFiniteSet(Sales) /\ IsFiniteSet(Lines)
  /\ IsFiniteSet(Names) /\ IsFiniteSet(Takings) /\ IsFiniteSet(Methods)
  /\ IsFiniteSet(Deals) /\ IsFiniteSet(Ads) /\ IsFiniteSet(Deliveries)
BY ReportRowsAssumption DEF ReportRowsAssumption

LEMMA RowsBegin == RowsInit => RowsInv
<1> SUFFICES ASSUME RowsInit PROVE RowsInv
  OBVIOUS
<1>1. Unset \in Dated /\ 0 \in Days /\ NoCountry \in Countries /\ NoProvider \in Providers /\ name \in Names
  BY ReportRowsAssumption DEF ReportRowsAssumption, RowsInit, Dated, Days
<1>2. /\ NoBuyer \in BuyerRow /\ NoDeal \in DealRow /\ NoSaleYet \in SaleRow /\ NoSub \in SubRow
      /\ NoTaking \in TakingRow /\ NoDelivery \in DeliveryRow /\ [total |-> 0, name |-> name] \in LineRow
  BY <1>1 DEF NoBuyer, BuyerRow, NoDeal, DealRow, NoSaleYet, SaleRow, NoSub, SubRow, NoTaking, TakingRow, NoDelivery,
              DeliveryRow, LineRow
<1>3. RowsTyped
  BY <1>1, <1>2 DEF RowsTyped, RowsInit
<1>4. DealRight(NoDeal) /\ SaleRight(NoSaleYet) /\ SubRight(NoSub) /\ TakingRight(NoTaking)
  BY DEF DealRight, NoDeal, Exists, SaleRight, NoSaleYet, SubRight, NoSub, TakingRight, NoTaking
<1>5. NoSaleYet.deal = {} /\ NoSaleYet.status = Void /\ NoTaking.back = NoTaking.net
  BY DEF NoSaleYet, NoTaking
<1> QED BY <1>3, <1>4, <1>5 DEF RowsInv, RowsInit

\* Steps that touch no deal, sale, line, subscription or payment.
LEMMA OthersKeep ==
  ASSUME RowsInv, RowsTyped', UNCHANGED <<deal, sale, sub, line, taking>>
  PROVE  RowsInv'
<1>1. \A s \in Sales : Total(s)' = Total(s)
  BY TotalStays
<1>2. Billed' = Billed
  BY DEF Billed
<1> QED BY <1>1, <1>2 DEF RowsInv

LEMMA ClockKeeps ==
  ASSUME RowsInv,
         \/ Tomorrow \/ \E n \in Names : RenameProduct(n)
         \/ \E b \in Buyers : RemoveBuyer(b) \/ \E k \in Countries : AddBuyer(b, k) \/ EditCountry(b, k)
         \/ \E f \in Deliveries : Activate(f) \/ \E p \in Providers : Deliver(f, p)
  PROVE  RowsInv'
<1>1. RowsTyped /\ today \in Dated /\ today \in Int /\ LastDay \in Nat
  BY ReportRowsAssumption DEF ReportRowsAssumption, RowsInv, RowsTyped, Dated, Days
<1>2. CASE Tomorrow
  <2>1. today + 1 \in Days
    BY <1>1, <1>2 DEF Tomorrow, RowsTyped, Days
  <2> QED BY <1>1, <1>2, <2>1, OthersKeep DEF Tomorrow, RowsTyped
<1>3. CASE \E n \in Names : RenameProduct(n)
  BY <1>1, <1>3, OthersKeep DEF RenameProduct, RowsTyped
<1>4. ASSUME NEW b \in Buyers, NEW row \in BuyerRow, buyer' = [buyer EXCEPT ![b] = row],
             UNCHANGED <<today, deal, sale, sub, line, taking, delivery, name>>
      PROVE  RowsInv'
  BY <1>1, <1>4, OthersKeep DEF RowsTyped
<1>5. ASSUME NEW f \in Deliveries, NEW row \in DeliveryRow, delivery' = [delivery EXCEPT ![f] = row],
             UNCHANGED <<today, buyer, deal, sale, sub, line, taking, name>>
      PROVE  RowsInv'
  BY <1>1, <1>5, OthersKeep DEF RowsTyped
<1>6. ASSUME NEW b \in Buyers, RemoveBuyer(b) PROVE RowsInv'
  <2> DEFINE row == [buyer[b] EXCEPT !.state = "removed"]
  <2>1. row \in BuyerRow /\ buyer' = [buyer EXCEPT ![b] = row]
    BY <1>1, <1>6 DEF RemoveBuyer, BuyerRow, RowsTyped
  <2> HIDE DEF row
  <2> QED BY <1>4, <1>6, <2>1 DEF RemoveBuyer
<1>7. ASSUME NEW b \in Buyers, NEW k \in Countries, AddBuyer(b, k) PROVE RowsInv'
  <2> DEFINE row == [state |-> "live", country |-> k, made |-> today, customer |-> FALSE]
  <2>1. row \in BuyerRow /\ buyer' = [buyer EXCEPT ![b] = row]
    BY <1>1, <1>7 DEF AddBuyer, BuyerRow
  <2> HIDE DEF row
  <2> QED BY <1>4, <1>7, <2>1 DEF AddBuyer
<1>8. ASSUME NEW b \in Buyers, NEW k \in Countries, EditCountry(b, k) PROVE RowsInv'
  <2> DEFINE row == [buyer[b] EXCEPT !.country = k]
  <2>1. row \in BuyerRow /\ buyer' = [buyer EXCEPT ![b] = row]
    BY <1>1, <1>8 DEF EditCountry, BuyerRow, RowsTyped
  <2> HIDE DEF row
  <2> QED BY <1>4, <1>8, <2>1 DEF EditCountry
<1>9. ASSUME NEW f \in Deliveries, Activate(f) PROVE RowsInv'
  <2> DEFINE row == [delivery[f] EXCEPT !.active = today]
  <2>1. row \in DeliveryRow /\ delivery' = [delivery EXCEPT ![f] = row]
    BY <1>1, <1>9 DEF Activate, DeliveryRow, RowsTyped
  <2> HIDE DEF row
  <2> QED BY <1>5, <1>9, <2>1 DEF Activate
<1>10. ASSUME NEW f \in Deliveries, NEW p \in Providers, Deliver(f, p) PROVE RowsInv'
  <2> DEFINE row == [state |-> "live", by |-> p, active |-> Unset]
  <2>1. row \in DeliveryRow /\ delivery' = [delivery EXCEPT ![f] = row]
    BY <1>1, <1>10 DEF Deliver, DeliveryRow, Dated
  <2> HIDE DEF row
  <2> QED BY <1>5, <1>10, <2>1 DEF Deliver
<1> QED BY <1>2, <1>3, <1>6, <1>7, <1>8, <1>9, <1>10

LEMMA DealsKeep ==
  ASSUME RowsInv, NEW d \in Deals,
         \/ ArchiveDeal(d)
         \/ \E b \in Buyers, u \in Sellers, ads \in SUBSET Ads : OpenDeal(d, b, u, ads)
  PROVE  RowsInv'
<1>1. RowsTyped /\ today \in Days /\ today \in Dated
  BY DEF RowsInv, RowsTyped, Dated
<1>2. ASSUME NEW row \in DealRow, DealRight(row), Exists(row), deal' = [deal EXCEPT ![d] = row],
             UNCHANGED <<today, buyer, sale, sub, line, taking, delivery, name>>
      PROVE  RowsInv'
  <2>1. RowsTyped' /\ \A e \in Deals : DealRight(deal'[e]) /\ (Exists(deal[e]) => Exists(deal'[e]))
    BY <1>1, <1>2 DEF RowsTyped, RowsInv
  <2>2. \A s \in Sales : Total(s)' = Total(s)
    BY <1>2, TotalStays
  <2>3. Billed' = Billed
    BY <1>2 DEF Billed
  <2>4. \A s \in Sales : sale[s].deal \subseteq Deals
    BY <1>1 DEF RowsTyped, SaleRow
  <2> QED BY <1>2, <2>1, <2>2, <2>3, <2>4 DEF RowsInv
<1>3. CASE ArchiveDeal(d)
  <2> DEFINE row == [deal[d] EXCEPT !.state = "archived"]
  <2>1. deal[d] \in DealRow /\ DealRight(deal[d]) /\ Live(deal[d])
    BY <1>1, <1>3 DEF RowsTyped, RowsInv, ArchiveDeal
  <2>2. row \in DealRow /\ DealRight(row) /\ Exists(row)
    BY <2>1 DEF DealRow, DealRight, Exists, Live, Void
  <2>3. deal' = [deal EXCEPT ![d] = row]
    BY <1>3 DEF ArchiveDeal
  <2> HIDE DEF row
  <2> QED BY <1>2, <1>3, <2>2, <2>3 DEF ArchiveDeal
<1>4. ASSUME NEW b \in Buyers, NEW u \in Sellers, NEW ads \in SUBSET Ads, OpenDeal(d, b, u, ads) PROVE RowsInv'
  <2> DEFINE row == [state |-> "live", of |-> {b}, by |-> {u}, ad |-> ads, stage |-> "POTENTIAL_BUYER", made |-> today]
  <2>1. row \in DealRow /\ DealRight(row) /\ Exists(row)
    BY <1>1 DEF DealRow, DealRight, Exists, Void, Ones
  <2>2. deal' = [deal EXCEPT ![d] = row]
    BY <1>4 DEF OpenDeal
  <2> HIDE DEF row
  <2> QED BY <1>2, <1>4, <2>1, <2>2 DEF OpenDeal
<1> QED BY <1>3, <1>4

\* A set that sums up to nothing, and where nothing is less, has nothing.
LEMMA SumOfOne ==
  ASSUME NEW f, NEW S, IsFiniteSet(S), \A x \in S : f[x] \in Nat, SumFunctionOnSet(f, S) <= 0, NEW x \in S
  PROVE  f[x] = 0
<1>1. IsFiniteSet({x}) /\ {x} \subseteq S /\ {x} \ {x} = {} /\ f[x] \in Nat /\ f[x] \in Int
  <2>1. IsFiniteSet({x}) /\ {x} \subseteq S
    BY FS_Subset
  <2>2. {x} \ {x} = {}
    OBVIOUS
  <2> QED BY <2>1, <2>2
<1>2. SumFunctionOnSet(f, {x}) <= SumFunctionOnSet(f, S) /\ 0 <= SumFunctionOnSet(f, {x})
  BY <1>1, SumOfPart
<1>3. SumFunctionOnSet(f, {x}) = f[x] + SumFunctionOnSet(f, {})
  <2>1. \A y \in {x} : f[y] \in Int
    BY <1>1
  <2>2. SumFunctionOnSet(f, {x}) = f[x] + SumFunctionOnSet(f, {x} \ {x})
    BY <1>1, <2>1, SumTakes
  <2> QED BY <1>1, <2>2
<1>4. SumFunctionOnSet(f, {}) = 0
  BY SumOfNone
<1>5. SumFunctionOnSet(f, S) \in Int
  <2>1. \A y \in S : f[y] \in Int
    OBVIOUS
  <2> QED BY <2>1, SumIsInt
<1> QED BY <1>1, <1>2, <1>3, <1>4, <1>5

LEMMA NothingHeld ==
  ASSUME RowsInv, NEW s, HeldFor(s) <= 0, NEW t \in Takings, TakenFor[t] = s
  PROVE  taking[t].back = taking[t].net
<1> DEFINE S == {v \in Takings : TakenFor[v] = s /\ taking[v].status \in {"CONFIRMED", "REFUNDED"}}
           f == [v \in S |-> taking[v].net - taking[v].back]
<1>1. HeldFor(s) = SumFunctionOnSet(f, S)
  BY DEF HeldFor, SumOf
<1>2. \A v \in Takings : taking[v].net \in Nat /\ taking[v].back \in Nat /\ taking[v].back <= taking[v].net
  BY DEF RowsInv, RowsTyped, TakingRow, TakingRight
<1>3. \A v \in S : f[v] = taking[v].net - taking[v].back /\ f[v] \in Nat
  BY <1>2
<1>4. IsFiniteSet(S)
  <2>1. S \subseteq Takings
    OBVIOUS
  <2> HIDE DEF S
  <2> QED BY <2>1, FiguresFinite, FS_Subset
<1>5. taking[t].status = Void => taking[t].back = taking[t].net
  BY DEF RowsInv, TakingRight
<1>6. taking[t].status \in {Void, "CONFIRMED", "REFUNDED"}
  BY DEF RowsInv, RowsTyped, TakingRow
<1>7. CASE t \in S
  <2>1. \A v \in S : f[v] \in Nat
    BY <1>3
  <2> HIDE DEF f, S
  <2>2. f[t] = 0
    BY <1>1, <1>4, <1>7, <2>1, SumOfOne
  <2> QED BY <1>2, <1>3, <1>7, <2>2
<1> QED BY <1>5, <1>6, <1>7

\* Steps of one sale that keep what it is of, its lines and its extra.
LEMMA DraftKeeps ==
  ASSUME RowsInv, NEW s \in Sales, NEW b \in Buyers, NEW u \in Sellers, NEW ds \in SUBSET Deals,
         NEW totals \in [Lines -> Nat], NEW extra \in Int, DraftSale(s, b, u, ds, totals, extra)
  PROVE  RowsInv'
<1> DEFINE row == [status |-> "DRAFT", of |-> {b}, by |-> {u}, deal |-> ds, made |-> today, sold |-> Unset,
                   extra |-> extra]
<1>1. RowsTyped /\ today \in Days /\ today \in Dated /\ Unset \in Dated /\ name \in Names
  BY DEF RowsInv, RowsTyped, Dated
<1>2. /\ sale[s].status = Void /\ sale' = [sale EXCEPT ![s] = row]
      /\ line' = [l \in Lines |-> IF SaleOf[l] = s THEN [total |-> totals[l], name |-> name] ELSE line[l]]
      /\ UNCHANGED <<today, buyer, deal, sub, taking, delivery, name>>
      /\ Total(s)' >= 0
      /\ ds \in {{}} \cup {{d} : d \in {e \in Deals : Exists(deal[e]) /\ deal[e].of = {b}}}
  BY DEF DraftSale
<1>3. ds \in {{}} \cup Ones(Deals) /\ \A d \in ds : Exists(deal[d])
  BY <1>2 DEF Ones
<1>4. row \in SaleRow /\ SaleRight(row) /\ row.status = "DRAFT" /\ row.deal = ds
  BY <1>1, <1>3 DEF SaleRow, SaleRight, Ones
<1> HIDE DEF row
<1>5. RowsTyped'
  <2>1. sale' \in [Sales -> SaleRow]
    BY <1>1, <1>2, <1>4 DEF RowsTyped
  <2>2. line' \in [Lines -> LineRow]
    BY <1>1, <1>2 DEF RowsTyped, LineRow
  <2> QED BY <1>1, <1>2, <2>1, <2>2 DEF RowsTyped
<1>6. \A z \in Sales : z # s => sale'[z] = sale[z]
  BY <1>1, <1>2 DEF RowsTyped
<1>7. sale'[s] = row
  BY <1>1, <1>2 DEF RowsTyped
<1>8. \A z \in Sales : z # s => Total(z)' = Total(z)
  <2> SUFFICES ASSUME NEW z \in Sales, z # s PROVE Total(z)' = Total(z)
    OBVIOUS
  <2>1. \A l \in Lines : SaleOf[l] = z => line'[l] = line[l]
    BY <1>2
  <2> QED BY <1>6, <2>1, TotalStays
<1>9. \A z \in Sales : /\ SaleRight(sale'[z])
                       /\ \A d \in sale'[z].deal : Exists(deal'[d])
                       /\ sale'[z].status # Void => Total(z)' >= 0
  BY <1>2, <1>3, <1>4, <1>6, <1>7, <1>8 DEF RowsInv
<1>10. Billed \subseteq Billed'
  BY <1>2, <1>6 DEF Billed, Void
<1> QED BY <1>2, <1>5, <1>9, <1>10 DEF RowsInv

\* Steps of one sale that leave its lines, its deal and its extra.
LEMMA SaleKeeps ==
  ASSUME RowsInv, NEW s \in Sales, NEW row \in SaleRow, sale' = [sale EXCEPT ![s] = row],
         sale[s].status # Void, SaleRight(row), row.deal = sale[s].deal, row.extra = sale[s].extra,
         s \notin Billed \/ row.status \in {"CONFIRMED", "FULFILLED"} \/ HeldFor(s) <= 0,
         UNCHANGED <<today, line, taking, delivery, name>>,
         sub' \in [Lines -> SubRow], \A l \in Lines : SubRight(sub'[l]),
         buyer' \in [Buyers -> BuyerRow],
         deal' \in [Deals -> DealRow], \A d \in Deals : DealRight(deal'[d]) /\ (Exists(deal[d]) => Exists(deal'[d]))
  PROVE  RowsInv'
<1>1. RowsTyped /\ RowsTyped'
  BY DEF RowsInv, RowsTyped
<1>2. (\A z \in Sales : z # s => sale'[z] = sale[z]) /\ sale'[s] = row
  BY <1>1 DEF RowsTyped
<1>3. \A z \in Sales : Total(z)' = Total(z)
  <2> SUFFICES ASSUME NEW z \in Sales PROVE Total(z)' = Total(z)
    OBVIOUS
  <2>1. sale'[z].extra = sale[z].extra /\ \A l \in Lines : SaleOf[l] = z => line'[l] = line[l]
    BY <1>2
  <2> QED BY <2>1, TotalStays
<1>4. \A z \in Sales : sale[z].deal \subseteq Deals
  BY <1>1 DEF RowsTyped, SaleRow
<1>5. \A z \in Sales : /\ SaleRight(sale'[z])
                       /\ \A d \in sale'[z].deal : Exists(deal'[d])
                       /\ sale'[z].status # Void => Total(z)' >= 0
  BY <1>2, <1>3, <1>4 DEF RowsInv
<1>6. \A t \in Takings : taking'[t].back # taking'[t].net => TakenFor[t] \in Billed'
  <2> SUFFICES ASSUME NEW t \in Takings, taking[t].back # taking[t].net PROVE TakenFor[t] \in Billed'
    OBVIOUS
  <2>1. TakenFor[t] \in Billed
    BY DEF RowsInv
  <2>2. ~(TakenFor[t] = s /\ HeldFor(s) <= 0)
    BY NothingHeld
  <2> QED BY <1>2, <2>1, <2>2 DEF Billed
<1> QED BY <1>1, <1>5, <1>6 DEF RowsInv

LEMMA ConfirmKeeps ==
  ASSUME RowsInv, NEW s \in Sales, ConfirmSale(s)
  PROVE  RowsInv'
<1> DEFINE row == [sale[s] EXCEPT !.status = "CONFIRMED", !.sold = today]
<1>1. RowsTyped /\ today \in Days /\ today \in Dated /\ Unset \in Dated
  BY DEF RowsInv, RowsTyped, Dated
<1>2. sale[s] \in SaleRow /\ SaleRight(sale[s]) /\ sale[s].status = "DRAFT" /\ sale[s].of \in Ones(Buyers)
  BY <1>1 DEF RowsTyped, RowsInv, ConfirmSale, SaleRight, Void
<1>3. row \in SaleRow /\ SaleRight(row) /\ row.deal = sale[s].deal /\ row.extra = sale[s].extra /\ row.status = "CONFIRMED"
  BY <1>1, <1>2 DEF SaleRow, SaleRight, Void
<1>4. sale' = [sale EXCEPT ![s] = row]
  BY <1>1, <1>2 DEF ConfirmSale, SaleRow, RowsTyped
<1>5. sub' \in [Lines -> SubRow] /\ \A l \in Lines : SubRight(sub'[l])
  <2> DEFINE more == [status |-> "PENDING", of |-> sale[s].of, starts |-> today, ends |-> Unset]
  <2>1. more \in SubRow /\ SubRight(more)
    BY <1>1, <1>2 DEF SubRow, SubRight, Ones
  <2>2. sub' = [l \in Lines |-> IF l \in LinesOf(s) THEN more ELSE sub[l]]
    BY DEF ConfirmSale
  <2> HIDE DEF more
  <2> QED BY <1>1, <2>1, <2>2 DEF RowsTyped, RowsInv
<1>6. deal' \in [Deals -> DealRow] /\ \A d \in Deals : DealRight(deal'[d]) /\ (Exists(deal[d]) => Exists(deal'[d]))
  <2>1. \A d \in Deals : deal'[d] = IF d \in sale[s].deal THEN [deal[d] EXCEPT !.stage = "PURCHASED"] ELSE deal[d]
    BY DEF ConfirmSale
  <2>2. \A d \in Deals : LET won == [deal[d] EXCEPT !.stage = "PURCHASED"]
                         IN won \in DealRow /\ DealRight(won) /\ (Exists(deal[d]) => Exists(won))
    BY <1>1 DEF RowsTyped, DealRow, RowsInv, DealRight, Exists
  <2>3. \A d \in Deals : deal'[d] \in DealRow /\ DealRight(deal'[d]) /\ (Exists(deal[d]) => Exists(deal'[d]))
    BY <1>1, <2>1, <2>2 DEF RowsTyped, RowsInv
  <2>4. deal' = [d \in Deals |-> deal'[d]]
    BY DEF ConfirmSale
  <2> QED BY <2>3, <2>4
<1>7. buyer' \in [Buyers -> BuyerRow]
  <2>1. buyer' = [b \in Buyers |-> IF b \in sale[s].of /\ sale[s].deal # {}
                                   THEN [buyer[b] EXCEPT !.customer = TRUE] ELSE buyer[b]]
    BY DEF ConfirmSale
  <2>2. \A b \in Buyers : [buyer[b] EXCEPT !.customer = TRUE] \in BuyerRow
    BY <1>1 DEF RowsTyped, BuyerRow
  <2> QED BY <1>1, <2>1, <2>2 DEF RowsTyped
<1>8. UNCHANGED <<today, line, taking, delivery, name>>
  BY DEF ConfirmSale
<1> HIDE DEF row
<1> QED BY <1>2, <1>3, <1>4, <1>5, <1>6, <1>7, <1>8, SaleKeeps DEF Void

LEMMA CorrectKeeps ==
  ASSUME RowsInv, NEW s \in Sales, NEW b \in Buyers, NEW sold \in Dated, CorrectSale(s, b, sold)
  PROVE  RowsInv'
<1> DEFINE row == [sale[s] EXCEPT !.of = {b}, !.sold = sold]
<1>1. RowsTyped
  BY DEF RowsInv
<1>2. sale[s] \in SaleRow /\ SaleRight(sale[s]) /\ s \in Billed /\ sale[s].status \in {"CONFIRMED", "FULFILLED"}
  BY <1>1 DEF RowsTyped, RowsInv, CorrectSale, Billed
<1>3. row \in SaleRow /\ SaleRight(row) /\ row.deal = sale[s].deal /\ row.extra = sale[s].extra
      /\ row.status \in {"CONFIRMED", "FULFILLED"}
  BY <1>1, <1>2 DEF SaleRow, SaleRight, Void, Ones
<1>4. sale' = [sale EXCEPT ![s] = row]
  BY <1>1, <1>2 DEF CorrectSale, SaleRow, RowsTyped
<1>5. sub' \in [Lines -> SubRow] /\ \A l \in Lines : SubRight(sub'[l])
  <2>1. sub' = [l \in Lines |-> IF l \in SubsOf(s) THEN [sub[l] EXCEPT !.of = {b}] ELSE sub[l]]
    BY DEF CorrectSale
  <2>2. \A l \in Lines : [sub[l] EXCEPT !.of = {b}] \in SubRow /\ SubRight([sub[l] EXCEPT !.of = {b}])
    BY <1>1 DEF RowsTyped, SubRow, SubRight, Ones
  <2> QED BY <1>1, <2>1, <2>2 DEF RowsTyped, RowsInv
<1>6. UNCHANGED <<today, buyer, deal, line, taking, delivery, name>>
  BY DEF CorrectSale
<1>7. buyer' \in [Buyers -> BuyerRow] /\ deal' \in [Deals -> DealRow]
      /\ \A d \in Deals : DealRight(deal'[d]) /\ (Exists(deal[d]) => Exists(deal'[d]))
  BY <1>1, <1>6 DEF RowsTyped, RowsInv
<1> HIDE DEF row
<1> QED BY <1>2, <1>3, <1>4, <1>5, <1>6, <1>7, SaleKeeps DEF Void

LEMMA EndKeeps ==
  ASSUME RowsInv, NEW s \in Sales, CancelSale(s) \/ RemoveSale(s)
  PROVE  RowsInv'
<1> DEFINE row == [sale[s] EXCEPT !.status = sale'[s].status]
<1>1. RowsTyped
  BY DEF RowsInv
<1>2. sale[s] \in SaleRow /\ SaleRight(sale[s]) /\ HeldFor(s) <= 0 /\ sale[s].status # Void
  BY <1>1 DEF RowsTyped, RowsInv, CancelSale, RemoveSale, Void
<1>3. \/ sale' = [sale EXCEPT ![s].status = "CANCELLED"]
      \/ sale' = [sale EXCEPT ![s].status = "removed"]
  BY DEF CancelSale, RemoveSale
<1>4. sale'[s].status \in {"CANCELLED", "removed"} /\ sale' = [sale EXCEPT ![s] = row]
  BY <1>1, <1>2, <1>3 DEF RowsTyped, SaleRow
<1>5. row \in SaleRow /\ SaleRight(row) /\ row.deal = sale[s].deal /\ row.extra = sale[s].extra
  BY <1>2, <1>4 DEF SaleRow, SaleRight, Void
<1>6. sub' \in [Lines -> SubRow] /\ \A l \in Lines : SubRight(sub'[l])
  <2>1. sub' = sub \/ sub' = [l \in Lines |-> IF l \in SubsOf(s) THEN [sub[l] EXCEPT !.status = "removed"] ELSE sub[l]]
    BY DEF CancelSale, RemoveSale
  <2>2. \A l \in SubsOf(s) : [sub[l] EXCEPT !.status = "removed"] \in SubRow /\ SubRight([sub[l] EXCEPT !.status = "removed"])
    <3> SUFFICES ASSUME NEW l \in SubsOf(s)
                 PROVE  [sub[l] EXCEPT !.status = "removed"] \in SubRow /\ SubRight([sub[l] EXCEPT !.status = "removed"])
      OBVIOUS
    <3>1. l \in Lines /\ sub[l].status # Void
      BY DEF SubsOf, LinesOf
    <3>2. sub[l] \in SubRow /\ SubRight(sub[l])
      BY <1>1, <3>1 DEF RowsTyped, RowsInv
    <3> QED BY <3>1, <3>2 DEF SubRow, SubRight
  <2>3. sub \in [Lines -> SubRow] /\ \A l \in Lines : SubRight(sub[l])
    BY <1>1 DEF RowsTyped, RowsInv
  <2> QED BY <2>1, <2>2, <2>3
<1>7. UNCHANGED <<today, buyer, deal, line, taking, delivery, name>>
  BY DEF CancelSale, RemoveSale
<1>8. buyer' \in [Buyers -> BuyerRow] /\ deal' \in [Deals -> DealRow]
      /\ \A d \in Deals : DealRight(deal'[d]) /\ (Exists(deal[d]) => Exists(deal'[d]))
  BY <1>1, <1>7 DEF RowsTyped, RowsInv
<1> HIDE DEF row
<1> QED BY <1>2, <1>4, <1>5, <1>6, <1>7, <1>8, SaleKeeps

LEMMA SubsKeep ==
  ASSUME RowsInv, NEW l \in Lines, ActivateSub(l) \/ EndSub(l)
  PROVE  RowsInv'
<1>1. RowsTyped /\ today \in Dated
  BY DEF RowsInv, RowsTyped, Dated
<1>2. sub[l] \in SubRow /\ SubRight(sub[l]) /\ sub[l].status # Void
  BY <1>1 DEF RowsTyped, RowsInv, ActivateSub, EndSub, Void
<1>3. \/ sub' = [sub EXCEPT ![l] = [sub[l] EXCEPT !.status = "ACTIVE"]]
      \/ sub' = [sub EXCEPT ![l] = [sub[l] EXCEPT !.status = "CANCELLED", !.ends = today]]
  BY <1>1, <1>2 DEF ActivateSub, EndSub, RowsTyped, SubRow
<1>4. /\ [sub[l] EXCEPT !.status = "ACTIVE"] \in SubRow /\ SubRight([sub[l] EXCEPT !.status = "ACTIVE"])
      /\ [sub[l] EXCEPT !.status = "CANCELLED", !.ends = today] \in SubRow
      /\ SubRight([sub[l] EXCEPT !.status = "CANCELLED", !.ends = today])
  BY <1>1, <1>2 DEF SubRow, SubRight
<1>5. sub' \in [Lines -> SubRow] /\ \A k \in Lines : SubRight(sub'[k])
  BY <1>1, <1>3, <1>4 DEF RowsTyped, RowsInv
<1>6. UNCHANGED <<today, buyer, deal, sale, line, taking, delivery, name>>
  BY DEF ActivateSub, EndSub
<1>7. (\A s \in Sales : Total(s)' = Total(s)) /\ Billed' = Billed
  BY <1>6, TotalStays DEF Billed
<1>8. RowsTyped'
  BY <1>1, <1>5, <1>6 DEF RowsTyped
<1> QED BY <1>5, <1>6, <1>7, <1>8 DEF RowsInv

LEMMA TakingsKeep ==
  ASSUME RowsInv, NEW t \in Takings,
         \/ \E m \in Methods, net \in Nat, lost \in Nat : Take(t, m, net, lost)
         \/ \E amount \in Nat \ {0} : GiveBack(t, amount)
  PROVE  RowsInv'
<1>1. RowsTyped /\ today \in Dated /\ today \in Days
  BY DEF RowsInv, RowsTyped, Dated
<1>2. taking[t] \in TakingRow /\ TakingRight(taking[t])
  BY <1>1 DEF RowsTyped, RowsInv
<1>3. ASSUME NEW row \in TakingRow, TakingRight(row), TakenFor[t] \in Billed, taking' = [taking EXCEPT ![t] = row],
             UNCHANGED <<today, buyer, deal, sale, sub, line, delivery, name>>
      PROVE  RowsInv'
  <2>1. (\A s \in Sales : Total(s)' = Total(s)) /\ Billed' = Billed
    BY <1>3, TotalStays DEF Billed
  <2>2. RowsTyped'
    BY <1>1, <1>3 DEF RowsTyped
  <2>3. \A v \in Takings : TakingRight(taking'[v]) /\ (taking'[v].back # taking'[v].net => TakenFor[v] \in Billed)
    BY <1>1, <1>3 DEF RowsTyped, RowsInv
  <2> QED BY <1>3, <2>1, <2>2, <2>3 DEF RowsInv
<1>4. ASSUME NEW m \in Methods, NEW net \in Nat, NEW lost \in Nat, Take(t, m, net, lost) PROVE RowsInv'
  <2> DEFINE row == [status |-> "CONFIRMED", net |-> net, lost |-> lost, back |-> 0, method |-> {m}, day |-> today]
  <2>1. row \in TakingRow /\ TakingRight(row)
    BY <1>1 DEF TakingRow, TakingRight, Ones, Void
  <2>2. taking' = [taking EXCEPT ![t] = row] /\ TakenFor[t] \in Billed
    BY <1>4 DEF Take
  <2> HIDE DEF row
  <2> QED BY <1>3, <1>4, <2>1, <2>2 DEF Take
<1>5. ASSUME NEW amount \in Nat \ {0}, GiveBack(t, amount) PROVE RowsInv'
  <2> DEFINE row == [taking[t] EXCEPT !.status = "REFUNDED", !.back = taking[t].back + amount]
  <2>1. taking[t].net \in Nat /\ taking[t].back \in Nat /\ amount <= taking[t].net - taking[t].back
        /\ taking[t].status \in {"CONFIRMED", "REFUNDED"}
    BY <1>2, <1>5 DEF TakingRow, GiveBack
  <2>2. taking[t].back + amount \in Nat /\ taking[t].back + amount <= taking[t].net /\ taking[t].back # taking[t].net
    BY <2>1
  <2>3. row \in TakingRow /\ TakingRight(row)
    BY <1>2, <2>1, <2>2 DEF TakingRow, TakingRight, Void
  <2>4. taking' = [taking EXCEPT ![t] = row]
    BY <1>1, <1>2, <1>5 DEF GiveBack, RowsTyped, TakingRow
  <2>5. TakenFor[t] \in Billed
    BY <2>2 DEF RowsInv
  <2> HIDE DEF row
  <2> QED BY <1>3, <1>5, <2>3, <2>4, <2>5 DEF GiveBack
<1> QED BY <1>4, <1>5

LEMMA RowsKeep == RowsInv /\ [RowsNext]_rowVars => RowsInv'
<1> SUFFICES ASSUME RowsInv, [RowsNext]_rowVars PROVE RowsInv'
  OBVIOUS
<1>1. CASE UNCHANGED rowVars
  <2>1. RowsTyped'
    BY <1>1 DEF RowsInv, RowsTyped, rowVars
  <2> QED BY <1>1, <2>1, OthersKeep DEF rowVars
<1>2. CASE \/ Tomorrow \/ \E n \in Names : RenameProduct(n)
           \/ \E b \in Buyers : RemoveBuyer(b) \/ \E k \in Countries : AddBuyer(b, k) \/ EditCountry(b, k)
           \/ \E f \in Deliveries : Activate(f) \/ \E p \in Providers : Deliver(f, p)
  BY <1>2, ClockKeeps
<1>9. ASSUME NEW u \in Sellers, SwitchUser(u) PROVE RowsInv'
  <2>1. RowsTyped'
    BY <1>9 DEF RowsInv, RowsTyped, SwitchUser
  <2> QED BY <1>9, <2>1, OthersKeep DEF SwitchUser
<1>3. CASE \E d \in Deals : \/ ArchiveDeal(d)
                            \/ \E b \in Buyers, u \in Sellers, ads \in SUBSET Ads : OpenDeal(d, b, u, ads)
  BY <1>3, DealsKeep
<1>4. ASSUME NEW s \in Sales, NEW b \in Buyers, NEW sold \in Days \cup {Unset}, CorrectSale(s, b, sold)
      PROVE  RowsInv'
  BY <1>4, CorrectKeeps DEF Dated
<1>5. CASE \E s \in Sales : ConfirmSale(s) \/ CancelSale(s) \/ RemoveSale(s)
  BY <1>5, ConfirmKeeps, EndKeeps
<1>6. CASE \E l \in Lines : ActivateSub(l) \/ EndSub(l)
  BY <1>6, SubsKeep
<1>7. CASE \E t \in Takings : \/ \E m \in Methods, net \in Nat, lost \in Nat : Take(t, m, net, lost)
                              \/ \E amount \in Nat \ {0} : GiveBack(t, amount)
  BY <1>7, TakingsKeep
<1>8. ASSUME NEW s \in Sales, NEW b \in Buyers, NEW u \in Sellers, NEW ds \in SUBSET Deals,
             NEW totals \in [Lines -> Nat], NEW extra \in Int, DraftSale(s, b, u, ds, totals, extra)
      PROVE  RowsInv'
  BY <1>8, DraftKeeps
<1> QED BY <1>1, <1>2, <1>3, <1>4, <1>5, <1>6, <1>7, <1>8, <1>9 DEF RowsNext

LEMMA FinancesBegin == FinancesInit => FinancesInv
<1>1. NoExpense \in ExpenseRow
  BY DEF NoExpense, ExpenseRow, Coins, Unset
<1> QED BY <1>1 DEF FinancesInit, FinancesInv

LEMMA ConvertedIs ==
  ASSUME FinancesInv, NEW amount \in Nat, NEW coin \in Coins
  PROVE  convertToUsd(amount, coin) \in Nat
<1>1. getRate.rate \in Nat
  <2>1. Rates \subseteq Nat /\ Baseline \in Nat
    BY FinancialAssumption DEF FinancialAssumption
  <2>2. CASE \E r \in rateOf : r.active
    <3>1. (CHOOSE r \in rateOf : TRUE) \in rateOf
      BY <2>2
    <3>2. (CHOOSE r \in rateOf : TRUE).rate \in Nat
      BY <2>1, <3>1 DEF FinancesInv
    <3> QED BY <2>2, <3>2 DEF getRate
  <2>3. CASE ~\E r \in rateOf : r.active
    BY <2>1, <2>3 DEF getRate
  <2> QED BY <2>2, <2>3
<1>2. amount * getRate.rate \in Nat
  <2> DEFINE rate == getRate.rate
  <2> HIDE DEF rate
  <2>1. rate \in Nat
    BY <1>1 DEF rate
  <2>2. amount * rate \in Nat
    BY <2>1
  <2> QED BY <2>2 DEF rate
<1> QED BY <1>2 DEF convertToUsd

LEMMA FinancesKeep == RowsInv /\ FinancesInv /\ [FinancesNext]_financeVars => FinancesInv'
<1> SUFFICES ASSUME RowsInv, FinancesInv, [FinancesNext]_financeVars PROVE FinancesInv'
  OBVIOUS
<1>1. CASE UNCHANGED <<expense, rateOf>>
  BY <1>1 DEF FinancesInv
<1>2. ASSUME NEW r \in Rates, NEW active \in BOOLEAN, UpdateRate(r, active) PROVE FinancesInv'
  <2>1. today \in Int
    BY DEF RowsInv, RowsTyped, Days
  <2>2. [rate |-> r, active |-> active, at |-> today] \in [rate : Rates, active : BOOLEAN, at : Int]
    BY <2>1
  <2> QED BY <1>2, <2>2 DEF UpdateRate, FinancesInv
<1>3. CASE \E c \in Categories : \/ ArchiveCategory(c)
                                 \/ \E n \in CategoryNames : CreateCategory(c, n) \/ \E on \in BOOLEAN : UpdateCategory(c, n, on)
  BY <1>1, <1>3 DEF ArchiveCategory, CreateCategory, UpdateCategory
<1>4. ASSUME NEW e \in Expenses, NEW row \in ExpenseRow, expense' = [expense EXCEPT ![e] = row], UNCHANGED rateOf
      PROVE  FinancesInv'
  BY <1>4 DEF FinancesInv
<1>5. ASSUME NEW e \in Expenses, ArchiveExpense(e) PROVE FinancesInv'
  <2> DEFINE row == [expense[e] EXCEPT !.state = "archived"]
  <2>1. row \in ExpenseRow /\ expense' = [expense EXCEPT ![e] = row]
    BY <1>5 DEF FinancesInv, ExpenseRow, ArchiveExpense
  <2> HIDE DEF row
  <2> QED BY <1>4, <1>5, <2>1 DEF ArchiveExpense
<1>6. ASSUME NEW e \in Expenses, NEW cs \in SUBSET Categories, NEW amount \in Nat, NEW coin \in Coins, NEW day \in Int,
             \/ CreateExpense(e, cs, amount, coin, day) \/ UpdateExpense(e, cs, amount, coin, day)
             \/ GenerateExpense(e, cs, amount, coin, day)
      PROVE  FinancesInv'
  <2>1. CASE CreateExpense(e, cs, amount, coin, day)
    <3> DEFINE usd == convertToUsd(amount, coin)
               row == [state |-> "live", in |-> cs, amount |-> amount, coin |-> coin, usd |-> {usd}, day |-> day]
    <3>1. usd \in Nat
      BY ConvertedIs
    <3>2. expense' = [expense EXCEPT ![e] = row]
      BY <2>1 DEF CreateExpense
    <3> HIDE DEF usd
    <3>3. row \in ExpenseRow
      BY <3>1 DEF ExpenseRow
    <3> HIDE DEF row
    <3> QED BY <1>4, <2>1, <3>2, <3>3 DEF CreateExpense
  <2>2. CASE GenerateExpense(e, cs, amount, coin, day)
    <3> DEFINE row == [state |-> "live", in |-> cs, amount |-> amount, coin |-> coin, usd |-> {}, day |-> day]
    <3>1. row \in ExpenseRow /\ expense' = [expense EXCEPT ![e] = row]
      BY <2>2 DEF ExpenseRow, GenerateExpense
    <3> HIDE DEF row
    <3> QED BY <1>4, <2>2, <3>1 DEF GenerateExpense
  <2>3. CASE UpdateExpense(e, cs, amount, coin, day)
    <3> DEFINE row == [expense[e] EXCEPT !.in = cs, !.amount = amount, !.coin = coin, !.day = day]
    <3>1. row \in ExpenseRow /\ expense' = [expense EXCEPT ![e] = row]
      BY <2>3 DEF FinancesInv, ExpenseRow, UpdateExpense
    <3> HIDE DEF row
    <3> QED BY <1>4, <2>3, <3>1 DEF UpdateExpense
  <2> QED BY <1>6, <2>1, <2>2, <2>3
<1>7. CASE UNCHANGED financeVars
  BY <1>1, <1>7 DEF financeVars
<1> QED BY <1>2, <1>3, <1>5, <1>6, <1>7 DEF FinancesNext

LEMMA FiguresKeep == RowsInv /\ FinancesInv /\ [FiguresNext]_viewVars => RowsInv' /\ FinancesInv'
<1> SUFFICES ASSUME RowsInv, FinancesInv, [FiguresNext]_viewVars PROVE RowsInv' /\ FinancesInv'
  OBVIOUS
<1>1. [RowsNext]_rowVars /\ [FinancesNext]_financeVars
  BY DEF FiguresNext, viewVars, Refresh
<1> QED BY <1>1, RowsKeep, FinancesKeep

\* The rows of the figures are what their queries take them for.
LEMMA FiguresHold == FiguresSpec => [](RowsInv /\ FinancesInv)
BY RowsBegin, FinancesBegin, FiguresKeep, PTL DEF FiguresSpec


----------------------------------------------------------------------------
(* The figures reconcile.                                                  *)

Worth == [s \in Sales |-> Total(s)]
Subs0 == [s \in Sales |-> Subtotal(s)]
More == [s \in Sales |-> sale[s].extra]
OfLine == [l \in Lines |-> LineTotal(l)]
Got == [t \in Takings |-> Received(t)]

LEMMA OverIs == ASSUME NEW f, NEW K, DOMAIN f = K PROVE SumOver(f) = SumFunctionOnSet(f, K)
BY SumIsOnSet DEF SumOver

LEMMA LinesAre ==
  ASSUME RowsInv, NEW S, S \subseteq Lines
  PROVE  /\ IsFiniteSet(S) /\ (\A l \in S : OfLine[l] \in Nat /\ OfLine[l] \in Int)
         /\ SumOf(S, LineTotal) = SumFunctionOnSet(OfLine, S) /\ SumOf(S, LineTotal) \in Int
<1>1. IsFiniteSet(S)
  BY FiguresFinite, FS_Subset
<1>2. \A l \in S : OfLine[l] = LineTotal(l) /\ OfLine[l] \in Nat /\ OfLine[l] \in Int
  BY DEF OfLine, LineTotal, RowsInv, RowsTyped, LineRow
<1> DEFINE f == [l \in S |-> LineTotal(l)]
<1>3. \A l \in S : f[l] = OfLine[l] /\ f[l] \in Int
  BY <1>2
<1>4. SumOf(S, LineTotal) = SumFunctionOnSet(f, S)
  BY DEF SumOf
<1> HIDE DEF f
<1> QED BY <1>1, <1>2, <1>3, <1>4, SumSame, SumIsInt

LEMMA LinesOfSale == ASSUME NEW s PROVE LinesOf(s) \subseteq Lines
BY DEF LinesOf

LEMMA SubtotalIs == ASSUME RowsInv, NEW s PROVE Subtotal(s) = SumFunctionOnSet(OfLine, LinesOf(s)) /\ Subtotal(s) \in Int
<1> DEFINE S == LinesOf(s)
<1>1. S \subseteq Lines
  BY LinesOfSale
<1>2. Subtotal(s) = SumFunctionOnSet([l \in S |-> LineTotal(l)], S)
  BY DEF Subtotal, SumOf
<1> HIDE DEF S
<1>3. SumFunctionOnSet([l \in S |-> LineTotal(l)], S) = SumFunctionOnSet(OfLine, S)
      /\ SumFunctionOnSet([l \in S |-> LineTotal(l)], S) \in Int
  BY <1>1, LinesAre DEF SumOf
<1> QED BY <1>2, <1>3 DEF S

LEMMA SalesAre ==
  ASSUME RowsInv, NEW S, S \subseteq Sales
  PROVE  /\ IsFiniteSet(S)
         /\ \A s \in S : /\ Worth[s] = Subs0[s] + More[s] /\ Worth[s] \in Int /\ Subs0[s] \in Int /\ More[s] \in Int
                         /\ Worth[s] = Total(s) /\ Subs0[s] = Subtotal(s) /\ More[s] = sale[s].extra
         /\ SumOf(S, Total) = SumFunctionOnSet(Worth, S) /\ SumOf(S, Total) \in Int
<1>1. IsFiniteSet(S)
  BY FiguresFinite, FS_Subset
<1>2. \A s \in S : /\ Worth[s] = Total(s) /\ Subs0[s] = Subtotal(s) /\ More[s] = sale[s].extra
                   /\ Subs0[s] \in Int /\ More[s] \in Int /\ Total(s) = Subtotal(s) + sale[s].extra
  BY SubtotalIs DEF Worth, Subs0, More, Total, RowsInv, RowsTyped, SaleRow
<1>3. \A s \in S : Worth[s] = Subs0[s] + More[s] /\ Worth[s] \in Int
  BY <1>2
<1> DEFINE f == [s \in S |-> Total(s)]
<1>4. \A s \in S : f[s] = Worth[s] /\ f[s] \in Int
  BY <1>2, <1>3
<1>5. SumOf(S, Total) = SumFunctionOnSet(f, S)
  BY DEF SumOf
<1> HIDE DEF f
<1> QED BY <1>1, <1>2, <1>3, <1>4, <1>5, SumSame, SumIsInt

LEMMA TakingsAre ==
  ASSUME RowsInv, NEW S, S \subseteq Takings
  PROVE  /\ IsFiniteSet(S) /\ (\A t \in S : Got[t] \in Nat /\ Got[t] \in Int /\ Got[t] = taking[t].net - taking[t].back)
         /\ SumOf(S, Received) = SumFunctionOnSet(Got, S) /\ SumOf(S, Received) \in Int
<1>1. IsFiniteSet(S)
  BY FiguresFinite, FS_Subset
<1>2. \A t \in S : Got[t] = Received(t) /\ Got[t] \in Nat /\ Got[t] \in Int /\ Got[t] = taking[t].net - taking[t].back
  BY DEF Got, Received, RowsInv, RowsTyped, TakingRow, TakingRight
<1> DEFINE f == [t \in S |-> Received(t)]
<1>3. \A t \in S : f[t] = Got[t] /\ f[t] \in Int
  BY <1>2
<1>4. SumOf(S, Received) = SumFunctionOnSet(f, S)
  BY DEF SumOf
<1> HIDE DEF f
<1> QED BY <1>1, <1>2, <1>3, <1>4, SumSame, SumIsInt

\* Groups of sales, of lines and of payments.
LEMMA SalesByGroup ==
  ASSUME RowsInv, NEW S, S \subseteq Sales, NEW K, IsFiniteSet(K), NEW group, Groups(group, K, S), NEW by,
         \A k \in K : by[k] = SumOf(group[k], Total)
  PROVE  SumFunctionOnSet(by, K) = SumOf(S, Total)
<1>1. \A k \in K : group[k] \subseteq Sales
  BY DEF Groups
<1>2. \A k \in K : by[k] = SumFunctionOnSet(Worth, group[k])
  <2> SUFFICES ASSUME NEW k \in K PROVE by[k] = SumFunctionOnSet(Worth, group[k])
    OBVIOUS
  <2> DEFINE T == group[k]
  <2>1. by[k] = SumFunctionOnSet([x \in T |-> Total(x)], T)
    BY DEF SumOf
  <2>2. T \subseteq Sales
    BY <1>1
  <2> HIDE DEF T
  <2>3. SumFunctionOnSet([x \in T |-> Total(x)], T) = SumFunctionOnSet(Worth, T)
    BY <2>2, SalesAre DEF SumOf
  <2> QED BY <2>1, <2>3 DEF T
<1>3. IsFiniteSet(S) /\ (\A s \in S : Worth[s] \in Int) /\ SumOf(S, Total) = SumFunctionOnSet(Worth, S)
  BY SalesAre DEF SumOf
<1>4. SumFunctionOnSet(by, K) = SumFunctionOnSet(Worth, S)
  BY <1>2, <1>3, SumOfGroups
<1> QED BY <1>3, <1>4 DEF SumOf

LEMMA LinesByGroup ==
  ASSUME RowsInv, NEW S, S \subseteq Lines, NEW K, IsFiniteSet(K), NEW group, Groups(group, K, S), NEW by,
         \A k \in K : by[k] = SumOf(group[k], LineTotal)
  PROVE  SumFunctionOnSet(by, K) = SumOf(S, LineTotal)
<1>1. \A k \in K : group[k] \subseteq Lines
  BY DEF Groups
<1>2. \A k \in K : by[k] = SumFunctionOnSet(OfLine, group[k])
  <2> SUFFICES ASSUME NEW k \in K PROVE by[k] = SumFunctionOnSet(OfLine, group[k])
    OBVIOUS
  <2> DEFINE T == group[k]
  <2>1. by[k] = SumFunctionOnSet([x \in T |-> LineTotal(x)], T)
    BY DEF SumOf
  <2>2. T \subseteq Lines
    BY <1>1
  <2> HIDE DEF T
  <2>3. SumFunctionOnSet([x \in T |-> LineTotal(x)], T) = SumFunctionOnSet(OfLine, T)
    BY <2>2, LinesAre DEF SumOf
  <2> QED BY <2>1, <2>3 DEF T
<1>3. IsFiniteSet(S) /\ (\A s \in S : OfLine[s] \in Int) /\ SumOf(S, LineTotal) = SumFunctionOnSet(OfLine, S)
  BY LinesAre DEF SumOf
<1>4. SumFunctionOnSet(by, K) = SumFunctionOnSet(OfLine, S)
  BY <1>2, <1>3, SumOfGroups
<1> QED BY <1>3, <1>4 DEF SumOf

LEMMA TakingsByGroup ==
  ASSUME RowsInv, NEW S, S \subseteq Takings, NEW K, IsFiniteSet(K), NEW group, Groups(group, K, S), NEW by,
         \A k \in K : by[k] = SumOf(group[k], Received)
  PROVE  SumFunctionOnSet(by, K) = SumOf(S, Received)
<1>1. \A k \in K : group[k] \subseteq Takings
  BY DEF Groups
<1>2. \A k \in K : by[k] = SumFunctionOnSet(Got, group[k])
  <2> SUFFICES ASSUME NEW k \in K PROVE by[k] = SumFunctionOnSet(Got, group[k])
    OBVIOUS
  <2> DEFINE T == group[k]
  <2>1. by[k] = SumFunctionOnSet([x \in T |-> Received(x)], T)
    BY DEF SumOf
  <2>2. T \subseteq Takings
    BY <1>1
  <2> HIDE DEF T
  <2>3. SumFunctionOnSet([x \in T |-> Received(x)], T) = SumFunctionOnSet(Got, T)
    BY <2>2, TakingsAre DEF SumOf
  <2> QED BY <2>1, <2>3 DEF T
<1>3. IsFiniteSet(S) /\ (\A s \in S : Got[s] \in Int) /\ SumOf(S, Received) = SumFunctionOnSet(Got, S)
  BY TakingsAre DEF SumOf
<1>4. SumFunctionOnSet(by, K) = SumFunctionOnSet(Got, S)
  BY <1>2, <1>3, SumOfGroups
<1> QED BY <1>3, <1>4 DEF SumOf

LEMMA BilledIs ==
  ASSUME RowsInv, NEW s \in Billed
  PROVE  /\ s \in Sales /\ sale[s].status # Void /\ WhenSold(s) \in Days /\ WhenSold(s) \in Int
         /\ \E b \in Buyers : sale[s].of = {b} /\ CountryOf(s) = {buyer[b].country} /\ buyer[b].country \in Countries
         /\ \E u \in Sellers : sale[s].by = {u}
         /\ Total(s) >= 0
<1>1. s \in Sales /\ sale[s].status # Void /\ sale[s] \in SaleRow /\ SaleRight(sale[s]) /\ Total(s) >= 0
  BY DEF Billed, Void, RowsInv, RowsTyped
<1>2. WhenSold(s) \in Days /\ WhenSold(s) \in Int
  BY <1>1 DEF WhenSold, SaleRow, SaleRight, Dated, Days
<1>3. PICK b \in Buyers : sale[s].of = {b}
  BY <1>1 DEF SaleRight, Ones
<1>4. CountryOf(s) = {buyer[b].country} /\ buyer[b].country \in Countries
  BY <1>3 DEF CountryOf, RowsInv, RowsTyped, BuyerRow
<1>5. \E u \in Sellers : sale[s].by = {u}
  BY <1>1 DEF SaleRight, Ones
<1> QED BY <1>1, <1>2, <1>3, <1>4, <1>5

LEMMA SoldSets ==
  ASSUME RowsInv
  PROVE  /\ Billed \subseteq Sales /\ salesFilters(Everything) = Billed /\ AllSoldIn(Always) = Billed
         /\ \A range : SoldIn(range, Everything) = AllSoldIn(range) /\ AllSoldIn(range) \subseteq Billed
<1>1. Billed \subseteq Sales
  BY DEF Billed
<1>2. salesFilters(Everything) = Billed
  BY DEF salesFilters, Everything, Asked
<1>3. \A s \in Billed : In(WhenSold(s), Always)
  BY BilledIs, ReportRowsAssumption DEF In, Always, Days, ReportRowsAssumption
<1>4. AllSoldIn(Always) = Billed
  BY <1>3 DEF AllSoldIn
<1> QED BY <1>1, <1>2, <1>4 DEF SoldIn, AllSoldIn

LEMMA DaysFinite == IsFiniteSet(Days) /\ \A i, j \in Int : IsFiniteSet(i .. j)
<1>1. \A i, j \in Int : IsFiniteSet(i .. j)
  BY FS_Interval
<1>2. LastDay \in Int
  BY ReportRowsAssumption DEF ReportRowsAssumption
<1> QED BY <1>1, <1>2 DEF Days

\* By day, by country, by seller and by buyer, and by the campaigns at most.
LEMMA DaysAddSales ==
  ASSUME RowsInv, NEW range
  PROVE  SumOver(revenueDaily(range, Everything)) = SumOf(AllSoldIn(range), Total)
<1> DEFINE S == AllSoldIn(range)
           group == [d \in Days |-> {s \in S : WhenSold(s) = d}]
           by == revenueDaily(range, Everything)
<1>1. SoldIn(range, Everything) = S /\ S \subseteq Billed /\ S \subseteq Sales
  BY SoldSets
<1>2. \A d \in Days : by[d] = SumOf(group[d], Total)
  BY <1>1 DEF revenueDaily, SumOf
<1>3. DOMAIN by = Days
  BY DEF revenueDaily
<1>4. Groups(group, Days, S)
  <2>1. \A s \in S : WhenSold(s) \in Days
    BY <1>1, BilledIs
  <2> HIDE DEF S
  <2> QED BY <2>1 DEF Groups
<1> HIDE DEF S, group, by
<1>5. SumFunctionOnSet(by, Days) = SumOf(S, Total)
  BY <1>1, <1>2, <1>4, DaysFinite, SalesByGroup DEF SumOf
<1>6. SumOver(by) = SumFunctionOnSet(by, Days)
  BY <1>3, OverIs
<1> QED BY <1>5, <1>6 DEF S, by, SumOf

LEMMA CountriesAddSales ==
  ASSUME RowsInv, NEW range, NEW by, DOMAIN by = Countries,
         \A k \in Countries : by[k] = SumOf({s \in AllSoldIn(range) : FromCountry(s, k)}, Total)
  PROVE  SumOver(by) = SumOf(AllSoldIn(range), Total) /\ SumFunctionOnSet(by, Countries) = SumOf(AllSoldIn(range), Total)
<1> DEFINE S == AllSoldIn(range)
           group == [k \in Countries |-> {s \in S : FromCountry(s, k)}]
<1>1. S \subseteq Billed /\ S \subseteq Sales
  BY SoldSets
<1>2. \A k \in Countries : by[k] = SumOf(group[k], Total)
  BY DEF SumOf
<1>4. Groups(group, Countries, S)
  <2>1. \A s \in S : \E k \in Countries : CountryOf(s) = {k}
    BY <1>1, BilledIs
  <2> HIDE DEF S
  <2>2. \A s \in S : \E k \in Countries : s \in group[k]
    BY <2>1 DEF FromCountry
  <2>3. \A k, j \in Countries : k # j => group[k] \cap group[j] = {}
    BY DEF FromCountry
  <2> QED BY <2>2, <2>3 DEF Groups
<1> HIDE DEF S, group
<1>5. SumFunctionOnSet(by, Countries) = SumOf(S, Total)
  BY <1>1, <1>2, <1>4, FiguresFinite, SalesByGroup DEF SumOf
<1>6. SumOver(by) = SumFunctionOnSet(by, Countries)
  BY OverIs
<1> QED BY <1>5, <1>6 DEF S, SumOf

\* The sales that a table lists, and those that it does not.
LEMMA SalesApart ==
  ASSUME RowsInv, NEW S, S \subseteq Sales, NEW T, T \subseteq S, NEW R, R = S \ T
  PROVE  SumOf(S, Total) = SumOf(T, Total) + SumOf(R, Total)
<1>1. /\ IsFiniteSet(T) /\ IsFiniteSet(R) /\ T \cap R = {} /\ T \cup R = S
      /\ \A s \in T \cup R : Worth[s] \in Int
  BY SalesAre DEF SumOf
<1>2. SumFunctionOnSet(Worth, T \cup R) = SumFunctionOnSet(Worth, T) + SumFunctionOnSet(Worth, R)
  BY <1>1, SumOfBoth
<1>3. /\ SumOf(S, Total) = SumFunctionOnSet(Worth, S) /\ SumOf(T, Total) = SumFunctionOnSet(Worth, T)
      /\ SumOf(R, Total) = SumFunctionOnSet(Worth, R)
  <2>1. T \subseteq Sales /\ R \subseteq Sales
    OBVIOUS
  <2> QED BY <2>1, SalesAre DEF SumOf
<1> QED BY <1>1, <1>2, <1>3 DEF SumOf

LEMMA LinesApart ==
  ASSUME RowsInv, NEW S, S \subseteq Lines, NEW T, T \subseteq S, NEW R, R = S \ T
  PROVE  SumOf(S, LineTotal) = SumOf(T, LineTotal) + SumOf(R, LineTotal)
<1>1. /\ IsFiniteSet(T) /\ IsFiniteSet(R) /\ T \cap R = {} /\ T \cup R = S
      /\ \A l \in T \cup R : OfLine[l] \in Int
  BY LinesAre DEF SumOf
<1>2. SumFunctionOnSet(OfLine, T \cup R) = SumFunctionOnSet(OfLine, T) + SumFunctionOnSet(OfLine, R)
  BY <1>1, SumOfBoth
<1>3. /\ SumOf(S, LineTotal) = SumFunctionOnSet(OfLine, S) /\ SumOf(T, LineTotal) = SumFunctionOnSet(OfLine, T)
      /\ SumOf(R, LineTotal) = SumFunctionOnSet(OfLine, R)
  <2>1. T \subseteq Lines /\ R \subseteq Lines
    OBVIOUS
  <2> QED BY <2>1, LinesAre DEF SumOf
<1> QED BY <1>1, <1>2, <1>3 DEF SumOf

\* What the sellers who are listed sold, and what no one of them did.
LEMMA SellersAddSales ==
  ASSUME RowsInv, NEW K, K = DOMAIN sellers(Always)
  PROVE  SumOf(Billed, Total) = SumOf(K, LAMBDA u : sellers(Always)[u].revenue)
                                + SumOf({s \in Billed : sale[s].by \cap K = {}}, Total)
<1> DEFINE R == {s \in Billed : sale[s].by \cap K = {}}
           S == Billed \ R
           group == [u \in K |-> {s \in Billed : sale[s].by = {u}}]
           by == [u \in K |-> sellers(Always)[u].revenue]
<1>1. /\ Billed \subseteq Sales /\ S \subseteq Billed /\ S \subseteq Sales /\ R = Billed \ S
      /\ AllSoldIn(Always) = Billed
  BY SoldSets
<1>2. K = {u \in Sellers : serving[u]} /\ IsFiniteSet(K)
  BY FiguresFinite, FS_Subset DEF sellers
<1>3. \A u \in K : by[u] = SumOf(group[u], Total)
  BY <1>1, <1>2 DEF sellers, SumOf
<1>4. Groups(group, K, S)
  <2>1. \A s \in Billed : \E u \in Sellers : sale[s].by = {u}
    BY BilledIs
  <2>2. \A s \in S : \E u \in K : sale[s].by = {u}
    BY <2>1
  <2>3. \A u \in K : group[u] \subseteq S
    OBVIOUS
  <2> QED BY <2>2, <2>3 DEF Groups
<1>5. SumOf(K, LAMBDA u : sellers(Always)[u].revenue) = SumFunctionOnSet(by, K)
  BY DEF SumOf
<1>6. SumOf(Billed, Total) = SumOf(S, Total) + SumOf(R, Total)
  <2> HIDE DEF S, R
  <2> QED BY <1>1, SalesApart DEF SumOf
<1> HIDE DEF S, group, by
<1>7. SumFunctionOnSet(by, K) = SumOf(S, Total)
  BY <1>1, <1>2, <1>3, <1>4, SalesByGroup DEF SumOf
<1> QED BY <1>5, <1>6, <1>7 DEF SumOf

\* What is on the pages that take in all of their customer's sales, and what is on none.
LEMMA BuyersAddSales ==
  ASSUME RowsInv
  PROVE  SumOf(Billed, Total) = SumOf(WholePages, LAMBDA b : customer360[b].ltv) + SumOf(OffPages, Total)
<1> DEFINE K == WholePages
           R == OffPages
           S == Billed \ R
           group == [b \in K |-> {s \in Billed : sale[s].of = {b}}]
           by == [b \in K |-> customer360[b].ltv]
<1>1. Billed \subseteq Sales /\ S \subseteq Billed /\ S \subseteq Sales /\ R = Billed \ S
  BY SoldSets DEF OffPages
<1>2. K \subseteq DOMAIN customer360 /\ DOMAIN customer360 \subseteq Buyers /\ IsFiniteSet(K)
  <2>1. K \subseteq DOMAIN customer360 /\ DOMAIN customer360 \subseteq Buyers
    BY DEF WholePages, customer360
  <2> HIDE DEF K
  <2> QED BY <2>1, FiguresFinite, FS_Subset
<1>3. ASSUME NEW b \in K PROVE by[b] = SumOf(group[b], Total)
  <2>1. Newest(SalesTo(b)) = SalesTo(b)
    BY DEF WholePages, Newest
  <2>2. SalesTo(b) \cap Billed = {s \in Billed : sale[s].of = {b}}
    BY DEF SalesTo, Billed, Void
  <2>3. b \in {c \in Buyers : Live(buyer[c])}
    BY DEF WholePages, customer360
  <2>4. customer360[b].ltv = SumOf(Newest(SalesTo(b)) \cap Billed, Total)
    BY <2>3 DEF customer360, SumOf
  <2> QED BY <2>1, <2>2, <2>4
<1>4. Groups(group, K, S)
  <2>1. \A s \in Billed : \E b \in Buyers : sale[s].of = {b}
    BY BilledIs
  <2>2. \A s \in S : sale[s].of \cap K # {}
    BY DEF OffPages
  <2>3. \A s \in S : \E b \in K : sale[s].of = {b}
    <3> HIDE DEF K
    <3> QED BY <1>1, <2>1, <2>2
  <2>4. \A b \in K : group[b] \subseteq S
    BY DEF OffPages
  <2> QED BY <2>3, <2>4 DEF Groups
<1>5. SumOf(WholePages, LAMBDA b : customer360[b].ltv) = SumFunctionOnSet(by, K)
  BY DEF SumOf
<1>6. SumOf(Billed, Total) = SumOf(S, Total) + SumOf(R, Total)
  <2> HIDE DEF S, R
  <2> QED BY <1>1, SalesApart DEF SumOf
<1> HIDE DEF K, S, group, by
<1>7. SumFunctionOnSet(by, K) = SumOf(S, Total)
  BY <1>1, <1>2, <1>3, <1>4, SalesByGroup DEF SumOf
<1> QED BY <1>5, <1>6, <1>7 DEF K, SumOf

LEMMA CampaignsAddLess ==
  ASSUME RowsInv
  PROVE  SumOf(Ads, LAMBDA a : campaigns(Always)[a].revenue) <= SumOf(Billed, Total)
<1> DEFINE Of(a) == {s \in Billed : AdsOf(s) = {a}}
           S == {s \in Billed : \E a \in Ads : AdsOf(s) = {a}}
           group == [a \in Ads |-> Of(a)]
           by == [a \in Ads |-> campaigns(Always)[a].revenue]
<1>1. Billed \subseteq Sales /\ S \subseteq Billed /\ S \subseteq Sales
  BY SoldSets
<1>2. \A a \in Ads : by[a] = SumOf(group[a], Total)
  BY SoldSets DEF campaigns, SumOf
<1>3. Groups(group, Ads, S)
  BY DEF Groups
<1>4. SumOf(Ads, LAMBDA a : campaigns(Always)[a].revenue) = SumFunctionOnSet(by, Ads)
  BY DEF SumOf
<1> HIDE DEF S, group, by
<1>5. SumFunctionOnSet(by, Ads) = SumOf(S, Total)
  BY <1>1, <1>2, <1>3, FiguresFinite, SalesByGroup DEF SumOf
<1>6. SumFunctionOnSet(Worth, S) <= SumFunctionOnSet(Worth, Billed)
  <2>1. ASSUME NEW s \in Billed PROVE Worth[s] \in Nat
    <3>1. Worth[s] = Total(s) /\ Worth[s] \in Int
      BY <1>1, SalesAre DEF SumOf
    <3> QED BY <3>1, BilledIs
  <2>2. IsFiniteSet(Billed)
    BY <1>1, FiguresFinite, FS_Subset
  <2> QED BY <1>1, <2>1, <2>2, SumOfPart
<1>7. SumOf(S, Total) = SumFunctionOnSet(Worth, S) /\ SumOf(Billed, Total) = SumFunctionOnSet(Worth, Billed)
  BY <1>1, SalesAre DEF SumOf
<1> QED BY <1>4, <1>5, <1>6, <1>7 DEF SumOf

\* By month.
LEMMA DivIs ==
  ASSUME NEW n \in Nat \ {0}, NEW d \in Int
  PROVE  d \div n \in Int /\ n * (d \div n) <= d /\ d < n * (d \div n) + n
OBVIOUS

LEMMA TimesGrows ==
  ASSUME NEW n \in Nat \ {0}, NEW i \in Int, NEW j \in Int, i < j
  PROVE  n * i + n <= n * j
OBVIOUS

LEMMA TimesNext == ASSUME NEW n \in Nat, NEW i \in Int PROVE n * (i + 1) = n * i + n /\ n * i \in Int
OBVIOUS

LEMMA MonthIs ==
  ASSUME NEW d \in Int
  PROVE  /\ MonthOf(d) \in Int
         /\ \A m \in Int : MonthOf(d) = m <=> MonthDays * m <= d /\ d < MonthDays * (m + 1)
         /\ \A m \in Int : m <= MonthOf(d) <=> MonthDays * m <= d
<1>1. MonthDays \in Nat \ {0}
  BY ReportRowsAssumption DEF ReportRowsAssumption
<1>2. MonthOf(d) \in Int /\ MonthDays * MonthOf(d) <= d /\ d < MonthDays * MonthOf(d) + MonthDays
  BY <1>1, DivIs DEF MonthOf
<1> DEFINE mine == MonthOf(d)
<1> HIDE DEF mine
<1>3. ASSUME NEW m \in Int, m < mine PROVE MonthDays * m + MonthDays <= d
  BY <1>1, <1>2, <1>3, TimesGrows, TimesNext DEF mine
<1>4. ASSUME NEW m \in Int, mine < m PROVE d < MonthDays * m
  <2>1. MonthDays * mine + MonthDays <= MonthDays * m /\ MonthDays * mine \in Int /\ MonthDays * m \in Int
    BY <1>1, <1>2, <1>4, TimesGrows, TimesNext DEF mine
  <2> QED BY <1>1, <1>2, <2>1 DEF mine
<1>5. ASSUME NEW m \in Int PROVE mine = m <=> MonthDays * m <= d /\ d < MonthDays * (m + 1)
  <2>1. mine \in Int /\ MonthDays * mine <= d /\ d < MonthDays * (mine + 1)
    BY <1>1, <1>2, TimesNext DEF mine
  <2>2. m < mine => ~(d < MonthDays * (m + 1))
    <3>1. MonthDays * (m + 1) = MonthDays * m + MonthDays /\ MonthDays * m \in Int
      BY <1>1, TimesNext
    <3> QED BY <1>1, <1>3, <3>1
  <2>3. mine < m => ~(MonthDays * m <= d)
    <3>1. MonthDays * m \in Int
      BY <1>1, TimesNext
    <3> QED BY <1>4, <3>1
  <2> QED BY <2>1, <2>2, <2>3
<1>6. ASSUME NEW m \in Int PROVE m <= mine <=> MonthDays * m <= d
  <2>1. mine \in Int /\ MonthDays * mine <= d /\ MonthDays * m \in Int /\ MonthDays \in Nat
    BY <1>1, <1>2, TimesNext DEF mine
  <2>2. m < mine => MonthDays * m <= d
    BY <1>3, <2>1
  <2> QED BY <1>4, <2>1, <2>2
<1> QED BY <1>2, <1>5, <1>6 DEF mine

LEMMA MonthsAddSales ==
  ASSUME RowsInv
  PROVE  SumOver(revenueMonthly(LastDay, Everything)) = SumOf(AllSoldIn(LastMonths), Total)
<1> DEFINE last == MonthOf(LastDay)
           K == (last - 11) .. last
           S == AllSoldIn(LastMonths)
           group == [m \in K |-> {s \in Billed : MonthOf(WhenSold(s)) = m}]
           by == revenueMonthly(LastDay, Everything)
<1>1. S \subseteq Billed /\ S \subseteq Sales /\ salesFilters(Everything) = Billed
  BY SoldSets
<1>2. \A m \in K : by[m] = SumOf(group[m], Total)
  BY <1>1 DEF revenueMonthly, SumOf
<1>3. DOMAIN by = K
  BY DEF revenueMonthly
<1>4. last \in Int
  <2>1. LastDay \in Int
    BY ReportRowsAssumption DEF ReportRowsAssumption
  <2> QED BY <2>1, MonthIs
<1>5. IsFiniteSet(K)
  <2>1. last - 11 \in Int
    BY <1>4
  <2> QED BY <1>4, <2>1, DaysFinite
<1>6. \A s \in Billed : s \in S <=> MonthOf(WhenSold(s)) \in K
  <2> SUFFICES ASSUME NEW s \in Billed PROVE s \in S <=> MonthOf(WhenSold(s)) \in K
    OBVIOUS
  <2>1. WhenSold(s) \in Int
    BY BilledIs
  <2>2. s \in S <=> MonthDays * (last - 11) <= WhenSold(s) /\ WhenSold(s) < MonthDays * (last + 1)
    BY DEF AllSoldIn, In, LastMonths
  <2> DEFINE w == WhenSold(s)
             month == MonthOf(w)
  <2>3. last - 11 <= month <=> MonthDays * (last - 11) <= w
    <3> HIDE DEF w
    <3>1. last - 11 \in Int
      BY <1>4
    <3> HIDE DEF last
    <3> QED BY <2>1, <3>1, MonthIs DEF w
  <2>4. last + 1 <= month <=> MonthDays * (last + 1) <= w
    <3> HIDE DEF w
    <3>1. last + 1 \in Int
      BY <1>4
    <3> HIDE DEF last
    <3> QED BY <2>1, <3>1, MonthIs DEF w
  <2>5. month \in Int
    BY <2>1, MonthIs
  <2>6. MonthDays * (last + 1) \in Int
    <3> HIDE DEF last
    <3> QED BY <1>4, TimesNext, ReportRowsAssumption DEF ReportRowsAssumption
  <2> HIDE DEF month, last
  <2> QED BY <1>4, <2>1, <2>2, <2>3, <2>4, <2>5, <2>6 DEF month
<1>7. Groups(group, K, S)
  <2> HIDE DEF K, S
  <2>1. \A m \in K : group[m] \subseteq S
    BY <1>6
  <2>2. \A s \in S : \E m \in K : s \in group[m]
    BY <1>1, <1>6
  <2>3. \A m, j \in K : m # j => group[m] \cap group[j] = {}
    OBVIOUS
  <2> QED BY <2>1, <2>2, <2>3 DEF Groups
<1> HIDE DEF K, S, group, by
<1>8. SumFunctionOnSet(by, K) = SumOf(S, Total)
  BY <1>1, <1>2, <1>5, <1>7, SalesByGroup DEF SumOf
<1>9. SumOver(by) = SumFunctionOnSet(by, K)
  BY <1>3, OverIs
<1> QED BY <1>8, <1>9 DEF S, by, SumOf

\* By product: the lines of the sales and what the sales add to them.
LEMMA LinesAddSales ==
  ASSUME RowsInv, NEW range
  PROVE  SumOf(AllSoldIn(range), Total) = SumOf(LinesIn(range), LineTotal) + SumOf(AllSoldIn(range), LAMBDA s : sale[s].extra)
<1> DEFINE S == AllSoldIn(range)
           group == [s \in S |-> LinesOf(s)]
           f == [s \in S |-> sale[s].extra]
<1>1. S \subseteq Sales
  BY SoldSets
<1>2. LinesIn(range) \subseteq Lines
  BY LinesOfSale DEF LinesIn
<1>3. Groups(group, S, LinesIn(range))
  <2>1. \A s, z \in S : s # z => LinesOf(s) \cap LinesOf(z) = {}
    BY DEF LinesOf
  <2>2. LinesIn(range) = UNION {LinesOf(s) : s \in S}
    BY DEF LinesIn
  <2> HIDE DEF S
  <2> QED BY <2>1, <2>2 DEF Groups
<1>4. \A s \in S : f[s] = sale[s].extra
  OBVIOUS
<1>5. SumOf(S, LAMBDA s : sale[s].extra) = SumFunctionOnSet(f, S)
  BY DEF SumOf
<1>6. \A s \in S : Subs0[s] = SumOf(group[s], LineTotal)
  <2> HIDE DEF S
  <2> QED BY <1>1 DEF Subs0, Subtotal, SumOf
<1> HIDE DEF S, group, f
<1>7. /\ IsFiniteSet(S) /\ SumOf(S, Total) = SumFunctionOnSet(Worth, S)
      /\ \A s \in S : /\ Worth[s] = Subs0[s] + More[s] /\ Subs0[s] \in Int /\ More[s] \in Int /\ f[s] = More[s]
  BY <1>1, <1>4, SalesAre DEF SumOf
<1>8. SumFunctionOnSet(Worth, S) = SumFunctionOnSet(Subs0, S) + SumFunctionOnSet(More, S)
  BY <1>7, SumPlus
<1>9. SumFunctionOnSet(Subs0, S) = SumOf(LinesIn(range), LineTotal)
  <2> DEFINE all == LinesIn(range)
  <2> HIDE DEF all
  <2>1. all \subseteq Lines /\ Groups(group, S, all)
    BY <1>2, <1>3 DEF all
  <2>2. IsFiniteSet(S)
    BY <1>7
  <2>3. \A s \in S : Subs0[s] = SumFunctionOnSet([l \in group[s] |-> LineTotal(l)], group[s])
    BY <1>6 DEF SumOf
  <2>4. SumFunctionOnSet(Subs0, S) = SumFunctionOnSet([l \in all |-> LineTotal(l)], all)
    BY <2>1, <2>2, <2>3, LinesByGroup DEF SumOf
  <2> QED BY <2>4 DEF SumOf, all
<1>10. SumFunctionOnSet(f, S) = SumFunctionOnSet(More, S)
  BY <1>7, SumSame
<1> QED BY <1>5, <1>7, <1>8, <1>9, <1>10 DEF S, SumOf

LEMMA NamesAddLines ==
  ASSUME RowsInv, NEW range
  PROVE  SumOver(salesByProduct(range)) = SumOf(LinesIn(range), LineTotal)
<1> DEFINE S == LinesIn(range)
           group == [n \in Names |-> {l \in S : line[l].name = n}]
           by == salesByProduct(range)
<1>1. S \subseteq Lines
  BY LinesOfSale DEF LinesIn
<1>2. \A n \in Names : by[n] = SumOf(group[n], LineTotal)
  BY DEF salesByProduct, SumOf
<1>3. DOMAIN by = Names
  BY DEF salesByProduct
<1>4. Groups(group, Names, S)
  <2>1. \A l \in S : line[l].name \in Names
    BY <1>1 DEF RowsInv, RowsTyped, LineRow
  <2> HIDE DEF S
  <2> QED BY <2>1 DEF Groups
<1> HIDE DEF S, group, by
<1>5. SumFunctionOnSet(by, Names) = SumOf(S, LineTotal)
  BY <1>1, <1>2, <1>4, FiguresFinite, LinesByGroup DEF SumOf
<1>6. SumOver(by) = SumFunctionOnSet(by, Names)
  BY <1>3, OverIs
<1> QED BY <1>5, <1>6 DEF S, by, SumOf

LEMMA MethodsAddPayments ==
  ASSUME RowsInv, NEW range
  PROVE  SumOver(paymentMethods(range, Everything)) = paymentMoney(range, Everything)
<1> DEFINE S == ReceivedIn(range, Everything)
           group == [m \in Methods |-> {t \in S : taking[t].method = {m}}]
           by == paymentMethods(range, Everything)
<1>1. S \subseteq Takings
  BY DEF ReceivedIn
<1>2. \A m \in Methods : by[m] = SumOf(group[m], Received)
  BY DEF paymentMethods, SumOf
<1>3. DOMAIN by = Methods
  BY DEF paymentMethods
<1>4. Groups(group, Methods, S)
  <2>1. ASSUME NEW t \in S PROVE \E m \in Methods : taking[t].method = {m}
    <3>1. TakingRight(taking[t]) /\ taking[t].status # Void
      BY DEF RowsInv, ReceivedIn, Void
    <3> QED BY <3>1 DEF TakingRight, Ones
  <2> HIDE DEF S
  <2> QED BY <2>1 DEF Groups
<1>7. paymentMoney(range, Everything) = SumOf(S, Received)
  BY DEF paymentMoney, SumOf
<1> HIDE DEF S, group, by
<1>5. SumFunctionOnSet(by, Methods) = SumOf(S, Received)
  BY <1>1, <1>2, <1>4, FiguresFinite, TakingsByGroup DEF SumOf
<1>6. SumOver(by) = SumFunctionOnSet(by, Methods)
  BY <1>3, OverIs
<1> QED BY <1>5, <1>6, <1>7 DEF by, SumOf

\* What recurs, by country and by buyer.
LEMMA ActiveIs ==
  ASSUME RowsInv
  PROVE  /\ ActiveSubs \subseteq Lines /\ mrr(Everything) = SumOf(ActiveSubs, LineTotal)
         /\ \A l \in ActiveSubs : \E b \in Buyers : sub[l].of = {b} /\ buyer[b].country \in Countries
<1>1. ASSUME NEW l \in ActiveSubs PROVE l \in Lines /\ \E b \in Buyers : sub[l].of = {b} /\ buyer[b].country \in Countries
  <2>1. l \in Lines /\ sub[l].status # Void /\ SubRight(sub[l])
    BY DEF ActiveSubs, Void, RowsInv
  <2>2. \A b \in Buyers : buyer[b].country \in Countries
    BY DEF RowsInv, RowsTyped, BuyerRow
  <2> QED BY <2>1, <2>2 DEF SubRight, Ones
<1>2. {l \in ActiveSubs : \E b \in sub[l].of : Everything.country \in {AnyOne, buyer[b].country}} = ActiveSubs
  BY <1>1 DEF Everything
<1> QED BY <1>1, <1>2 DEF mrr, SumOf

LEMMA CountriesAddRecurring ==
  ASSUME RowsInv, NEW range
  PROVE  SumOf(Countries, LAMBDA k : countries(range)[k].mrr) = mrr(Everything)
<1> DEFINE S == ActiveSubs
           group == [k \in Countries |-> {l \in S : \E b \in sub[l].of : buyer[b].country = k}]
           by == [k \in Countries |-> countries(range)[k].mrr]
<1>1. S \subseteq Lines /\ mrr(Everything) = SumOf(S, LineTotal)
  BY ActiveIs DEF SumOf
<1>2. \A k \in Countries : by[k] = SumOf(group[k], LineTotal)
  BY DEF countries, SumOf
<1>3. Groups(group, Countries, S)
  <2>1. \A l \in S : \E b \in Buyers : sub[l].of = {b} /\ buyer[b].country \in Countries
    BY ActiveIs
  <2> HIDE DEF S
  <2>2. \A l \in S : \E k \in Countries : l \in group[k]
    BY <2>1
  <2>3. \A k, j \in Countries : k # j => group[k] \cap group[j] = {}
    BY <2>1
  <2> QED BY <2>2, <2>3 DEF Groups
<1>4. SumOf(Countries, LAMBDA k : countries(range)[k].mrr) = SumFunctionOnSet(by, Countries)
  BY DEF SumOf
<1> HIDE DEF S, group, by
<1>5. SumFunctionOnSet(by, Countries) = SumOf(S, LineTotal)
  BY <1>1, <1>2, <1>3, FiguresFinite, LinesByGroup DEF SumOf
<1> QED BY <1>1, <1>4, <1>5 DEF SumOf

LEMMA BuyersAddRecurring ==
  ASSUME RowsInv
  PROVE  mrr(Everything) = SumOf(DOMAIN customer360, LAMBDA b : customer360[b].mrr) + SumOf(Unpaged, LineTotal)
<1> DEFINE K == DOMAIN customer360
           R == Unpaged
           S == ActiveSubs \ R
           group == [b \in K |-> {l \in ActiveSubs : sub[l].of = {b}}]
           by == [b \in K |-> customer360[b].mrr]
<1>1. /\ ActiveSubs \subseteq Lines /\ mrr(Everything) = SumOf(ActiveSubs, LineTotal)
      /\ S \subseteq ActiveSubs /\ S \subseteq Lines /\ R = ActiveSubs \ S
  BY ActiveIs DEF Unpaged, SumOf
<1>2. K = {b \in Buyers : Live(buyer[b])} /\ IsFiniteSet(K)
  BY FiguresFinite, FS_Subset DEF customer360
<1>3. \A b \in K : by[b] = SumOf(group[b], LineTotal)
  BY <1>2 DEF customer360, SumOf
<1>4. Groups(group, K, S)
  <2>1. \A l \in ActiveSubs : \E b \in Buyers : sub[l].of = {b}
    BY ActiveIs
  <2>2. \A l \in S : sub[l].of \cap K # {}
    BY DEF Unpaged
  <2>3. \A l \in S : \E b \in K : sub[l].of = {b}
    <3> HIDE DEF K
    <3> QED BY <1>1, <2>1, <2>2
  <2>4. \A b \in K : group[b] \subseteq S
    BY DEF Unpaged
  <2> QED BY <2>3, <2>4 DEF Groups
<1>5. SumOf(DOMAIN customer360, LAMBDA b : customer360[b].mrr) = SumFunctionOnSet(by, K)
  BY DEF SumOf
<1>6. SumOf(ActiveSubs, LineTotal) = SumOf(S, LineTotal) + SumOf(R, LineTotal)
  <2> HIDE DEF S, R
  <2> QED BY <1>1, LinesApart DEF SumOf
<1> HIDE DEF K, S, group, by
<1>7. SumFunctionOnSet(by, K) = SumOf(S, LineTotal)
  BY <1>1, <1>2, <1>3, <1>4, LinesByGroup DEF SumOf
<1> QED BY <1>1, <1>5, <1>6, <1>7 DEF SumOf

\* Opportunities, by stage and by country.
LEMMA DealIs ==
  ASSUME RowsInv, NEW d \in Deals, Exists(deal[d])
  PROVE  /\ \E b \in Buyers : deal[d].of = {b} /\ buyer[b].country \in Countries
         /\ \E u \in Sellers : deal[d].by = {u}
         /\ deal[d].made \in Days /\ deal[d].stage \in {"POTENTIAL_BUYER", "PURCHASED"}
<1>1. DealRight(deal[d]) /\ deal[d] \in DealRow
  BY DEF RowsInv, RowsTyped
<1>2. \A b \in Buyers : buyer[b].country \in Countries
  BY DEF RowsInv, RowsTyped, BuyerRow
<1> QED BY <1>1, <1>2 DEF DealRight, DealRow, Ones

LEMMA StagesAddDeals ==
  ASSUME RowsInv, NEW range
  PROVE  SumOver(funnel(range, Everything)) = generalConversion(range).total
<1> DEFINE S == DealsIn(range)
           K == {"POTENTIAL_BUYER", "PURCHASED"}
           group == [c \in K |-> {d \in S : /\ deal[d].stage = c
                                            /\ \E b \in deal[d].of : Everything.country \in {AnyOne, buyer[b].country}}]
           by == funnel(range, Everything)
<1>1. IsFiniteSet(S) /\ IsFiniteSet(K)
  <2>1. S \subseteq Deals
    BY DEF DealsIn
  <2> HIDE DEF S
  <2>2. IsFiniteSet(K)
    <3>1. IsFiniteSet({"POTENTIAL_BUYER"})
      BY FS_Singleton
    <3>2. IsFiniteSet({"POTENTIAL_BUYER"} \cup {"PURCHASED"})
      BY <3>1, FS_AddElement
    <3>3. K = {"POTENTIAL_BUYER"} \cup {"PURCHASED"}
      OBVIOUS
    <3> QED BY <3>2, <3>3
  <2> QED BY <2>1, <2>2, FiguresFinite, FS_Subset
<1>2. \A c \in K : by[c] = Cardinality(group[c])
  BY DEF funnel
<1>3. Groups(group, K, S)
  <2>1. \A d \in S : (\E b \in Buyers : deal[d].of = {b}) /\ deal[d].stage \in K
    BY DealIs DEF DealsIn
  <2> HIDE DEF S
  <2>2. \A d \in S : \E c \in K : d \in group[c]
    BY <2>1 DEF Everything
  <2>3. \A c, j \in K : c # j => group[c] \cap group[j] = {}
    OBVIOUS
  <2>4. \A c \in K : group[c] \subseteq S
    OBVIOUS
  <2> HIDE DEF K, group
  <2> QED BY <2>2, <2>3, <2>4 DEF Groups
<1>4. DOMAIN by = K /\ generalConversion(range).total = Cardinality(S)
  BY DEF funnel, generalConversion
<1> HIDE DEF S, K, group, by
<1>5. SumFunctionOnSet(by, K) = Cardinality(S)
  BY <1>1, <1>2, <1>3, CountOfGroups
<1>6. SumOver(by) = SumFunctionOnSet(by, K)
  BY <1>4, OverIs
<1> QED BY <1>4, <1>5, <1>6 DEF by

LEMMA CountriesAddDeals ==
  ASSUME RowsInv, NEW range
  PROVE  SumOf(Countries, LAMBDA k : countries(range)[k].opportunities) = generalConversion(range).total
<1> DEFINE S == DealsIn(range)
           group == [k \in Countries |-> {d \in S : \E b \in deal[d].of : buyer[b].country = k}]
           by == [k \in Countries |-> countries(range)[k].opportunities]
<1>1. IsFiniteSet(S)
  <2>1. S \subseteq Deals
    BY DEF DealsIn
  <2> HIDE DEF S
  <2> QED BY <2>1, FiguresFinite, FS_Subset
<1>2. \A k \in Countries : by[k] = Cardinality(group[k])
  BY DEF countries
<1>3. Groups(group, Countries, S)
  <2>1. \A d \in S : \E b \in Buyers : deal[d].of = {b} /\ buyer[b].country \in Countries
    BY DealIs DEF DealsIn
  <2> HIDE DEF S
  <2>2. \A d \in S : \E k \in Countries : d \in group[k]
    BY <2>1
  <2>3. \A k, j \in Countries : k # j => group[k] \cap group[j] = {}
    BY <2>1
  <2> QED BY <2>2, <2>3 DEF Groups
<1>4. SumOf(Countries, LAMBDA k : countries(range)[k].opportunities) = SumFunctionOnSet(by, Countries)
  BY DEF SumOf
<1>6. generalConversion(range).total = Cardinality(S)
  BY DEF generalConversion
<1> HIDE DEF S, group, by
<1>5. SumFunctionOnSet(by, Countries) = Cardinality(S)
  BY <1>1, <1>2, <1>3, FiguresFinite, CountOfGroups
<1> QED BY <1>4, <1>5, <1>6


LEMMA Reconciled == ASSUME RowsInv PROVE ReportsReconcile
<1> DEFINE q == Everything
           revenue == salesMoney(Always, q)
<1>1. /\ revenue = SumOf(Billed, Total) /\ AllSoldIn(Always) = Billed
      /\ salesMoney(LastMonths, q) = SumOf(AllSoldIn(LastMonths), Total)
  BY SoldSets DEF salesMoney, SumOf
<1>2. revenue = SumOver(revenueDaily(Always, q))
  BY <1>1, DaysAddSales DEF SumOf
<1>3. salesMoney(LastMonths, q) = SumOver(revenueMonthly(LastDay, q))
  BY <1>1, MonthsAddSales DEF SumOf
<1>4. revenue = SumOver(salesByCountry(Always, q))
  <2> DEFINE by == salesByCountry(Always, q)
  <2>1. DOMAIN by = Countries
    BY DEF salesByCountry
  <2>2. \A k \in Countries : by[k] = SumOf({s \in AllSoldIn(Always) : FromCountry(s, k)}, Total)
    BY DEF salesByCountry, Everything, SumOf
  <2> HIDE DEF by
  <2>3. SumOver(by) = SumOf(AllSoldIn(Always), Total)
    BY <2>1, <2>2, CountriesAddSales DEF SumOf
  <2> QED BY <1>1, <2>3 DEF by, SumOf
<1>5. revenue = SumOf(Countries, LAMBDA k : countries(Always)[k].revenue)
  <2> DEFINE by == [k \in Countries |-> countries(Always)[k].revenue]
  <2>1. \A k \in Countries : by[k] = SumOf({s \in AllSoldIn(Always) : FromCountry(s, k)}, Total)
    BY DEF countries, SumOf
  <2>2. DOMAIN by = Countries /\ SumOf(Countries, LAMBDA k : countries(Always)[k].revenue) = SumFunctionOnSet(by, Countries)
    BY DEF SumOf
  <2> HIDE DEF by
  <2>3. SumFunctionOnSet(by, Countries) = SumOf(AllSoldIn(Always), Total)
    BY <2>1, <2>2, CountriesAddSales DEF SumOf
  <2> QED BY <1>1, <2>2, <2>3 DEF SumOf
<1>6. revenue = SumOf(DOMAIN sellers(Always), LAMBDA u : sellers(Always)[u].revenue)
                + SumOf({s \in Billed : sale[s].by \cap DOMAIN sellers(Always) = {}}, Total)
  BY <1>1, SellersAddSales DEF SumOf
<1>7. revenue = SumOf(WholePages, LAMBDA b : customer360[b].ltv) + SumOf(OffPages, Total)
  BY <1>1, BuyersAddSales DEF SumOf
<1>8. revenue = SumOver(salesByProduct(Always)) + SumOf(AllSoldIn(Always), LAMBDA s : sale[s].extra)
  BY <1>1, LinesAddSales, NamesAddLines DEF SumOf
<1>9. SumOf(Ads, LAMBDA a : campaigns(Always)[a].revenue) <= revenue
  BY <1>1, CampaignsAddLess DEF SumOf
<1>10. paymentMoney(Always, q) = SumOver(paymentMethods(Always, q))
  BY MethodsAddPayments
<1>11. /\ mrr(q) = SumOf(Countries, LAMBDA k : countries(Always)[k].mrr)
       /\ mrr(q) = SumOf(DOMAIN customer360, LAMBDA b : customer360[b].mrr) + SumOf(Unpaged, LineTotal)
  BY CountriesAddRecurring, BuyersAddRecurring DEF SumOf
<1>12. generalConversion(Always).total = SumOver(funnel(Always, q))
  BY StagesAddDeals
<1>13. generalConversion(Always).total = SumOf(Countries, LAMBDA k : countries(Always)[k].opportunities)
  BY CountriesAddDeals DEF SumOf
<1> QED BY <1>2, <1>3, <1>4, <1>5, <1>6, <1>7, <1>8, <1>9, <1>10, <1>11, <1>12, <1>13 DEF ReportsReconcile, SumOf

\* Whatever was sold, corrected, refunded, archived or removed, in whatever order, the
\* dashboard, its charts, the tables of business intelligence and the pages of the customers
\* say the same of the same rows: by day, month, country, seller, buyer, product, method
\* and stage, the sellers and the pages but for what they leave out (the queries of the executive-dashboard and business-intelligence services).
THEOREM ReportsReconcileAlways == FiguresSpec => []ReportsReconcile
BY FiguresHold, Reconciled, PTL

\* The same of the parts that the runs take apart: a part moves no figure that is not
\* its own, so what holds of every step of the business holds in each.
THEOREM FiguresReconcileAlways == MCReportsSpec => []FiguresReconcile
<1>1. ReportsReconcile => FiguresReconcile
  BY DEF FiguresReconcile
<1> QED BY <1>1, PartsAreBehaviours, ReportsReconcileAlways, PTL

----------------------------------------------------------------------------
(* The fronts agree.                                                       *)

LEMMA SmallerSum ==
  ASSUME RowsInv, NEW P, P \subseteq Takings, NEW R, R \subseteq Takings, \A t \in P : t \in R \/ TakenFor[t] \notin Billed
  PROVE  /\ SumOf(P, Received) <= SumOf(R, Received)
         /\ R \subseteq P => SumOf(P, Received) = SumOf(R, Received)
<1> DEFINE both == P \cap R
<1>1. ASSUME NEW t \in P \ both PROVE Got[t] = 0
  <2>1. t \in Takings /\ TakenFor[t] \notin Billed
    BY <1>1
  <2>2. taking[t].back = taking[t].net /\ taking[t].net \in Nat
    BY <2>1 DEF RowsInv, RowsTyped, TakingRow
  <2> QED BY <2>1, <2>2 DEF Got, Received
<1>2. /\ IsFiniteSet(P) /\ IsFiniteSet(R) /\ (\A t \in P : Got[t] \in Int) /\ (\A t \in R : Got[t] \in Nat)
      /\ SumOf(P, Received) = SumFunctionOnSet(Got, P) /\ SumOf(R, Received) = SumFunctionOnSet(Got, R)
  BY TakingsAre DEF SumOf
<1>3. both \subseteq P /\ both \subseteq R /\ (R \subseteq P => both = R) /\ \A t \in both : Got[t] \in Int
  BY <1>2
<1> HIDE DEF both
<1>4. SumFunctionOnSet(Got, P) = SumFunctionOnSet(Got, both)
  BY <1>1, <1>2, <1>3, SumSkips
<1>5. SumFunctionOnSet(Got, both) <= SumFunctionOnSet(Got, R)
  BY <1>2, <1>3, SumOfPart
<1> QED BY <1>2, <1>3, <1>4, <1>5 DEF SumOf

LEMMA OperationsDoAgree == ASSUME RowsInv PROVE OperationsAgree
<1> DEFINE real == realSummary(Always, AnyOne)
           P == PaidIn(Always, AnyOne)
           R == ReceivedIn(Always, Everything)
<1>1. SalesMade(Always, AnyOne) = Billed
  <2>1. \A s \in Billed : sale[s].made \in Days
    <3>1. \A s \in Billed : s \in Sales /\ sale[s].status # Void
      BY BilledIs
    <3> QED BY <3>1 DEF RowsInv, SaleRight
  <2>2. \A s \in Billed : In(sale[s].made, Always)
    BY <2>1, ReportRowsAssumption DEF In, Always, Days, ReportRowsAssumption
  <2> QED BY <2>2 DEF SalesMade, Asked
<1>2. real.billingGross = salesMoney(Always, Everything)
  <2>1. SoldIn(Always, Everything) = Billed
    BY SoldSets
  <2> QED BY <1>1, <2>1 DEF realSummary, salesMoney, SumOf
<1>3. pendingCollections(Always, AnyOne) = pendingBalance(Everything)
  <2>1. salesFilters(Everything) = Billed
    BY SoldSets
  <2> QED BY <1>1, <2>1 DEF pendingCollections, pendingBalance, SumOf
<1>4. \A u \in Sellers : collections(u) \subseteq collections(AnyOne)
  BY DEF collections, Asked
<1>5. P \subseteq Takings /\ R \subseteq Takings
  BY DEF PaidIn, ReceivedIn
<1>6. real.netIncome <= paymentMoney(Always, Everything)
  <2>1. \A t \in P : t \in R \/ TakenFor[t] \notin Billed
    BY SoldSets DEF PaidIn, ReceivedIn
  <2>2. SumOf(P, Received) <= SumOf(R, Received)
    <3> HIDE DEF P, R
    <3> QED BY <1>5, <2>1, SmallerSum DEF SumOf
  <2> QED BY <2>2 DEF realSummary, paymentMoney, SumOf
<1>7. real.netIncome + real.fees <= real.confirmedPayments
  <2> DEFINE fee == [t \in P |-> taking[t].lost]
             gross == [t \in P |-> taking[t].net + taking[t].lost]
             left == [t \in P |-> Got[t] + fee[t]]
  <2>1. \A t \in Takings : taking[t].net \in Nat /\ taking[t].lost \in Nat /\ taking[t].back \in Nat
    BY DEF RowsInv, RowsTyped, TakingRow
  <2>2. \A t \in P : Got[t] \in Int /\ Got[t] = taking[t].net - taking[t].back
    <3> HIDE DEF P
    <3> QED BY <1>5, TakingsAre DEF SumOf
  <2>3. \A t \in P : fee[t] \in Int /\ gross[t] \in Int /\ left[t] = Got[t] + fee[t] /\ left[t] \in Int /\ left[t] <= gross[t]
    BY <1>5, <2>1, <2>2
  <2>4. /\ real.fees = SumFunctionOnSet(fee, P) /\ real.confirmedPayments = SumFunctionOnSet(gross, P)
        /\ real.netIncome = SumOf(P, Received)
    BY DEF realSummary, SumOf
  <2> HIDE DEF fee, gross, left, P, real
  <2>5. IsFiniteSet(P) /\ SumOf(P, Received) = SumFunctionOnSet(Got, P)
    BY <1>5, TakingsAre DEF SumOf
  <2>6. SumFunctionOnSet(left, P) = SumFunctionOnSet(Got, P) + SumFunctionOnSet(fee, P)
    BY <2>2, <2>3, <2>5, SumPlus
  <2>7. SumFunctionOnSet(left, P) <= SumFunctionOnSet(gross, P)
    BY <2>3, <2>5, SumGrows
  <2> QED BY <2>4, <2>5, <2>6, <2>7 DEF SumOf
<1> QED BY <1>2, <1>3, <1>4, <1>6, <1>7 DEF OperationsAgree

\* What was spent, by currency.
LEMMA SpentAre ==
  ASSUME FinancesInv, NEW S, S \subseteq Expenses
  PROVE  /\ IsFiniteSet(S)
         /\ \A e \in Expenses : expense[e].amount \in Nat /\ expense[e].amount \in Int
         /\ SumOf(S, Spent) = SumFunctionOnSet([e \in Expenses |-> expense[e].amount], S) /\ SumOf(S, Spent) \in Int
<1> DEFINE all == [e \in Expenses |-> expense[e].amount]
           f == [e \in S |-> Spent(e)]
<1>1. IsFiniteSet(S)
  BY FS_Subset, FinancialAssumption DEF FinancialAssumption
<1>2. \A e \in Expenses : expense[e].amount \in Nat /\ expense[e].amount \in Int
  BY DEF FinancesInv, ExpenseRow
<1>3. \A e \in S : f[e] = all[e] /\ f[e] \in Int
  BY <1>2 DEF Spent
<1>4. SumOf(S, Spent) = SumFunctionOnSet(f, S)
  BY DEF SumOf
<1>5. SumFunctionOnSet(f, S) = SumFunctionOnSet(all, S) /\ SumFunctionOnSet(f, S) \in Int
  <2> HIDE DEF f, all
  <2> QED BY <1>1, <1>3, SumSame, SumIsInt
<1> QED BY <1>1, <1>2, <1>4, <1>5 DEF SumOf

LEMMA CoinsAddSpent ==
  ASSUME FinancesInv, NEW range
  PROVE  SumOf(Coins, LAMBDA c : SumOf(expenseWhere(range, c), Spent)) = SumOf(expenseWhere(range, AnyOne), Spent)
<1> DEFINE S == expenseWhere(range, AnyOne)
           all == [e \in Expenses |-> expense[e].amount]
           group == [c \in Coins |-> expenseWhere(range, c)]
           by == [c \in Coins |-> SumOf(expenseWhere(range, c), Spent)]
<1>1. S \subseteq Expenses /\ \A c \in Coins : group[c] \subseteq Expenses
  BY DEF expenseWhere
<1>2. \A c \in Coins : by[c] = SumFunctionOnSet(all, group[c])
  <2> SUFFICES ASSUME NEW c \in Coins PROVE by[c] = SumFunctionOnSet(all, group[c])
    OBVIOUS
  <2> DEFINE T == expenseWhere(range, c)
  <2>1. by[c] = SumFunctionOnSet([e \in T |-> Spent(e)], T) /\ group[c] = T
    BY DEF SumOf
  <2>2. T \subseteq Expenses
    BY DEF expenseWhere
  <2> HIDE DEF T
  <2>3. SumFunctionOnSet([e \in T |-> Spent(e)], T) = SumFunctionOnSet(all, T)
    BY <2>2, SpentAre DEF SumOf
  <2> QED BY <2>1, <2>3
<1>3. Groups(group, Coins, S)
  <2>1. \A e \in Expenses : expense[e].coin \in Coins
    BY DEF FinancesInv, ExpenseRow
  <2>2. AnyOne \notin Coins
    BY FinancialAssumption DEF FinancialAssumption, Coins
  <2> QED BY <2>1, <2>2 DEF Groups, expenseWhere
<1>4. SumOf(Coins, LAMBDA c : SumOf(expenseWhere(range, c), Spent)) = SumFunctionOnSet(by, Coins)
  BY DEF SumOf
<1>5. IsFiniteSet(Coins)
  <2>1. IsFiniteSet({"local"}) /\ Coins = {"local"} \cup {"USD"}
    BY FS_Singleton DEF Coins
  <2> QED BY <2>1, FS_AddElement
<1>6. \A e \in S : all[e] \in Int
  BY <1>1, SpentAre DEF SumOf
<1> HIDE DEF S, group, by, all
<1>7. IsFiniteSet(S) /\ SumOf(S, Spent) = SumFunctionOnSet(all, S)
  BY <1>1, SpentAre DEF SumOf, all
<1>8. SumFunctionOnSet(by, Coins) = SumFunctionOnSet(all, S)
  BY <1>2, <1>3, <1>5, <1>6, <1>7, SumOfGroups
<1> QED BY <1>4, <1>7, <1>8 DEF S, SumOf

LEMMA PartSpentIsLess ==
  ASSUME FinancesInv, NEW S, S \subseteq Expenses, NEW T, T \subseteq S
  PROVE  0 <= SumOf(T, Spent) /\ SumOf(T, Spent) <= SumOf(S, Spent) /\ SumOf(T, Spent) \in Int /\ SumOf(S, Spent) \in Int
<1> DEFINE all == [e \in Expenses |-> expense[e].amount]
<1>1. IsFiniteSet(S) /\ SumOf(S, Spent) = SumFunctionOnSet(all, S) /\ SumOf(S, Spent) \in Int
  BY SpentAre DEF SumOf
<1>2. T \subseteq Expenses
  OBVIOUS
<1>3. SumOf(T, Spent) = SumFunctionOnSet(all, T) /\ SumOf(T, Spent) \in Int
  BY <1>2, SpentAre DEF SumOf
<1>4. \A e \in S : all[e] \in Nat
  BY SpentAre DEF SumOf
<1> HIDE DEF all
<1>5. 0 <= SumFunctionOnSet(all, T) /\ SumFunctionOnSet(all, T) <= SumFunctionOnSet(all, S)
  BY <1>1, <1>4, SumOfPart
<1> QED BY <1>1, <1>3, <1>5 DEF SumOf


\* The dashboard of a month.
\* What a line brings in a month is twelve twelfths of its total when it recurs by the
\* month, and in the finances when it is a trial, which revenue intelligence leaves out.
LEMMA MonthlyIs ==
  ASSUME RowsInv, NEW l \in Lines
  PROVE  /\ monthlyOf(l) \in Int /\ normalized(l) \in Int /\ LineTotal(l) \in Nat
         /\ CycleOf[l].every \in {"MONTHLY", "TRIAL"} => monthlyOf(l) = 12 * LineTotal(l)
         /\ CycleOf[l].every = "TRIAL" => normalized(l) = 0
         /\ CycleOf[l].every # "TRIAL" => normalized(l) = monthlyOf(l)
<1>1. LineTotal(l) \in Nat
  BY DEF LineTotal, RowsInv, RowsTyped, LineRow
<1>2. CycleOf[l] \in BillingCycles
  BY ReportRowsAssumption DEF ReportRowsAssumption
<1> DEFINE total == LineTotal(l)
           every == CycleOf[l].every
           days == CycleOf[l].days
<1>3. /\ every \in {"TRIAL", "WEEKLY", "MONTHLY", "QUARTERLY", "SEMI_ANNUAL", "ANNUAL", "CUSTOM"}
      /\ days \in Nat \ {0}
  BY <1>2 DEF BillingCycles
<1>4. /\ monthlyOf(l) = CASE every = "WEEKLY" -> 52 * total
                          [] every = "QUARTERLY" -> 4 * total
                          [] every = "SEMI_ANNUAL" -> 2 * total
                          [] every = "ANNUAL" -> total
                          [] every = "CUSTOM" -> (12 * 30 * total) \div days
                          [] OTHER -> 12 * total
      /\ normalized(l) = CASE every = "WEEKLY" -> 52 * total
                           [] every = "MONTHLY" -> 12 * total
                           [] every = "QUARTERLY" -> 4 * total
                           [] every = "SEMI_ANNUAL" -> 2 * total
                           [] every = "ANNUAL" -> total
                           [] every = "CUSTOM" -> (12 * 30 * total) \div days
                           [] OTHER -> 0
  BY DEF monthlyOf, normalized
<1>5. total \in Nat
  BY <1>1
<1> HIDE DEF total, every, days
<1>6. (12 * 30 * total) \div days \in Int
  <2>1. 12 * 30 * total \in Int
    BY <1>5
  <2> QED BY <1>3, <2>1, DivIs
<1> DEFINE prorated == (12 * 30 * total) \div days
<1>7. prorated \in Int
  BY <1>6
<1> HIDE DEF prorated
<1>8. /\ every = "WEEKLY" => monthlyOf(l) = 52 * total /\ normalized(l) = 52 * total
      /\ every = "MONTHLY" => monthlyOf(l) = 12 * total /\ normalized(l) = 12 * total
      /\ every = "QUARTERLY" => monthlyOf(l) = 4 * total /\ normalized(l) = 4 * total
      /\ every = "SEMI_ANNUAL" => monthlyOf(l) = 2 * total /\ normalized(l) = 2 * total
      /\ every = "ANNUAL" => monthlyOf(l) = total /\ normalized(l) = total
      /\ every = "CUSTOM" => monthlyOf(l) = prorated /\ normalized(l) = prorated
      /\ every = "TRIAL" => monthlyOf(l) = 12 * total /\ normalized(l) = 0
  BY <1>4 DEF prorated
<1>9. /\ monthlyOf(l) \in Int /\ normalized(l) \in Int
      /\ every \in {"MONTHLY", "TRIAL"} => monthlyOf(l) = 12 * total
      /\ every = "TRIAL" => normalized(l) = 0
      /\ every # "TRIAL" => normalized(l) = monthlyOf(l)
  BY <1>3, <1>5, <1>7, <1>8
<1> QED BY <1>1, <1>9 DEF total, every

\* Twelve times each is twelve times the sum.
LEMMA TwelfthsAdd ==
  ASSUME RowsInv, NEW S, S \subseteq Lines, NEW f, \A l \in S : f[l] = 12 * LineTotal(l)
  PROVE  SumFunctionOnSet(f, S) = 12 * SumOf(S, LineTotal)
<1> DEFINE F(u) == SumFunctionOnSet(f, u)
           G(u) == SumFunctionOnSet(OfLine, u)
           D == {u \in SUBSET S : F(u) # 12 * G(u)}
<1>1. /\ IsFiniteSet(S) /\ SumOf(S, LineTotal) = G(S)
      /\ \A l \in S : OfLine[l] \in Int /\ f[l] = 12 * OfLine[l]
  <2>1. \A l \in S : OfLine[l] = LineTotal(l)
    BY DEF OfLine
  <2> QED BY <2>1, LinesAre DEF SumOf
<1>2. SUFFICES ASSUME D # {} PROVE FALSE
  BY <1>1 DEF SumOf
<1>3. D \subseteq SUBSET S
  OBVIOUS
<1>4. PICK X \in D : \A Y \in SUBSET X : Y # X => Y \notin D
  <2> HIDE DEF D
  <2> QED BY <1>1, <1>2, <1>3, SmallestSet
<1>5. X # {}
  <2>1. F({}) = 0 /\ G({}) = 0
    BY SumOfNone
  <2>2. F({}) = 12 * G({})
    BY <2>1
  <2> QED BY <1>4, <2>2
<1>6. PICK e \in X : TRUE
  BY <1>5
<1>7. F(X) = f[e] + F(X \ {e}) /\ G(X) = OfLine[e] + G(X \ {e})
  <2>1. IsFiniteSet(X) /\ \A x \in X : f[x] \in Int /\ OfLine[x] \in Int
    BY <1>1, FS_Subset
  <2> QED BY <2>1, SumTakes
<1>8. G(X \ {e}) \in Int /\ OfLine[e] \in Int /\ f[e] = 12 * OfLine[e]
  BY <1>1, FS_Subset, SumIsInt
<1>9. F(X \ {e}) = 12 * G(X \ {e})
  BY <1>4
<1>10. F(X) # 12 * G(X)
  OBVIOUS
<1> HIDE DEF F, G
<1> QED BY <1>7, <1>8, <1>9, <1>10

LEMMA FinancesDoAgree == ASSUME RowsInv, FinancesInv PROVE FinancesAgree
<1> SUFFICES ASSUME NEW m \in 0 .. MonthOf(LastDay)
             PROVE  LET board == financialDashboard(m, AnyOne)
                        month == Month(m)
                        Extra(s) == sale[s].extra
                        profits == profitability(m)
                    IN /\ board.revenue = salesMoney(month, Everything)
                       /\ board.realIncome = paymentMoney(month, Everything)
                       /\ (\A l \in ActiveSubs : CycleOf[l].every = "MONTHLY")
                            => financialDashboard(m, "local").mrr = 12 * mrr(Everything)
                       /\ board.expenses = SumOf(Coins, LAMBDA c : financialDashboard(m, c).expenses)
                       /\ 0 <= board.variableCost /\ 0 <= board.fixedMonthlyCost
                       /\ board.netProfit = board.grossProfit - board.fixedMonthlyCost
                       /\ \A p \in (m - 1) .. m :
                            LET then == financialDashboard(p, AnyOne)
                            IN /\ board.monthlyTrend[p].revenue = then.revenue
                               /\ board.monthlyTrend[p].expenses = then.expenses
                               /\ p < m => board.previousMonth.revenue = then.revenue
                                           /\ board.previousMonth.expenses = then.expenses
                       /\ board.revenue = SumOver(profits.byCountry)
                       /\ board.revenue = profits.byProduct + SumOf(AllSoldIn(month), Extra)
                       /\ profits.byCountry = salesByCountry(month, Everything)
                       /\ \A a \in Ads : profits.byCampaign[a] = campaigns(month)[a].revenue
  BY DEF FinancesAgree, SumOf
<1> DEFINE board == financialDashboard(m, AnyOne)
           month == Month(m)
           profits == profitability(m)
           sold == AllSoldIn(month)
           income == {t \in Takings : /\ taking[t].status \in {"CONFIRMED", "REFUNDED"}
                                      /\ In(taking[t].day, month) /\ AnyOne # "USD"}
           spent == expenseWhere(month, AnyOne)
           varying == {e \in spent : IsVariable(e)}
<1>1. m \in Int
  OBVIOUS
<1>2. AnyOne # "USD" /\ AnyOne # "local"
  BY FinancialAssumption DEF FinancialAssumption
<1>3. \A range : saleWhere(range, AnyOne) = AllSoldIn(range)
  BY <1>2 DEF saleWhere
<1>4. board.revenue = SumOf(sold, Total)
  BY <1>3 DEF financialDashboard, SumOf
<1>5. board.revenue = salesMoney(month, Everything)
  <2>1. SoldIn(month, Everything) = sold
    BY SoldSets
  <2> QED BY <1>4, <2>1 DEF salesMoney, SumOf
<1>6. board.realIncome = paymentMoney(month, Everything)
  <2> DEFINE R == ReceivedIn(month, Everything)
  <2>1. board.realIncome = SumOf(income, Received) /\ paymentMoney(month, Everything) = SumOf(R, Received)
    BY DEF financialDashboard, paymentMoney, SumOf
  <2>2. income \subseteq Takings /\ R \subseteq Takings /\ R \subseteq income
    BY <1>2 DEF ReceivedIn
  <2>3. \A t \in income : t \in R \/ TakenFor[t] \notin Billed
    BY SoldSets DEF ReceivedIn
  <2> HIDE DEF R, income
  <2>4. SumOf(income, Received) = SumOf(R, Received)
    BY <2>2, <2>3, SmallerSum DEF SumOf
  <2> QED BY <2>1, <2>4 DEF SumOf
<1>7. (\A l \in ActiveSubs : CycleOf[l].every = "MONTHLY") => financialDashboard(m, "local").mrr = 12 * mrr(Everything)
  <2> SUFFICES ASSUME \A l \in ActiveSubs : CycleOf[l].every = "MONTHLY"
               PROVE  financialDashboard(m, "local").mrr = 12 * mrr(Everything)
    OBVIOUS
  <2>1. ActiveSubs \subseteq Lines /\ mrr(Everything) = SumOf(ActiveSubs, LineTotal)
    BY ActiveIs DEF SumOf
  <2> DEFINE f == [l \in ActiveSubs |-> monthlyOf(l)]
  <2>2. \A l \in ActiveSubs : f[l] = 12 * LineTotal(l)
    BY <2>1, MonthlyIs
  <2>3. financialDashboard(m, "local").mrr = SumFunctionOnSet(f, ActiveSubs)
    BY DEF financialDashboard, SumOf
  <2> HIDE DEF f
  <2>4. SumFunctionOnSet(f, ActiveSubs) = 12 * SumOf(ActiveSubs, LineTotal)
    BY <2>1, <2>2, TwelfthsAdd DEF SumOf
  <2> QED BY <2>1, <2>3, <2>4 DEF SumOf
<1>8. board.expenses = SumOf(Coins, LAMBDA c : financialDashboard(m, c).expenses)
  <2>1. board.expenses = SumOf(spent, Spent) /\ \A c : financialDashboard(m, c).expenses = SumOf(expenseWhere(month, c), Spent)
    BY DEF financialDashboard, SumOf
  <2>2. SumOf(Coins, LAMBDA c : financialDashboard(m, c).expenses) = SumOf(Coins, LAMBDA c : SumOf(expenseWhere(month, c), Spent))
    BY <2>1 DEF SumOf
  <2>3. SumOf(Coins, LAMBDA c : SumOf(expenseWhere(month, c), Spent)) = SumOf(spent, Spent)
    BY CoinsAddSpent DEF SumOf
  <2> QED BY <2>1, <2>2, <2>3 DEF SumOf
<1>9. 0 <= board.variableCost /\ 0 <= board.fixedMonthlyCost /\ board.netProfit = board.grossProfit - board.fixedMonthlyCost
  <2> DEFINE in == SumOf(income, Received)
             v == SumOf(varying, Spent)
             o == SumOf(spent, Spent)
  <2>1. /\ board.variableCost = v /\ board.fixedMonthlyCost = o - v
        /\ board.netProfit = in - o /\ board.grossProfit = in - v
    BY DEF financialDashboard, SumOf
  <2>2. spent \subseteq Expenses /\ varying \subseteq spent /\ income \subseteq Takings
    BY DEF expenseWhere
  <2> HIDE DEF spent, varying, income
  <2>3. 0 <= v /\ v <= o /\ v \in Int /\ o \in Int
    BY <2>2, PartSpentIsLess DEF SumOf
  <2>4. in \in Int
    BY <2>2, TakingsAre DEF SumOf
  <2> HIDE DEF in, v, o, board
  <2> QED BY <2>1, <2>3, <2>4
<1>10. ASSUME NEW p \in (m - 1) .. m
       PROVE  LET then == financialDashboard(p, AnyOne)
              IN /\ board.monthlyTrend[p].revenue = then.revenue
                 /\ board.monthlyTrend[p].expenses = then.expenses
                 /\ p < m => board.previousMonth.revenue = then.revenue
                             /\ board.previousMonth.expenses = then.expenses
  <2>1. p \in (m - 11) .. m /\ (p < m => p = m - 1)
    BY <1>1
  <2>2. /\ financialDashboard(p, AnyOne).revenue = SumOf(saleWhere(Month(p), AnyOne), Total)
        /\ financialDashboard(p, AnyOne).expenses = SumOf(expenseWhere(Month(p), AnyOne), Spent)
    BY DEF financialDashboard, SumOf
  <2>3. /\ board.monthlyTrend[p].revenue = SumOf(saleWhere(Month(p), AnyOne), Total)
        /\ board.monthlyTrend[p].expenses = SumOf(expenseWhere(Month(p), AnyOne), Spent)
    BY <2>1 DEF financialDashboard, SumOf
  <2>4. /\ board.previousMonth.revenue = SumOf(saleWhere(Month(m - 1), AnyOne), Total)
        /\ board.previousMonth.expenses = SumOf(expenseWhere(Month(m - 1), AnyOne), Spent)
    BY DEF financialDashboard, SumOf
  <2> HIDE DEF board
  <2> QED BY <2>1, <2>2, <2>3, <2>4 DEF SumOf
<1>11. profits.byCountry = salesByCountry(month, Everything)
  BY DEF profitability, salesByCountry, Everything, SumOf
<1>12. board.revenue = SumOver(profits.byCountry)
  <2> DEFINE by == profits.byCountry
  <2>1. DOMAIN by = Countries
    BY DEF profitability
  <2>2. \A k \in Countries : by[k] = SumOf({s \in AllSoldIn(month) : FromCountry(s, k)}, Total)
    BY DEF profitability, SumOf
  <2> HIDE DEF by
  <2>3. SumOver(by) = SumOf(AllSoldIn(month), Total)
    BY <2>1, <2>2, CountriesAddSales DEF SumOf
  <2> QED BY <1>4, <2>3 DEF by, SumOf
<1>13. board.revenue = profits.byProduct + SumOf(AllSoldIn(month), LAMBDA s : sale[s].extra)
  <2>1. profits.byProduct = SumOf(LinesIn(month), LineTotal)
    BY DEF profitability, LinesIn, SumOf
  <2> QED BY <1>4, <2>1, LinesAddSales DEF SumOf
<1>14. \A a \in Ads : profits.byCampaign[a] = campaigns(month)[a].revenue
  BY DEF profitability, campaigns, SumOf
<1> QED BY <1>5, <1>6, <1>7, <1>8, <1>9, <1>10, <1>11, <1>12, <1>13, <1>14 DEF SumOf


\* Without filters the KPIs take every sale, subscription and opportunity there is.
LEMMA WholeIsEverything ==
  ASSUME RowsInv
  PROVE  /\ saleConditions(Whole) = Billed
         /\ {l \in subscriptionConditions(Whole) : sub[l].status = "ACTIVE"} = ActiveSubs
         /\ \A d \in Days : Between(d, Whole) /\ In(d, Always)
<1>1. LastDay \in Nat
  BY ReportRowsAssumption DEF ReportRowsAssumption
<1>2. \A d \in Days : Between(d, Whole) /\ In(d, Always)
  BY <1>1 DEF Between, Whole, In, Always, Days
<1>3. \A s \in Billed : Between(WhenSold(s), Whole)
  BY <1>2, BilledIs
<1>4. saleConditions(Whole) = Billed
  BY <1>3 DEF saleConditions, Asked, Whole
<1>5. \A l \in ActiveSubs : (\E b \in sub[l].of : Whole.country \in {AnyOne, buyer[b].country}) /\ l \in Lines
  BY ActiveIs DEF Whole
<1>6. {l \in subscriptionConditions(Whole) : sub[l].status = "ACTIVE"} = ActiveSubs
  BY <1>5 DEF subscriptionConditions, ActiveSubs, Asked, Whole, Void
<1> QED BY <1>2, <1>4, <1>6

LEMMA MonthsGrow ==
  /\ \A d, e \in Int : d <= e => MonthOf(d) <= MonthOf(e)
  /\ \A d \in Days : MonthOf(d) \in 0 .. MonthOf(LastDay)
  /\ MonthOf(LastDay) \in Int
<1>1. MonthDays \in Nat \ {0} /\ LastDay \in Int
  BY ReportRowsAssumption DEF ReportRowsAssumption
<1>2. ASSUME NEW d \in Int, NEW e \in Int, d <= e PROVE MonthOf(d) <= MonthOf(e)
  <2>1. MonthOf(d) \in Int /\ MonthDays * MonthOf(d) <= d
    BY <1>1, DivIs DEF MonthOf
  <2> DEFINE m == MonthOf(d)
  <2> HIDE DEF m
  <2>2. m \in Int /\ MonthDays * m <= e
    <3>1. MonthDays * m \in Int
      BY <1>1, <2>1, TimesNext DEF m
    <3> QED BY <1>2, <2>1, <3>1 DEF m
  <2>3. m <= MonthOf(e)
    BY <2>2, MonthIs
  <2> QED BY <2>3 DEF m
<1>3. \A d \in Int : MonthOf(d) \in Int
  BY MonthIs
<1>4. ASSUME NEW d \in Days PROVE MonthOf(d) \in 0 .. MonthOf(LastDay)
  <2>1. d \in Int /\ 0 <= d /\ d <= LastDay
    BY DEF Days
  <2>2. MonthDays * 0 = 0
    BY <1>1
  <2>3. 0 <= MonthOf(d)
    BY <2>1, <2>2, MonthIs
  <2>4. MonthOf(d) <= MonthOf(LastDay)
    BY <1>1, <1>2, <2>1
  <2> QED BY <1>1, <1>3, <2>1, <2>3, <2>4
<1> QED BY <1>1, <1>2, <1>3, <1>4

\* The month a buyer is acquired in is that of a sale of theirs, and no later than any.
FirstMonth(b) == MonthOf(Min({WhenSold(s) : s \in {t \in saleConditions(Whole) : sale[t].of = {b}}}))
OfMonth(c) == {b \in activeBuyers(Whole) : FirstMonth(b) = c}
SalesBy(c, p) == {s \in saleConditions(Whole) : sale[s].of \subseteq OfMonth(c) /\ MonthOf(WhenSold(s)) = c + p}

LEMMA FirstMonthIs ==
  ASSUME RowsInv, NEW s \in Billed, NEW b, sale[s].of = {b}
  PROVE  /\ b \in activeBuyers(Whole) /\ FirstMonth(b) \in 0 .. MonthOf(LastDay)
         /\ FirstMonth(b) <= MonthOf(WhenSold(s))
<1> DEFINE theirs == {t \in Billed : sale[t].of = {b}}
           days == {WhenSold(t) : t \in theirs}
<1>1. saleConditions(Whole) = Billed /\ FirstMonth(b) = MonthOf(Min(days))
  BY WholeIsEverything DEF FirstMonth
<1>2. b \in activeBuyers(Whole)
  BY <1>1 DEF activeBuyers, BuyersOf
<1>3. days \subseteq Days /\ WhenSold(s) \in days /\ Days \subseteq Int
  BY BilledIs DEF Days
<1> HIDE DEF days
<1>4. IsFiniteSet(days) /\ days \subseteq Int /\ days # {}
  BY <1>3, DaysFinite, FS_Subset
<1>5. \E m \in days : \A i \in days : m <= i
  BY <1>4, LeastExists
<1>6. Min(days) \in days /\ \A i \in days : Min(days) <= i
  BY <1>5 DEF Min
<1>7. MonthOf(Min(days)) \in 0 .. MonthOf(LastDay) /\ MonthOf(Min(days)) <= MonthOf(WhenSold(s))
  BY <1>3, <1>6, MonthsGrow
<1> QED BY <1>1, <1>2, <1>7

LEMMA CohortsAddSales ==
  ASSUME RowsInv
  PROVE  SumOf(0 .. MonthOf(LastDay), LAMBDA c : SumOver([p \in DOMAIN cohorts(Whole)[c] |-> cohorts(Whole)[c][p].revenue]))
           = SumOf(Billed, Total)
<1> DEFINE months == 0 .. MonthOf(LastDay)
           mine == [c \in months |-> {s \in Billed : sale[s].of \subseteq OfMonth(c)}]
           of == [c \in months |-> SumOver([p \in DOMAIN cohorts(Whole)[c] |-> cohorts(Whole)[c][p].revenue])]
<1>1. IsFiniteSet(months) /\ Billed \subseteq Sales /\ saleConditions(Whole) = Billed
  BY MonthsGrow, DaysFinite, SoldSets, WholeIsEverything
<1>2. ASSUME NEW c \in months PROVE of[c] = SumOf(mine[c], Total)
  <2> DEFINE by == [p \in DOMAIN cohorts(Whole)[c] |-> cohorts(Whole)[c][p].revenue]
             group == [p \in months |-> SalesBy(c, p)]
             S == {s \in Billed : sale[s].of \subseteq OfMonth(c)}
  <2>1. of[c] = SumOver(by) /\ mine[c] = S /\ S \subseteq Sales
    BY <1>1
  <2>2. DOMAIN by = months /\ \A p \in months : by[p] = SumOf(group[p], Total)
    BY DEF cohorts, SalesBy, OfMonth, FirstMonth, SumOf
  <2>3. Groups(group, months, S)
    <3>1. ASSUME NEW s \in S PROVE MonthOf(WhenSold(s)) - c \in months
      <4>1. PICK b \in Buyers : sale[s].of = {b}
        BY BilledIs
      <4>2. b \in OfMonth(c)
        BY <4>1
      <4>3. FirstMonth(b) = c
        BY <4>2 DEF OfMonth
      <4>4. c <= MonthOf(WhenSold(s)) /\ MonthOf(WhenSold(s)) \in months
        BY <4>1, <4>3, FirstMonthIs, BilledIs, MonthsGrow
      <4> QED BY <4>4, MonthsGrow
    <3>2. \A p \in months : group[p] = {s \in S : MonthOf(WhenSold(s)) = c + p}
      BY <1>1 DEF SalesBy
    <3>3. \A s \in S : MonthOf(WhenSold(s)) \in Int
      BY BilledIs, MonthIs
    <3> HIDE DEF S, group
    <3>4. \A s \in S : \E p \in months : s \in group[p]
      <4> SUFFICES ASSUME NEW s \in S PROVE \E p \in months : s \in group[p]
        OBVIOUS
      <4> DEFINE p == MonthOf(WhenSold(s)) - c
      <4>1. p \in months /\ MonthOf(WhenSold(s)) = c + p
        BY <3>1, <3>3
      <4> QED BY <3>2, <4>1
    <3>5. \A p, q \in months : p # q => group[p] \cap group[q] = {}
      BY <3>2
    <3>6. \A p \in months : group[p] \subseteq S
      BY <3>2
    <3> HIDE DEF months
    <3> QED BY <3>4, <3>5, <3>6 DEF Groups
  <2> HIDE DEF by, group, S, months
  <2>4. SumFunctionOnSet(by, months) = SumOf(S, Total)
    BY <1>1, <2>1, <2>2, <2>3, SalesByGroup DEF SumOf
  <2>5. SumOver(by) = SumFunctionOnSet(by, months)
    BY <2>2, OverIs
  <2> QED BY <2>1, <2>4, <2>5 DEF SumOf
<1>3. Groups(mine, months, Billed)
  <2>1. ASSUME NEW s \in Billed PROVE \E c \in months : s \in mine[c]
    <3>1. PICK b \in Buyers : sale[s].of = {b}
      BY BilledIs
    <3>2. b \in activeBuyers(Whole) /\ FirstMonth(b) \in months
      BY <3>1, FirstMonthIs
    <3>3. sale[s].of \subseteq OfMonth(FirstMonth(b))
      BY <3>1, <3>2 DEF OfMonth
    <3> QED BY <3>2, <3>3
  <2>2. ASSUME NEW c \in months, NEW e \in months, c # e PROVE mine[c] \cap mine[e] = {}
    <3>1. ASSUME NEW s \in mine[c] \cap mine[e] PROVE FALSE
      <4>1. PICK b \in Buyers : sale[s].of = {b}
        BY <3>1, BilledIs
      <4>2. b \in OfMonth(c) /\ b \in OfMonth(e)
        BY <3>1, <4>1
      <4> QED BY <2>2, <4>2 DEF OfMonth
    <3> QED BY <3>1
  <2>3. \A c \in months : mine[c] \subseteq Billed
    OBVIOUS
  <2> HIDE DEF mine, months
  <2> QED BY <2>1, <2>2, <2>3 DEF Groups
<1>4. SumOf(months, LAMBDA c : SumOver([p \in DOMAIN cohorts(Whole)[c] |-> cohorts(Whole)[c][p].revenue]))
        = SumFunctionOnSet(of, months)
  BY DEF SumOf
<1> HIDE DEF mine, of
<1>5. SumFunctionOnSet(of, months) = SumOf(Billed, Total)
  <2> HIDE DEF months
  <2> QED BY <1>1, <1>2, <1>3, SalesByGroup DEF SumOf
<1> QED BY <1>4, <1>5 DEF SumOf

\* The conversions by whatever an opportunity has one of.
LEMMA ConversionsAdd ==
  ASSUME RowsInv, NEW keys, IsFiniteSet(keys), NEW key,
         \A d \in Deals : Exists(deal[d]) => \E k \in keys : key[d] = {k},
         NEW table, table = conversionRows(Whole, keys, key),
         NEW conversions, NEW opportunities, DOMAIN conversions = DOMAIN table, DOMAIN opportunities = DOMAIN table,
         \A k \in DOMAIN table : conversions[k] = table[k].conversions /\ opportunities[k] = table[k].opportunities
  PROVE  /\ SumOver(conversions) = Cardinality({s \in Billed : sale[s].deal # {}})
         /\ SumOver(opportunities) = generalConversion(Always).total
<1> DEFINE opened == DealsIn(Always)
           linked == {s \in Billed : sale[s].deal # {}}
           Of(k) == {d \in Deals : /\ Exists(deal[d]) /\ Between(deal[d].made, Whole) /\ k \in key[d]
                                   /\ \E b \in deal[d].of : Whole.country \in {AnyOne, buyer[b].country}
                                   /\ Asked(deal[d].by, Whole.seller)}
           group == [k \in keys |-> Of(k)]
           won == [k \in keys |-> UNION {ConvertedIn(Whole, d) : d \in Of(k)}]
<1>1. DOMAIN table = keys /\ \A k \in keys : /\ table[k].conversions = Cardinality(won[k])
                                             /\ table[k].opportunities = Cardinality(group[k])
  BY DEF conversionRows
<1>2. /\ DOMAIN conversions = keys /\ DOMAIN opportunities = keys
      /\ \A k \in keys : conversions[k] = Cardinality(won[k]) /\ opportunities[k] = Cardinality(group[k])
  BY <1>1
<1>3. opened = {d \in Deals : Exists(deal[d])} /\ generalConversion(Always).total = Cardinality(opened)
  BY DealIs, WholeIsEverything DEF DealsIn, generalConversion
<1>4. ASSUME NEW k \in keys PROVE group[k] = {d \in opened : key[d] = {k}}
  <2>1. \A d \in opened : /\ Between(deal[d].made, Whole) /\ Asked(deal[d].by, Whole.seller)
                          /\ \E b \in deal[d].of : Whole.country \in {AnyOne, buyer[b].country}
    BY <1>3, DealIs, WholeIsEverything DEF Asked, Whole
  <2>2. \A d \in opened : k \in key[d] <=> key[d] = {k}
    BY <1>3
  <2> HIDE DEF opened
  <2> QED BY <1>3, <2>1, <2>2
<1>5. ASSUME NEW s \in linked PROVE \E d \in opened : sale[s].deal = {d} /\ s \in ConvertedIn(Whole, d)
  <2>1. s \in Billed /\ sale[s].deal # {} /\ s \in Sales /\ sale[s].status # Void
    BY BilledIs
  <2>2. PICK d \in Deals : sale[s].deal = {d} /\ Exists(deal[d])
    BY <2>1 DEF RowsInv, SaleRight, Ones
  <2>3. Between(WhenSold(s), Whole)
    BY <2>1, BilledIs, WholeIsEverything
  <2> QED BY <1>3, <2>1, <2>2, <2>3 DEF ConvertedIn
<1>6. IsFiniteSet(opened) /\ IsFiniteSet(linked)
  <2>1. opened \subseteq Deals /\ linked \subseteq Sales
    BY <1>3, SoldSets
  <2> HIDE DEF opened, linked
  <2> QED BY <2>1, FiguresFinite, FS_Subset
<1>7. Groups(group, keys, opened)
  <2>1. \A d \in opened : \E k \in keys : key[d] = {k}
    BY <1>3
  <2> HIDE DEF opened, group
  <2> QED BY <1>4, <2>1 DEF Groups
<1>8. Groups(won, keys, linked)
  <2>1. \A d : ConvertedIn(Whole, d) \subseteq linked /\ \A s \in ConvertedIn(Whole, d) : sale[s].deal = {d}
    BY DEF ConvertedIn
  <2>2. \A k \in keys : won[k] = UNION {ConvertedIn(Whole, d) : d \in group[k]}
    OBVIOUS
  <2>3. \A d \in opened : \E k \in keys : d \in group[k]
    BY <1>7 DEF Groups
  <2>4. \A k, j \in keys : k # j => group[k] \cap group[j] = {}
    BY <1>7 DEF Groups
  <2> HIDE DEF won, group, opened, linked
  <2>5. \A k \in keys : won[k] \subseteq linked
    BY <2>1, <2>2
  <2>6. ASSUME NEW s \in linked PROVE \E k \in keys : s \in won[k]
    <3>1. PICK d \in opened : s \in ConvertedIn(Whole, d)
      BY <1>5
    <3>2. PICK k \in keys : d \in group[k]
      BY <2>3
    <3> QED BY <2>2, <3>1, <3>2
  <2>7. ASSUME NEW k \in keys, NEW j \in keys, k # j PROVE won[k] \cap won[j] = {}
    <3>1. ASSUME NEW s \in won[k] \cap won[j] PROVE FALSE
      <4>1. PICK d \in group[k] : s \in ConvertedIn(Whole, d)
        BY <2>2, <3>1
      <4>2. PICK e \in group[j] : s \in ConvertedIn(Whole, e)
        BY <2>2, <3>1
      <4>3. {d} = {e}
        BY <2>1, <4>1, <4>2
      <4> QED BY <2>4, <2>7, <4>1, <4>2, <4>3
    <3> QED BY <3>1
  <2> QED BY <2>5, <2>6, <2>7 DEF Groups
<1> HIDE DEF opened, linked, group, won
<1>9. SumFunctionOnSet(conversions, keys) = Cardinality(linked) /\ SumFunctionOnSet(opportunities, keys) = Cardinality(opened)
  BY <1>2, <1>6, <1>7, <1>8, CountOfGroups
<1>10. SumOver(conversions) = SumFunctionOnSet(conversions, keys) /\ SumOver(opportunities) = SumFunctionOnSet(opportunities, keys)
  BY <1>2, OverIs
<1> QED BY <1>3, <1>9, <1>10 DEF linked

LEMMA LostAreNotActive ==
  ASSUME RowsInv, NEW f, f.from \in Int, f.to \in Int
  PROVE  lostBuyers(f) \cap activeBuyers(f) = {}
<1> SUFFICES ASSUME NEW b \in lostBuyers(f), b \in activeBuyers(f) PROVE FALSE
  OBVIOUS
<1>1. PICK s \in saleConditions(f) : b \in sale[s].of
  BY DEF activeBuyers, BuyersOf
<1>2. s \in Billed /\ Between(WhenSold(s), f)
  BY <1>1 DEF saleConditions
<1>3. sale[s].of = {b} /\ WhenSold(s) \in Int
  BY <1>1, <1>2, BilledIs
<1>4. WhenSold(s) \in f.from .. f.to
  BY <1>2, <1>3 DEF Between
<1> QED BY <1>2, <1>3, <1>4 DEF lostBuyers

LEMMA FrontsDoAgree == ASSUME RowsInv, FinancesInv PROVE FrontsAgree
<1> DEFINE Won(table) == SumOver([k \in DOMAIN table |-> table[k].conversions])
           Opened(table) == SumOver([k \in DOMAIN table |-> table[k].opportunities])
           linked == Cardinality({s \in Billed : sale[s].deal # {}})
           total == generalConversion(Always).total
<1>1. OperationsAgree /\ FinancesAgree
  BY OperationsDoAgree, FinancesDoAgree
<1>2. moneyForSales(Whole).amount = SumOf(Billed, Total)
  BY WholeIsEverything DEF moneyForSales, SumOf
<1>3. moneyForSales(Whole).amount = salesMoney(Always, Everything)
  <2>1. SoldIn(Always, Everything) = Billed
    BY SoldSets
  <2> QED BY <1>2, <2>1 DEF salesMoney, SumOf
<1>4. financialDashboard(0, "local").mrr
        = normalizedMrr(Whole) + 12 * SumOf({l \in ActiveSubs : CycleOf[l].every = "TRIAL"}, LineTotal)
  <2> DEFINE S == ActiveSubs
             T == {l \in ActiveSubs : CycleOf[l].every = "TRIAL"}
             h == [l \in S |-> monthlyOf(l)]
             f == [l \in S |-> normalized(l)]
             g == [l \in S |-> IF l \in T THEN 12 * LineTotal(l) ELSE 0]
  <2>1. S \subseteq Lines /\ T \subseteq S /\ T \subseteq Lines /\ IsFiniteSet(S)
    BY ActiveIs, FiguresFinite, FS_Subset
  <2>2. \A l \in S : f[l] \in Int /\ g[l] \in Int /\ h[l] = f[l] + g[l]
    <3> SUFFICES ASSUME NEW l \in S PROVE f[l] \in Int /\ g[l] \in Int /\ h[l] = f[l] + g[l]
      OBVIOUS
    <3>1. /\ monthlyOf(l) \in Int /\ normalized(l) \in Int /\ LineTotal(l) \in Nat
          /\ l \in T => monthlyOf(l) = 12 * LineTotal(l) /\ normalized(l) = 0
          /\ l \notin T => normalized(l) = monthlyOf(l)
      BY <2>1, MonthlyIs
    <3>2. h[l] = monthlyOf(l) /\ f[l] = normalized(l) /\ g[l] = IF l \in T THEN 12 * LineTotal(l) ELSE 0
      OBVIOUS
    <3> HIDE DEF T, f, g, h
    <3> QED BY <3>1, <3>2
  <2>3. (\A l \in T : g[l] = 12 * LineTotal(l)) /\ \A l \in S \ T : g[l] = 0
    OBVIOUS
  <2>4. financialDashboard(0, "local").mrr = SumFunctionOnSet(h, S) /\ normalizedMrr(Whole) = SumFunctionOnSet(f, S)
    BY WholeIsEverything DEF financialDashboard, normalizedMrr, SumOf
  <2>5. \A l \in T : g[l] \in Int
    BY <2>1, <2>2
  <2> HIDE DEF S, T, f, g, h
  <2>6. SumFunctionOnSet(h, S) = SumFunctionOnSet(f, S) + SumFunctionOnSet(g, S)
    BY <2>1, <2>2, SumPlus
  <2>7. SumFunctionOnSet(g, S) = SumFunctionOnSet(g, T)
    BY <2>1, <2>3, <2>5, SumSkips
  <2>8. SumFunctionOnSet(g, T) = 12 * SumOf(T, LineTotal)
    BY <2>1, <2>3, TwelfthsAdd DEF SumOf
  <2> QED BY <2>4, <2>6, <2>7, <2>8 DEF T, SumOf
<1>5. moneyForSales(Whole).amount
        = SumOf(0 .. MonthOf(LastDay), LAMBDA c : SumOver([p \in DOMAIN cohorts(Whole)[c] |-> cohorts(Whole)[c][p].revenue]))
  BY <1>2, CohortsAddSales DEF SumOf
<1>6. Won(conversionByStage(Whole)) = linked /\ Opened(conversionByStage(Whole)) = total
  <2> DEFINE keys == {"POTENTIAL_BUYER", "PURCHASED"}
             key == [d \in Deals |-> {deal[d].stage}]
  <2>1. conversionByStage(Whole) = conversionRows(Whole, keys, key)
    BY DEF conversionByStage
  <2>2. IsFiniteSet(keys)
    <3>1. IsFiniteSet({"POTENTIAL_BUYER"}) /\ keys = {"POTENTIAL_BUYER"} \cup {"PURCHASED"}
      BY FS_Singleton
    <3> QED BY <3>1, FS_AddElement
  <2>3. \A d \in Deals : Exists(deal[d]) => \E k \in keys : key[d] = {k}
    BY DealIs
  <2> DEFINE table == conversionRows(Whole, keys, key)
  <2> HIDE DEF keys, key, table
  <2> DEFINE conversions == [k \in DOMAIN table |-> table[k].conversions]
             opportunities == [k \in DOMAIN table |-> table[k].opportunities]
  <2>4. /\ DOMAIN conversions = DOMAIN table /\ DOMAIN opportunities = DOMAIN table
        /\ \A k \in DOMAIN table : conversions[k] = table[k].conversions /\ opportunities[k] = table[k].opportunities
    OBVIOUS
  <2>5. table = conversionRows(Whole, keys, key)
    BY DEF table
  <2> HIDE DEF conversions, opportunities
  <2>6. SumOver(conversions) = linked /\ SumOver(opportunities) = total
    BY <2>2, <2>3, <2>4, <2>5, ConversionsAdd
  <2>7. conversionByStage(Whole) = table
    BY <2>1 DEF table
  <2> QED BY <2>6, <2>7 DEF conversions, opportunities
<1>7. Won(conversionBySeller(Whole)) = linked /\ Opened(conversionBySeller(Whole)) = total
  <2> DEFINE keys == Sellers
             key == [d \in Deals |-> deal[d].by]
  <2>1. conversionBySeller(Whole) = conversionRows(Whole, keys, key)
    BY DEF conversionBySeller
  <2>2. \A d \in Deals : Exists(deal[d]) => \E k \in keys : key[d] = {k}
    BY DealIs
  <2>3. IsFiniteSet(keys) /\ \A d \in Deals : Exists(deal[d]) => \E k \in keys : key[d] = {k}
    BY <2>2, FiguresFinite
  <2> DEFINE table == conversionRows(Whole, keys, key)
  <2> HIDE DEF keys, key, table
  <2> DEFINE conversions == [k \in DOMAIN table |-> table[k].conversions]
             opportunities == [k \in DOMAIN table |-> table[k].opportunities]
  <2>4. /\ DOMAIN conversions = DOMAIN table /\ DOMAIN opportunities = DOMAIN table
        /\ \A k \in DOMAIN table : conversions[k] = table[k].conversions /\ opportunities[k] = table[k].opportunities
    OBVIOUS
  <2>5. table = conversionRows(Whole, keys, key)
    BY DEF table
  <2> HIDE DEF conversions, opportunities
  <2>6. SumOver(conversions) = linked /\ SumOver(opportunities) = total
    BY <2>3, <2>4, <2>5, ConversionsAdd
  <2>7. conversionBySeller(Whole) = table
    BY <2>1 DEF table
  <2> QED BY <2>6, <2>7 DEF conversions, opportunities
<1>8. Won(conversionByCountry(Whole)) = linked /\ Opened(conversionByCountry(Whole)) = total
  <2> DEFINE keys == Countries
             key == [d \in Deals |-> {buyer[b].country : b \in deal[d].of}]
  <2>1. conversionByCountry(Whole) = conversionRows(Whole, keys, key)
    BY DEF conversionByCountry
  <2>2. ASSUME NEW d \in Deals, Exists(deal[d]) PROVE \E k \in keys : key[d] = {k}
    <3>1. PICK b \in Buyers : deal[d].of = {b} /\ buyer[b].country \in Countries
      BY <2>2, DealIs
    <3>2. key[d] = {buyer[b].country}
      BY <3>1
    <3> QED BY <3>1, <3>2
  <2>3. IsFiniteSet(keys) /\ \A d \in Deals : Exists(deal[d]) => \E k \in keys : key[d] = {k}
    BY <2>2, FiguresFinite
  <2> DEFINE table == conversionRows(Whole, keys, key)
  <2> HIDE DEF keys, key, table
  <2> DEFINE conversions == [k \in DOMAIN table |-> table[k].conversions]
             opportunities == [k \in DOMAIN table |-> table[k].opportunities]
  <2>4. /\ DOMAIN conversions = DOMAIN table /\ DOMAIN opportunities = DOMAIN table
        /\ \A k \in DOMAIN table : conversions[k] = table[k].conversions /\ opportunities[k] = table[k].opportunities
    OBVIOUS
  <2>5. table = conversionRows(Whole, keys, key)
    BY DEF table
  <2> HIDE DEF conversions, opportunities
  <2>6. SumOver(conversions) = linked /\ SumOver(opportunities) = total
    BY <2>3, <2>4, <2>5, ConversionsAdd
  <2>7. conversionByCountry(Whole) = table
    BY <2>1 DEF table
  <2> QED BY <2>6, <2>7 DEF conversions, opportunities
<1>9. \A d \in Days : lostBuyers([Whole EXCEPT !.from = d]) \cap activeBuyers([Whole EXCEPT !.from = d]) = {}
  <2> SUFFICES ASSUME NEW d \in Days
               PROVE lostBuyers([Whole EXCEPT !.from = d]) \cap activeBuyers([Whole EXCEPT !.from = d]) = {}
    OBVIOUS
  <2> DEFINE f == [Whole EXCEPT !.from = d]
  <2>1. f.from \in Int /\ f.to \in Int
    BY ReportRowsAssumption DEF ReportRowsAssumption, Whole, Days
  <2> HIDE DEF f
  <2>2. lostBuyers(f) \cap activeBuyers(f) = {}
    BY <2>1, LostAreNotActive
  <2> QED BY <2>2 DEF f
<1>10. \A table \in {conversionByStage(Whole), conversionBySeller(Whole), conversionByCountry(Whole)} :
         Won(table) = linked /\ Opened(table) = total
  BY <1>6, <1>7, <1>8
<1>11. ASSUME NEW trials, trials = {l \in ActiveSubs : CycleOf[l].every = "TRIAL"}
       PROVE  financialDashboard(0, "local").mrr = normalizedMrr(Whole) + 12 * SumOf(trials, LineTotal)
  BY <1>4, <1>11 DEF SumOf
<1> QED BY <1>1, <1>3, <1>5, <1>9, <1>10, <1>11 DEF FrontsAgree, SumOf

\* Whatever became of the rows, the front of revenue intelligence, the executive and the
\* operational dashboard and the finances of every month agree: on what was sold, on what
\* recurs, on the cohorts, which take each sale once, on the conversions, which take each
\* sale that came of an opportunity once, and on who is active and who was lost.
THEOREM FrontsAgreeAlways == FiguresSpec => []FrontsAgree
BY FiguresHold, FrontsDoAgree, PTL

\* The same of the parts that the runs take apart.
THEOREM FiguresAgreeAlways == MCReportsSpec => []FiguresAgree
<1>1. FrontsAgree => FiguresAgree
  BY DEF FiguresAgree
<1> QED BY <1>1, PartsAreBehaviours, FrontsAgreeAlways, PTL


----------------------------------------------------------------------------
(* The view counts every line once.                                        *)

\* A line of a sale that was billed is in one group: a sale has one contact and one
\* seller, and of the deliveries of a line only the first says who delivers it.
LEMMA OneGroup ==
  ASSUME RowsInv, NEW l \in LinesBilled
  PROVE  \E g : /\ GroupsOf(l) = {g}
                /\ g.day = WhenSold(SaleOf[l])
                /\ CountryOf(SaleOf[l]) = {g.country} /\ sale[SaleOf[l]].by = {g.seller}
<1>1. SaleOf[l] \in Billed /\ l \in Lines
  BY DEF LinesBilled, LinesOf
<1>2. PICK k : CountryOf(SaleOf[l]) = {k}
  BY <1>1, BilledIs
<1>3. PICK u : sale[SaleOf[l]].by = {u}
  BY <1>1, BilledIs
<1>4. PICK p : ProviderOf(l) = {p}
  BY DEF ProviderOf
<1> DEFINE g == [day |-> WhenSold(SaleOf[l]), name |-> line[l].name, country |-> k, seller |-> u, provider |-> p]
<1>5. GroupsOf(l) = {g}
  BY <1>2, <1>3, <1>4 DEF GroupsOf
<1>6. g.day = WhenSold(SaleOf[l]) /\ g.country = k /\ g.seller = u
  OBVIOUS
<1> HIDE DEF g
<1> QED BY <1>2, <1>3, <1>5, <1>6

LEMMA FreshFinite == ASSUME RowsInv PROVE IsFiniteSet(FreshRows) /\ LinesBilled \subseteq Lines
<1> DEFINE f == [l \in LinesBilled |-> Grouped(CHOOSE g : GroupsOf(l) = {g})]
<1>1. LinesBilled \subseteq Lines
  BY DEF LinesBilled, LinesOf
<1>2. IsFiniteSet(LinesBilled)
  BY <1>1, FiguresFinite, FS_Subset
<1>3. FreshRows \subseteq {f[l] : l \in LinesBilled}
  <2> SUFFICES ASSUME NEW l \in LinesBilled, NEW g \in GroupsOf(l) PROVE Grouped(g) \in {f[x] : x \in LinesBilled}
    BY DEF FreshRows
  <2>1. GroupsOf(l) = {g}
    BY OneGroup
  <2>2. (CHOOSE h : GroupsOf(l) = {h}) = g
    BY <2>1
  <2>3. f[l] = Grouped(g)
    BY <2>2
  <2> QED BY <2>3
<1> HIDE DEF f
<1>4. IsFiniteSet({f[l] : l \in LinesBilled})
  BY <1>2, ImageFinite
<1> QED BY <1>1, <1>3, <1>4, FS_Subset

LEMMA GroupedIs ==
  ASSUME NEW g
  PROVE  Grouped(g).group = g /\ Grouped(g).revenue = SumOf({l \in LinesBilled : g \in GroupsOf(l)}, LineTotal)
BY DEF Grouped, SumOf

\* The rows and the lines of a day, a country and a seller.
RowsFor(V, d, k, u) == {r \in V : r.group.day = d /\ r.group.country = k /\ r.group.seller = u}
LinesFor(d, k, u) == {l \in LinesBilled : /\ WhenSold(SaleOf[l]) = d /\ CountryOf(SaleOf[l]) = {k}
                                          /\ sale[SaleOf[l]].by = {u}}

LEMMA FreshCountsOnce ==
  ASSUME RowsInv, NEW d, NEW k, NEW u
  PROVE  SumOf(RowsFor(FreshRows, d, k, u), LAMBDA r : r.revenue) = SumOf(LinesFor(d, k, u), LineTotal)
<1> DEFINE R == RowsFor(FreshRows, d, k, u)
           mine == LinesFor(d, k, u)
           group == [r \in R |-> {l \in LinesBilled : r.group \in GroupsOf(l)}]
           by == [r \in R |-> r.revenue]
<1>1. mine \subseteq Lines /\ IsFiniteSet(R)
  <2>1. R \subseteq FreshRows /\ mine \subseteq Lines
    BY FreshFinite DEF RowsFor, LinesFor
  <2> HIDE DEF R
  <2> QED BY <2>1, FreshFinite, FS_Subset
<1>2. \A r \in FreshRows : r = Grouped(r.group) /\ r.revenue = SumOf({l \in LinesBilled : r.group \in GroupsOf(l)}, LineTotal)
  <2> SUFFICES ASSUME NEW r \in FreshRows
               PROVE r = Grouped(r.group) /\ r.revenue = SumOf({l \in LinesBilled : r.group \in GroupsOf(l)}, LineTotal)
    BY DEF SumOf
  <2>1. PICK g : r = Grouped(g)
    BY DEF FreshRows
  <2>2. r.group = g /\ r.revenue = SumOf({l \in LinesBilled : g \in GroupsOf(l)}, LineTotal)
    BY <2>1, GroupedIs DEF SumOf
  <2> QED BY <2>1, <2>2 DEF SumOf
<1>3. \A r \in R : by[r] = SumOf(group[r], LineTotal)
  BY <1>2 DEF RowsFor, SumOf
<1>4. Groups(group, R, mine)
  <2> USE DEF RowsFor, LinesFor
  <2>1. ASSUME NEW r \in R, NEW l \in group[r] PROVE l \in mine /\ GroupsOf(l) = {r.group}
    <3>1. l \in LinesBilled /\ r.group \in GroupsOf(l)
      BY <2>1
    <3>2. PICK g : /\ GroupsOf(l) = {g} /\ g.day = WhenSold(SaleOf[l])
                   /\ CountryOf(SaleOf[l]) = {g.country} /\ sale[SaleOf[l]].by = {g.seller}
      BY <3>1, OneGroup
    <3>3. r.group = g
      BY <3>1, <3>2
    <3> QED BY <3>1, <3>2, <3>3
  <2>2. ASSUME NEW l \in mine PROVE \E r \in R : l \in group[r]
    <3>1. l \in LinesBilled
      OBVIOUS
    <3>2. PICK g : /\ GroupsOf(l) = {g} /\ g.day = WhenSold(SaleOf[l])
                   /\ CountryOf(SaleOf[l]) = {g.country} /\ sale[SaleOf[l]].by = {g.seller}
      BY <3>1, OneGroup
    <3>3. Grouped(g) \in FreshRows /\ Grouped(g).group = g
      BY <3>1, <3>2, GroupedIs DEF FreshRows
    <3>4. Grouped(g) \in R
      BY <3>2, <3>3
    <3>5. l \in group[Grouped(g)]
      BY <3>1, <3>2, <3>3, <3>4
    <3> QED BY <3>4, <3>5
  <2>3. \A r, q \in R : r # q => group[r] \cap group[q] = {}
    <3> SUFFICES ASSUME NEW r \in R, NEW q \in R, NEW l \in group[r] \cap group[q] PROVE r = q
      OBVIOUS
    <3>1. GroupsOf(l) = {r.group} /\ GroupsOf(l) = {q.group}
      BY <2>1
    <3>2. r.group = q.group
      BY <3>1
    <3> QED BY <1>2, <3>2
  <2>4. \A r \in R : group[r] \subseteq mine
    BY <2>1
  <2> HIDE DEF R, mine, group
  <2> QED BY <2>2, <2>3, <2>4 DEF Groups
<1>5. SumOf(R, LAMBDA r : r.revenue) = SumFunctionOnSet(by, R)
  BY DEF SumOf
<1> HIDE DEF R, mine, group, by
<1>6. SumFunctionOnSet(by, R) = SumOf(mine, LineTotal)
  BY <1>1, <1>3, <1>4, LinesByGroup DEF SumOf
<1> QED BY <1>5, <1>6 DEF R, mine, SumOf

\* A refresh of the materialized view, whenever it comes, counts each line that was sold
\* once, under the day, the country and the seller of its sale, although a line may have
\* many deliveries by many providers (the LATERAL join with LIMIT 1 of the migration).
THEOREM ViewIsRight == FiguresSpec => ViewCountsOnce
<1> DEFINE Counted ==
      view' # view =>
        \A d \in Days, k \in Countries, u \in Sellers :
          LET Revenue(r) == r.revenue
              mine == {l \in LinesBilled : /\ WhenSold(SaleOf[l]) = d /\ CountryOf(SaleOf[l]) = {k}
                                           /\ sale[SaleOf[l]].by = {u}}
          IN SumOf({r \in view' : r.group.day = d /\ r.group.country = k /\ r.group.seller = u}, Revenue)
               = SumOf(mine, LineTotal)
<1>1. RowsInv /\ [FiguresNext]_viewVars => [Counted]_viewVars
  <2> SUFFICES ASSUME RowsInv, FiguresNext, view' # view PROVE Counted
    BY DEF viewVars
  <2>1. view' = FreshRows
    BY DEF FiguresNext, Refresh
  <2> SUFFICES ASSUME NEW d \in Days, NEW k \in Countries, NEW u \in Sellers
               PROVE  SumOf(RowsFor(view', d, k, u), LAMBDA r : r.revenue) = SumOf(LinesFor(d, k, u), LineTotal)
    BY DEF RowsFor, LinesFor, SumOf
  <2>2. SumOf(RowsFor(FreshRows, d, k, u), LAMBDA r : r.revenue) = SumOf(LinesFor(d, k, u), LineTotal)
    BY FreshCountsOnce DEF SumOf
  <2> QED BY <2>1, <2>2 DEF SumOf
<1> QED BY <1>1, FiguresHold, PTL DEF FiguresSpec, ViewCountsOnce
=============================================================================
