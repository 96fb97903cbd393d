---------------------------------- MODULE Sums ----------------------------------
(* Facts about SumFunctionOnSet of the community modules.  It is computed by a  *)
(* function on the subsets of a set that takes out one chosen element after     *)
(* another.  That there is one such function, and what it gives, is shown with  *)
(* a smallest counterexample: a set of finite sets has a minimal member.        *)
EXTENDS Integers, Functions, FiniteSetTheorems, WellFoundedInduction, TLAPS

Pick(s) == CHOOSE x \in s : TRUE

\* The function that the sum of f over S is computed with.
Sums(f, S, g) ==
    g = [s \in SUBSET S |-> IF s = {} THEN 0 ELSE f[Pick(s)] + g[s \ {Pick(s)}]]

LEMMA SumUnfolds ==
    ASSUME NEW f, NEW S
    PROVE  SumFunctionOnSet(f, S) = (CHOOSE g : Sums(f, S, g))[S]
BY DEF SumFunctionOnSet, FoldFunctionOnSet, MapThenFoldSet, Sums, Pick

LEMMA MinimalSet ==
    ASSUME NEW S, IsFiniteSet(S), NEW T, T \subseteq SUBSET S, T # {}
    PROVE  \E m \in T : \A t \in T : t \subseteq m => t = m
<1>1. IsWellFoundedOn(StrictSubsetOrdering(S), SUBSET S)
  BY FS_StrictSubsetOrderingWellFounded, FS_FiniteSubsetsOfFinite
<1>2. PICK m \in T : \A t \in T : ~(<<t, m>> \in StrictSubsetOrdering(S)) BY <1>1, WFMin, Zenon
<1> QED BY <1>2 DEF StrictSubsetOrdering

LEMMA Picked == ASSUME NEW s, s # {} PROVE Pick(s) \in s
BY DEF Pick

LEMMA SumsUnique ==
    ASSUME NEW f, NEW S, IsFiniteSet(S), NEW g, NEW h, Sums(f, S, g), Sums(f, S, h)
    PROVE  g = h
<1> DEFINE D == {s \in SUBSET S : g[s] # h[s]}
<1>1. CASE D = {} BY <1>1 DEF Sums
<1>2. CASE D # {}
  <2>1. PICK m \in D : \A t \in D : t \subseteq m => t = m
    <3> D \subseteq SUBSET S OBVIOUS
    <3> HIDE DEF D
    <3> QED BY <1>2, MinimalSet
  <2>2. m # {} BY DEF Sums
  <2>3. Pick(m) \in m BY <2>2, Picked
  <2>4. m \ {Pick(m)} \notin D BY <2>1, <2>3
  <2>5. g[m] = f[Pick(m)] + g[m \ {Pick(m)}] /\ h[m] = f[Pick(m)] + h[m \ {Pick(m)}]
    BY <2>2 DEF Sums
  <2>6. m \ {Pick(m)} \in SUBSET S OBVIOUS
  <2> QED BY <2>4, <2>5, <2>6
<1> QED BY <1>1, <1>2

LEMMA SumsRestrict ==
    ASSUME NEW f, NEW S, NEW T, T \subseteq S, NEW g, Sums(f, S, g)
    PROVE  Sums(f, T, [s \in SUBSET T |-> g[s]])
BY DEF Sums

LEMMA SumsExist ==
    ASSUME NEW f, NEW S, IsFiniteSet(S)
    PROVE  \E g : Sums(f, S, g)
<1> DEFINE Bad == {T \in SUBSET S : ~ \E g : Sums(f, T, g)}
<1>1. CASE Bad = {} BY <1>1
<1>2. CASE Bad # {}
  <2>1. PICK T \in Bad : \A t \in Bad : t \subseteq T => t = T
    <3> Bad \subseteq SUBSET S OBVIOUS
    <3> HIDE DEF Bad
    <3> QED BY <1>2, MinimalSet
  <2> DEFINE the(s) == CHOOSE g : Sums(f, s, g)
             h == [s \in SUBSET T |-> IF s = {} THEN 0
                                      ELSE f[Pick(s)] + the(s \ {Pick(s)})[s \ {Pick(s)}]]
  <2>2. \A s \in SUBSET T : s # T => Sums(f, s, the(s))
    <3>1. \A s \in SUBSET T : s # T => \E g : Sums(f, s, g) BY <2>1
    <3> QED BY <3>1
  <2>3. \A s \in SUBSET T : s # T => h[s] = the(s)[s]
    <3> SUFFICES ASSUME NEW s \in SUBSET T, s # T PROVE h[s] = the(s)[s] OBVIOUS
    <3>1. Sums(f, s, the(s)) BY <2>2
    <3>2. CASE s = {} BY <3>1, <3>2 DEF Sums
    <3>3. CASE s # {}
      <4> DEFINE r == s \ {Pick(s)}
                 k == [t \in SUBSET r |-> the(s)[t]]
      <4>1. Sums(f, r, k) BY <3>1, SumsRestrict
      <4>2. r \in SUBSET T /\ r # T /\ IsFiniteSet(r)
        <5>1. r \in SUBSET T /\ r # T OBVIOUS
        <5>2. r \in SUBSET S BY <2>1
        <5> QED BY <5>1, <5>2, FS_Subset
      <4>3. Sums(f, r, the(r)) BY <2>2, <4>2
      <4>4. k = the(r) BY <4>1, <4>2, <4>3, SumsUnique
      <4>5. k[r] = the(s)[r] OBVIOUS
      <4>6. the(s)[s] = f[Pick(s)] + the(s)[r] BY <3>1, <3>3 DEF Sums
      <4>7. h[s] = f[Pick(s)] + the(r)[r] BY <3>3
      <4> QED BY <4>4, <4>5, <4>6, <4>7
    <3> QED BY <3>2, <3>3
  <2>4. Sums(f, T, h)
    <3>1. \A s \in SUBSET T : s # {} => s \ {Pick(s)} \in SUBSET T /\ s \ {Pick(s)} # T
      BY Picked
    <3>2. \A s \in SUBSET T : s # {} => h[s \ {Pick(s)}] = the(s \ {Pick(s)})[s \ {Pick(s)}]
      BY <2>3, <3>1
    <3>3. \A s \in SUBSET T : h[s] = IF s = {} THEN 0 ELSE f[Pick(s)] + h[s \ {Pick(s)}]
      <4>1. \A s \in SUBSET T : h[s] = IF s = {} THEN 0
                                       ELSE f[Pick(s)] + the(s \ {Pick(s)})[s \ {Pick(s)}]
        OBVIOUS
      <4> HIDE DEF h, the
      <4> QED BY <3>2, <4>1
    <3>4. h = [s \in SUBSET T |-> h[s]] OBVIOUS
    <3> HIDE DEF h
    <3> QED BY <3>3, <3>4 DEF Sums
  <2> QED BY <2>1, <2>4
<1> QED BY <1>1, <1>2

LEMMA SumsAre ==
    ASSUME NEW f, NEW S, IsFiniteSet(S), NEW g, Sums(f, S, g)
    PROVE  \A T \in SUBSET S : SumFunctionOnSet(f, T) = g[T]
<1> SUFFICES ASSUME NEW T \in SUBSET S PROVE SumFunctionOnSet(f, T) = g[T] OBVIOUS
<1> DEFINE h == [s \in SUBSET T |-> g[s]]
           k == CHOOSE i : Sums(f, T, i)
<1>1. IsFiniteSet(T) /\ T \subseteq S BY FS_Subset
<1>2. Sums(f, T, h) BY <1>1 DEF Sums
<1>3. Sums(f, T, k) BY <1>2
<1>4. h = k BY <1>1, <1>2, <1>3, SumsUnique
<1>5. h[T] = g[T] OBVIOUS
<1> QED BY <1>4, <1>5, SumUnfolds

LEMMA SumEmpty == ASSUME NEW f PROVE SumFunctionOnSet(f, {}) = 0
<1>1. IsFiniteSet({}) BY FS_EmptySet
<1>2. PICK g : Sums(f, {}, g) BY <1>1, SumsExist
<1>3. g[{}] = 0 BY <1>2 DEF Sums
<1> QED BY <1>1, <1>2, <1>3, SumsAre

LEMMA SumPick ==
    ASSUME NEW f, NEW S, IsFiniteSet(S), S # {}
    PROVE  SumFunctionOnSet(f, S) = f[Pick(S)] + SumFunctionOnSet(f, S \ {Pick(S)})
<1>1. PICK g : Sums(f, S, g) BY SumsExist
<1>2. SumFunctionOnSet(f, S) = g[S] BY <1>1, SumsAre
<1>3. SumFunctionOnSet(f, S \ {Pick(S)}) = g[S \ {Pick(S)}] BY <1>1, SumsAre
<1> QED BY <1>1, <1>2, <1>3 DEF Sums

\* A sum of numbers of a kind that is closed under addition is of that kind.
LEMMA SumType ==
    ASSUME NEW f, NEW S, IsFiniteSet(S), NEW N \in {Int, Nat}, \A x \in S : f[x] \in N
    PROVE  SumFunctionOnSet(f, S) \in N
<1> DEFINE Bad == {T \in SUBSET S : SumFunctionOnSet(f, T) \notin N}
<1>1. CASE Bad = {} BY <1>1
<1>2. CASE Bad # {}
  <2>1. PICK T \in Bad : \A t \in Bad : t \subseteq T => t = T
    <3> Bad \subseteq SUBSET S OBVIOUS
    <3> HIDE DEF Bad
    <3> QED BY <1>2, MinimalSet
  <2>2. T # {}
    <3>1. 0 \in N OBVIOUS
    <3> QED BY <3>1, SumEmpty
  <2>3. Pick(T) \in T /\ IsFiniteSet(T) BY <2>1, <2>2, Picked, FS_Subset
  <2>4. SumFunctionOnSet(f, T \ {Pick(T)}) \in N BY <2>1, <2>3
  <2>5. f[Pick(T)] \in N BY <2>1, <2>3
  <2>6. SumFunctionOnSet(f, T) = f[Pick(T)] + SumFunctionOnSet(f, T \ {Pick(T)})
    BY <2>2, <2>3, SumPick
  <2>7. SumFunctionOnSet(f, T) \in N
    <3>1. \A a, b \in N : a + b \in N OBVIOUS
    <3> QED BY <2>4, <2>5, <2>6, <3>1
  <2> QED BY <2>1, <2>7
<1> QED BY <1>1, <1>2

\* Any element may be taken out of a sum.
LEMMA SumTakeOut ==
    ASSUME NEW f, NEW S, IsFiniteSet(S), \A x \in S : f[x] \in Int, NEW x \in S
    PROVE  SumFunctionOnSet(f, S) = f[x] + SumFunctionOnSet(f, S \ {x})
<1> DEFINE sum(T) == SumFunctionOnSet(f, T)
           Bad == {T \in SUBSET S : \E y \in T : sum(T) # f[y] + sum(T \ {y})}
<1>1. CASE Bad = {} BY <1>1
<1>2. CASE Bad # {}
  <2>1. PICK T \in Bad : \A t \in Bad : t \subseteq T => t = T
    <3> Bad \subseteq SUBSET S OBVIOUS
    <3> HIDE DEF Bad
    <3> QED BY <1>2, MinimalSet
  <2>2. PICK y \in T : sum(T) # f[y] + sum(T \ {y}) BY <2>1
  <2> DEFINE p == Pick(T)
  <2>3. p \in T /\ IsFiniteSet(T) BY <2>1, <2>2, Picked, FS_Subset
  <2>4. sum(T) = f[p] + sum(T \ {p}) BY <2>2, <2>3, SumPick
  <2>5. p # y BY <2>2, <2>4
  <2>6. T \ {p} \notin Bad /\ T \ {y} \notin Bad BY <2>1, <2>3
  <2>7. sum(T \ {p}) = f[y] + sum((T \ {p}) \ {y})
    <3>1. T \ {p} \in SUBSET S /\ y \in T \ {p} BY <2>1, <2>5
    <3> QED BY <2>6, <3>1
  <2>8. sum(T \ {y}) = f[p] + sum((T \ {y}) \ {p})
    <3>1. T \ {y} \in SUBSET S /\ p \in T \ {y} BY <2>1, <2>3, <2>5
    <3> QED BY <2>6, <3>1
  <2>9. (T \ {y}) \ {p} = (T \ {p}) \ {y} OBVIOUS
  <2>10. f[p] \in Int /\ f[y] \in Int /\ sum((T \ {p}) \ {y}) \in Int
    <3>1. IsFiniteSet((T \ {p}) \ {y}) /\ \A z \in (T \ {p}) \ {y} : f[z] \in Int BY <2>1, <2>3, FS_Subset
    <3> QED BY <2>1, <2>3, <3>1, SumType
  <2>11. sum(T \ {y}) = f[p] + sum((T \ {p}) \ {y}) BY <2>8, <2>9
  <2> DEFINE a == f[p]
             b == f[y]
             c == sum((T \ {p}) \ {y})
             d == sum(T \ {p})
             e == sum(T \ {y})
  <2>12. a \in Int /\ b \in Int /\ c \in Int /\ d = b + c /\ e = a + c BY <2>7, <2>10, <2>11
  <2>13. sum(T) = a + d /\ sum(T) # b + e BY <2>2, <2>4
  <2> HIDE DEF a, b, c, d, e
  <2>14. a + d = b + e BY <2>12
  <2> QED BY <2>13, <2>14
<1> QED BY <1>1, <1>2

\* A sum depends on the values of its elements only.
LEMMA SumSame ==
    ASSUME NEW f, NEW g, NEW S, IsFiniteSet(S), \A x \in S : f[x] = g[x]
    PROVE  SumFunctionOnSet(f, S) = SumFunctionOnSet(g, S)
<1>1. PICK h : Sums(f, S, h) BY SumsExist
<1>2. \A s \in SUBSET S : s # {} => f[Pick(s)] = g[Pick(s)] BY Picked
<1>3. Sums(g, S, h) BY <1>1, <1>2 DEF Sums
<1> QED BY <1>1, <1>3, SumsAre

\* One more element.
LEMMA SumGrows ==
    ASSUME NEW f, NEW g, IsFiniteSet(DOMAIN f), NEW x, x \notin DOMAIN f, DOMAIN g = DOMAIN f \cup {x},
           \A y \in DOMAIN f : f[y] = g[y], \A y \in DOMAIN g : g[y] \in Int
    PROVE  SumFunction(g) = g[x] + SumFunction(f)
<1>1. IsFiniteSet(DOMAIN g) BY FS_AddElement
<1>2. SumFunctionOnSet(g, DOMAIN g) = g[x] + SumFunctionOnSet(g, DOMAIN g \ {x})
  BY <1>1, SumTakeOut
<1>3. DOMAIN g \ {x} = DOMAIN f OBVIOUS
<1>4. SumFunctionOnSet(g, DOMAIN f) = SumFunctionOnSet(f, DOMAIN f) BY SumSame
<1> QED BY <1>2, <1>3, <1>4 DEF SumFunction

\* A part of a set of natural numbers does not sum up to more.
LEMMA SumPart ==
    ASSUME NEW f, NEW S, IsFiniteSet(S), \A x \in S : f[x] \in Nat, NEW T, T \subseteq S
    PROVE  SumFunctionOnSet(f, T) <= SumFunctionOnSet(f, S)
<1> DEFINE sum(U) == SumFunctionOnSet(f, U)
           Bad == {U \in SUBSET S : T \subseteq U /\ ~(sum(T) <= sum(U))}
<1>0. \A U \in SUBSET S : IsFiniteSet(U) /\ sum(U) \in Nat BY FS_Subset, SumType
<1>1. CASE Bad = {} BY <1>1
<1>2. CASE Bad # {}
  <2>1. PICK U \in Bad : \A t \in Bad : t \subseteq U => t = U
    <3> Bad \subseteq SUBSET S OBVIOUS
    <3> HIDE DEF Bad
    <3> QED BY <1>2, MinimalSet
  <2>2. U # T BY <1>0, <2>1
  <2>3. PICK x \in U : x \notin T BY <2>1, <2>2
  <2>4. U \ {x} \in SUBSET S /\ T \subseteq U \ {x} /\ U \ {x} # U BY <2>1, <2>3
  <2>5. sum(T) <= sum(U \ {x}) BY <2>1, <2>4
  <2>6. sum(U) = f[x] + sum(U \ {x})
    <3>1. IsFiniteSet(U) /\ \A y \in U : f[y] \in Int BY <1>0, <2>1
    <3> HIDE DEF Bad
    <3> QED BY <2>3, <3>1, SumTakeOut
  <2>7. f[x] \in Nat /\ sum(T) \in Nat /\ sum(U \ {x}) \in Nat /\ ~(sum(T) <= sum(U)) BY <1>0, <2>1, <2>3, <2>4
  <2> HIDE DEF sum
  <2> QED BY <2>5, <2>6, <2>7
<1> QED BY <1>1, <1>2

=================================================================================
