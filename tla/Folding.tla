-------------------------------- MODULE Folding --------------------------------
(* Facts about FoldLeft of the community modules.  The step of a fold,          *)
(* op(env, acc, x), and what is claimed of its result, Inv(env, seq, acc), are  *)
(* constants: a module that needs the facts of a fold instantiates this one     *)
(* with its operators.  FoldLeft computes with a function on the sets of places *)
(* of a sequence, which takes out the last place; that there is one such        *)
(* function is shown with a smallest counterexample.                            *)
EXTENDS Integers, Sequences, SequenceTheorems, WellFoundedInduction, TLAPS

CONSTANTS op(_, _, _), Inv(_, _, _)

Top(s) == CHOOSE x \in s : \A y \in s : x >= y

\* A function that gives the folds of the parts of seq at places in dom.
Folds(env, base, seq, dom, g) ==
    g = [s \in SUBSET dom |->
           IF s = {} THEN base ELSE op(env, g[s \ {Top(s)}], seq[Top(s)])]

\* FoldLeft(LAMBDA acc, x : op(env, acc, x), base, seq), written out.
Fold(env, base, seq) == (CHOOSE g : Folds(env, base, seq, DOMAIN seq, g))[DOMAIN seq]

\* A set of naturals has a smallest member.
LEMMA Smallest == ASSUME NEW T \in SUBSET Nat, T # {} PROVE \E m \in T : \A t \in T : m <= t
<1>1. PICK m \in T : \A t \in T : ~(<<t, m>> \in OpToRel(<, Nat))
  BY WFMin, NatLessThanWellFounded, Zenon
<1>2. \A t \in T : ~(t < m) BY <1>1, Zenon DEF OpToRel
<1> QED BY <1>2

\* With a part of 1..(n + 1) that has the last place, and without it.
LEMMA TopIs == ASSUME NEW n \in Nat, NEW s \in SUBSET (1..(n + 1)), n + 1 \in s PROVE Top(s) = n + 1
<1>1. \A y \in s : n + 1 >= y OBVIOUS
<1>2. \A x \in s : x >= n + 1 => x = n + 1 OBVIOUS
<1> QED BY <1>1, <1>2 DEF Top

LEMMA TopIn == ASSUME NEW n \in Nat, NEW s \in SUBSET (1..n), s # {} PROVE Top(s) \in s
<1> DEFINE T == {d \in Nat : n - d \in s}
<1>1. T # {}
  <2>1. PICK x \in s : TRUE OBVIOUS
  <2>2. n - x \in Nat /\ n - (n - x) = x OBVIOUS
  <2> QED BY <2>1, <2>2
<1>2. PICK d \in T : \A e \in T : d <= e
  <2>1. T \in SUBSET Nat OBVIOUS
  <2> HIDE DEF T
  <2> QED BY <1>1, <2>1, Smallest
<1>3. \A y \in s : n - d >= y
  <2> SUFFICES ASSUME NEW y \in s PROVE n - d >= y OBVIOUS
  <2>1. n - y \in Nat /\ n - (n - y) = y OBVIOUS
  <2>2. d <= n - y BY <1>2, <2>1
  <2> QED BY <2>2
<1> QED BY <1>2, <1>3 DEF Top

LEMMA FoldsExist ==
    ASSUME NEW env, NEW base, NEW seq, NEW n \in Nat
    PROVE  \E g : Folds(env, base, seq, 1..n, g)
<1> DEFINE Bad == {m \in Nat : ~ \E g : Folds(env, base, seq, 1..m, g)}
<1> SUFFICES ASSUME Bad # {} PROVE FALSE OBVIOUS
<1>1. PICK m \in Bad : \A k \in Bad : m <= k
  <2>1. Bad \in SUBSET Nat OBVIOUS
  <2> HIDE DEF Bad
  <2> QED BY <2>1, Smallest
<1>2. m # 0
  <2>1. Folds(env, base, seq, 1..0, [s \in SUBSET (1..0) |-> base]) BY DEF Folds
  <2> QED BY <2>1
<1> DEFINE k == m - 1
<1>3. k \in Nat /\ m = k + 1 BY <1>2
<1>4. PICK g : Folds(env, base, seq, 1..k, g) BY <1>1, <1>3
<1> HIDE DEF k, Bad
<1> DEFINE h == [s \in SUBSET (1..(k + 1)) |->
                   IF k + 1 \in s THEN op(env, g[s \ {k + 1}], seq[k + 1]) ELSE g[s]]
<1>5. \A s \in SUBSET (1..k) : h[s] = g[s] BY <1>3
<1>6. ASSUME NEW s \in SUBSET (1..(k + 1))
      PROVE  h[s] = IF s = {} THEN base ELSE op(env, h[s \ {Top(s)}], seq[Top(s)])
  <2>1. CASE k + 1 \in s
    <3>1. Top(s) = k + 1 BY <1>3, <2>1, TopIs
    <3>2. s \ {k + 1} \in SUBSET (1..k) BY <1>3
    <3> QED BY <1>5, <2>1, <3>1, <3>2
  <2>2. CASE k + 1 \notin s
    <3>1. s \in SUBSET (1..k) BY <1>3, <2>2
    <3>2. CASE s = {} BY <1>4, <1>5, <3>1, <3>2 DEF Folds
    <3>3. CASE s # {}
      <4>1. Top(s) \in s BY <1>3, <3>1, <3>3, TopIn
      <4>2. s \ {Top(s)} \in SUBSET (1..k) BY <3>1
      <4>3. g[s] = op(env, g[s \ {Top(s)}], seq[Top(s)]) BY <1>4, <3>1, <3>3 DEF Folds
      <4> QED BY <1>5, <3>1, <3>3, <4>2, <4>3
    <3> QED BY <3>2, <3>3
  <2> QED BY <2>1, <2>2
<1>7. h = [s \in SUBSET (1..(k + 1)) |-> h[s]] OBVIOUS
<1> HIDE DEF h
<1>8. Folds(env, base, seq, 1..(k + 1), h) BY <1>6, <1>7 DEF Folds
<1> QED BY <1>1, <1>3, <1>8 DEF Bad

LEMMA FoldsAgree ==
    ASSUME NEW env, NEW base, NEW seq, NEW other, NEW n \in Nat, NEW m \in Nat, n <= m,
           \A i \in 1..n : seq[i] = other[i],
           NEW g, Folds(env, base, seq, 1..n, g), NEW h, Folds(env, base, other, 1..m, h)
    PROVE  g[1..n] = h[1..n]
<1> DEFINE Bad == {k \in 0..n : \E s \in SUBSET (1..k) : g[s] # h[s]}
<1>1. CASE Bad = {}
  <2>1. n \notin Bad BY <1>1
  <2> QED BY <2>1
<1>2. CASE Bad # {}
  <2>1. PICK k \in Bad : \A j \in Bad : k <= j
    <3>1. Bad \in SUBSET Nat OBVIOUS
    <3> HIDE DEF Bad
    <3> QED BY <1>2, <3>1, Smallest
  <2>2. PICK s \in SUBSET (1..k) : g[s] # h[s] BY <2>1
  <2>15. k \in Nat /\ k <= n BY <2>1
  <2>3. s \in SUBSET (1..n) /\ s \in SUBSET (1..m) OBVIOUS
  <2>4. s # {} BY <2>2, <2>3 DEF Folds
  <2>5. Top(s) \in s BY <2>4, <2>15, TopIn
  <2>6. k # 0
    <3>1. 1..0 = {} OBVIOUS
    <3> QED BY <2>4, <3>1
  <2>7. PICK l \in Nat : k = l + 1
    <3>1. k - 1 \in Nat /\ k = (k - 1) + 1 BY <2>6, <2>15
    <3> QED BY <3>1
  <2>8. k \in s
    <3> SUFFICES ASSUME k \notin s PROVE FALSE OBVIOUS
    <3>1. s \in SUBSET (1..l) BY <2>7
    <3>2. l \in 0..n BY <2>7, <2>15
    <3>3. l \in Bad BY <2>2, <3>1, <3>2
    <3>4. k <= l BY <2>1, <3>3
    <3> QED BY <2>7, <2>15, <3>4
  <2>9. Top(s) = k BY <2>7, <2>8, TopIs
  <2>10. s \ {k} \in SUBSET (1..l) BY <2>7
  <2>11. g[s \ {k}] = h[s \ {k}]
    <3>1. l \notin Bad BY <2>1, <2>7, <2>15
    <3> QED BY <2>7, <2>10, <2>15, <3>1
  <2>12. g[s] = op(env, g[s \ {k}], seq[k]) BY <2>3, <2>4, <2>9 DEF Folds
  <2>13. h[s] = op(env, h[s \ {k}], other[k]) BY <2>3, <2>4, <2>9 DEF Folds
  <2>14. seq[k] = other[k] BY <2>3, <2>8
  <2> QED BY <2>2, <2>11, <2>12, <2>13, <2>14
<1> QED BY <1>1, <1>2

\* The fold of a sequence, with the function that it is computed with.
LEMMA FoldOf ==
    ASSUME NEW env, NEW base, NEW S, NEW seq \in Seq(S)
    PROVE  \E g : /\ Folds(env, base, seq, 1..Len(seq), g)
                  /\ Fold(env, base, seq) = g[1..Len(seq)]
<1>1. DOMAIN seq = 1..Len(seq) /\ Len(seq) \in Nat OBVIOUS
<1>2. \E g : Folds(env, base, seq, DOMAIN seq, g) BY <1>1, FoldsExist
<1> QED BY <1>1, <1>2 DEF Fold

\* The fold of the empty sequence is what it starts with.
LEMMA FoldEmpty == ASSUME NEW env, NEW base PROVE Fold(env, base, << >>) = base
<1>1. << >> \in Seq({}) /\ 1..Len(<< >>) = {} OBVIOUS
<1>2. PICK g : /\ Folds(env, base, << >>, 1..Len(<< >>), g)
               /\ Fold(env, base, << >>) = g[1..Len(<< >>)]
  BY <1>1, FoldOf
<1>3. g[{}] = base BY <1>2 DEF Folds
<1> QED BY <1>1, <1>2, <1>3

\* The fold of a sequence with one more member is a step from its own.
LEMMA FoldAppend ==
    ASSUME NEW env, NEW base, NEW S, NEW seq \in Seq(S), NEW x \in S
    PROVE  Fold(env, base, Append(seq, x)) = op(env, Fold(env, base, seq), x)
<1> DEFINE n == Len(seq)
           more == Append(seq, x)
<1>1. n \in Nat /\ more \in Seq(S) /\ Len(more) = n + 1 /\ more[n + 1] = x
      /\ \A i \in 1..n : seq[i] = more[i]
  OBVIOUS
<1>2. PICK g : Folds(env, base, seq, 1..n, g) /\ Fold(env, base, seq) = g[1..n] BY FoldOf
<1>3. PICK h : Folds(env, base, more, 1..(n + 1), h) /\ Fold(env, base, more) = h[1..(n + 1)]
  BY <1>1, FoldOf
<1> HIDE DEF n, more
<1>4. g[1..n] = h[1..n] BY <1>1, <1>2, <1>3, FoldsAgree
<1>5. Top(1..(n + 1)) = n + 1 BY <1>1, TopIs
<1>6. (1..(n + 1)) \ {n + 1} = 1..n /\ 1..(n + 1) # {}
  <2>1. n + 1 \in 1..(n + 1) BY <1>1
  <2>2. (1..(n + 1)) \ {n + 1} = 1..n BY <1>1
  <2> QED BY <2>1, <2>2
<1>7. h[1..(n + 1)] = op(env, h[(1..(n + 1)) \ {n + 1}], more[n + 1])
  BY <1>3, <1>5, <1>6 DEF Folds
<1> QED BY <1>1, <1>2, <1>3, <1>4, <1>6, <1>7 DEF n, more

\* What holds of the start and is kept by every step holds of the fold.
LEMMA FoldKeeps ==
    ASSUME NEW env, NEW base, NEW S, Inv(env, << >>, base),
           \A seq \in Seq(S), x \in S : \A acc : Inv(env, seq, acc) => Inv(env, Append(seq, x), op(env, acc, x)),
           NEW seq \in Seq(S)
    PROVE  Inv(env, seq, Fold(env, base, seq))
<1> DEFINE Bad == {n \in Nat : \E s \in Seq(S) : Len(s) = n /\ ~Inv(env, s, Fold(env, base, s))}
<1> SUFFICES ASSUME Bad # {} PROVE FALSE OBVIOUS
<1>1. PICK n \in Bad : \A k \in Bad : n <= k
  <2>1. Bad \in SUBSET Nat OBVIOUS
  <2> HIDE DEF Bad
  <2> QED BY <2>1, Smallest
<1>2. PICK s \in Seq(S) : Len(s) = n /\ ~Inv(env, s, Fold(env, base, s)) BY <1>1
<1>3. s # << >> BY <1>2, FoldEmpty
<1>4. PICK r \in Seq(S), x \in S : s = Append(r, x)
  <2>1. Len(s) > 0 /\ n \in Nat BY <1>2, <1>3
  <2>2. SubSeq(s, 1, Len(s) - 1) \in Seq(S) /\ s[Len(s)] \in S BY <2>1
  <2>3. s = Append(SubSeq(s, 1, Len(s) - 1), s[Len(s)]) BY <2>1, AppendProperties, SubSeqProperties
  <2> QED BY <2>2, <2>3
<1>5. Len(r) = n - 1 BY <1>2, <1>4
<1>6. Inv(env, r, Fold(env, base, r)) BY <1>1, <1>5
<1>7. Inv(env, s, op(env, Fold(env, base, r), x)) BY <1>4, <1>6
<1> QED BY <1>2, <1>4, <1>7, FoldAppend

================================================================================
