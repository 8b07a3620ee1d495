------------------------------ MODULE FoldProofs ------------------------------
(***************************************************************************)
(* What FoldLeft computes, for any operator: the values after each element. *)
(***************************************************************************)
EXTENDS Integers, SequencesExt, WellFoundedInduction, TLAPS

CONSTANT op(_, _)

Fold(base, s) == FoldLeft(op, base, s)

\* A set of naturals has a least element.
LEMMA LeastNat ==
  ASSUME NEW T \in SUBSET Nat, T # {}
  PROVE  \E x \in T : \A y \in T : x <= y
<1>1. PICK x \in T : \A y \in T : ~(<<y, x>> \in OpToRel(<, Nat))
  BY NatLessThanWellFounded, WFMin
<1>2. \A y \in T : ~(y < x)
  BY <1>1 DEF OpToRel
<1>3. x \in T
  BY <1>1, Zenon
<1> QED BY <1>2, <1>3

\* f folds the elements of s at every set of positions up to n.
Folds(f, base, s, n) ==
    f = [T \in SUBSET (1..n) |->
            IF T = {} THEN base ELSE op(f[T \ {Max(T)}], s[Max(T)])]

LEMMA MaxOf ==
  ASSUME NEW n \in Nat, NEW T \in SUBSET (1..n), T # {}
  PROVE  Max(T) \in T /\ \A y \in T : y <= Max(T)
<1> DEFINE U == {m \in Nat : \A y \in T : y <= m}
<1>1. n \in U
  OBVIOUS
<1>2. PICK m \in U : \A y \in U : m <= y
  <2>1. U \in SUBSET Nat /\ U # {}
    BY <1>1
  <2> HIDE DEF U
  <2> QED BY <2>1, LeastNat
<1>3. m \in T
  <2> SUFFICES ASSUME m \notin T PROVE FALSE
    OBVIOUS
  <2>1. PICK y \in T : TRUE
    OBVIOUS
  <2>2. m \in Nat /\ y \in Int /\ y >= 1 /\ y <= m
    BY <1>2, <2>1
  <2>3. m - 1 \in Nat
    BY <2>2
  <2>4. \A z \in T : z <= m - 1
    <3>1. \A z \in T : z \in Int /\ z <= m /\ z # m
      BY <1>2
    <3> QED BY <2>2, <3>1
  <2>5. m - 1 \in U
    BY <2>3, <2>4
  <2> HIDE DEF U
  <2> QED BY <1>2, <2>2, <2>5
<1>4. \A y \in T : m >= y
  <2>1. \A y \in T : y \in Int /\ y <= m /\ m \in Nat
    BY <1>2
  <2> QED BY <2>1
<1>5. Max(T) \in T /\ \A y \in T : Max(T) >= y
  BY <1>3, <1>4 DEF Max
<1>6. \A y \in T : y \in Int
  OBVIOUS
<1> QED BY <1>5, <1>6

LEMMA FoldsExists ==
  ASSUME NEW base, NEW s, NEW n \in Nat
  PROVE  \E f : Folds(f, base, s, n)
<1> DEFINE Bad == {m \in Nat : ~(\E f : Folds(f, base, s, m))}
<1>1. ASSUME Bad # {} PROVE FALSE
  <2>1. PICK m \in Bad : \A x \in Bad : m <= x
    <3>1. Bad \in SUBSET Nat
      OBVIOUS
    <3> HIDE DEF Bad
    <3> QED BY <1>1, <3>1, LeastNat
  <2>2. m # 0
    <3> DEFINE f0 == [T \in SUBSET (1..0) |-> base]
    <3>1. \A T \in SUBSET (1..0) : T = {}
      OBVIOUS
    <3>2. Folds(f0, base, s, 0)
      BY <3>1 DEF Folds
    <3> HIDE DEF f0
    <3> QED BY <2>1, <3>2
  <2>3. m - 1 \in Nat /\ m \in Nat /\ m - 1 \notin Bad
    <3>1. m \in Nat
      BY <2>1
    <3> HIDE DEF Bad
    <3> QED BY <2>1, <2>2, <3>1
  <2>4. PICK f : Folds(f, base, s, m - 1)
    BY <2>3
  <2> DEFINE g == [T \in SUBSET (1..m) |-> IF m \in T THEN op(f[T \ {m}], s[m]) ELSE f[T]]
  <2>5. \A T \in SUBSET (1..m) : /\ m \notin T => T \in SUBSET (1..(m - 1))
                                 /\ m \in T => T \ {m} \in SUBSET (1..(m - 1))
    BY <2>3
  <2>6. ASSUME NEW T \in SUBSET (1..m)
        PROVE  g[T] = IF T = {} THEN base ELSE op(g[T \ {Max(T)}], s[Max(T)])
    <3>1. CASE T = {}
      <4>1. f[T] = base
        BY <2>4, <2>5, <3>1 DEF Folds
      <4> QED BY <3>1, <4>1
    <3>2. CASE T # {} /\ m \in T
      <4>1. Max(T) \in T /\ m <= Max(T)
        BY <2>3, <3>2, MaxOf
      <4>2. Max(T) = m
        <5>1. Max(T) \in 1..m
          BY <4>1
        <5> QED BY <2>3, <4>1, <5>1
      <4>3. T \ {m} \in SUBSET (1..m) /\ m \notin T \ {m}
        OBVIOUS
      <4>4. g[T \ {m}] = f[T \ {m}]
        BY <4>3
      <4>5. g[T] = op(f[T \ {m}], s[m])
        BY <3>2
      <4> HIDE DEF g
      <4> QED BY <3>2, <4>2, <4>4, <4>5
    <3>3. CASE T # {} /\ m \notin T
      <4>1. T \in SUBSET (1..(m - 1)) /\ Max(T) \in T
        BY <2>3, <2>5, <3>3, MaxOf
      <4>2. f[T] = op(f[T \ {Max(T)}], s[Max(T)])
        BY <2>4, <3>3, <4>1 DEF Folds
      <4>3. T \ {Max(T)} \in SUBSET (1..m) /\ m \notin T \ {Max(T)}
        BY <3>3
      <4>4. g[T \ {Max(T)}] = f[T \ {Max(T)}] /\ g[T] = f[T]
        BY <3>3, <4>3
      <4> HIDE DEF g
      <4> QED BY <3>3, <4>2, <4>4
    <3> QED BY <3>1, <3>2, <3>3
  <2>7. Folds(g, base, s, m)
    <3>1. g = [T \in SUBSET (1..m) |-> g[T]]
      OBVIOUS
    <3> HIDE DEF g
    <3> QED BY <2>6, <3>1 DEF Folds
  <2> HIDE DEF g
  <2> QED BY <2>1, <2>7
<1> QED BY <1>1

\* The values after each element of s, of which the last is the fold.
THEOREM FoldLeftSteps ==
  ASSUME NEW base, NEW X, NEW s \in Seq(X)
  PROVE  \E g : /\ g[0] = base
                /\ \A k \in 1..Len(s) : g[k] = op(g[k - 1], s[k])
                /\ Fold(base, s) = g[Len(s)]
<1> DEFINE n == Len(s)
           f == CHOOSE f : Folds(f, base, s, n)
<1>1. n \in Nat /\ DOMAIN s = 1..n
  OBVIOUS
<1>2. Folds(f, base, s, n)
  BY <1>1, FoldsExists
<1>3. Fold(base, s) = f[1..n]
  BY <1>1 DEF Fold, FoldLeft, MapThenFoldSet, Folds
<1> HIDE DEF f, n
<1> DEFINE g == [k \in 0..n |-> f[1..k]]
<1>4. g[0] = base
  <2>1. g[0] = f[1..0] /\ 1..0 = {} /\ {} \in SUBSET (1..n)
    BY <1>1
  <2> HIDE DEF g
  <2> QED BY <1>2, <2>1 DEF Folds
<1>5. ASSUME NEW k \in 1..n PROVE g[k] = op(g[k - 1], s[k])
  <2>1. 1..k \in SUBSET (1..n) /\ 1..k # {} /\ k \in 1..k
    BY <1>1
  <2>2. Max(1..k) = k
    <3>1. Max(1..k) \in 1..k /\ k <= Max(1..k)
      BY <1>1, <2>1, MaxOf
    <3> QED BY <3>1
  <2>3. (1..k) \ {k} = 1..(k - 1)
    BY <1>1
  <2>4. f[1..k] = op(f[(1..k) \ {Max(1..k)}], s[Max(1..k)])
    BY <1>2, <2>1 DEF Folds
  <2>5. g[k] = f[1..k] /\ g[k - 1] = f[1..(k - 1)]
    BY <1>1
  <2> HIDE DEF g
  <2> QED BY <2>2, <2>3, <2>4, <2>5
<1>6. g[n] = f[1..n]
  BY <1>1
<1> HIDE DEF g
<1> QED BY <1>3, <1>4, <1>5, <1>6 DEF n

\* Induction along the fold: with S[k] a set that holds the value after k
\* elements, the fold is in the last of these sets.
THEOREM FoldLeftInvariant ==
  ASSUME NEW base, NEW X, NEW s \in Seq(X), NEW S, base \in S[0],
         \A k \in 1..Len(s) : \A a \in S[k - 1] : op(a, s[k]) \in S[k]
  PROVE  Fold(base, s) \in S[Len(s)]
<1> DEFINE n == Len(s)
<1>1. PICK g : /\ g[0] = base
               /\ \A k \in 1..n : g[k] = op(g[k - 1], s[k])
               /\ Fold(base, s) = g[n]
  BY FoldLeftSteps
<1> DEFINE Bad == {k \in 0..n : g[k] \notin S[k]}
<1>2. n \in Nat /\ \A k \in 1..n : \A a \in S[k - 1] : op(a, s[k]) \in S[k]
  OBVIOUS
<1> HIDE DEF n
<1>3. ASSUME Bad # {} PROVE FALSE
  <2>1. Bad \in SUBSET Nat
    BY <1>2
  <2>2. PICK m \in Bad : \A k \in Bad : m <= k
    <3> HIDE DEF Bad
    <3> QED BY <1>3, <2>1, LeastNat
  <2>3. m \in 0..n /\ g[m] \notin S[m] /\ m # 0
    BY <1>1
  <2>4. m \in 1..n /\ m - 1 \in 0..n /\ ~(m <= m - 1)
    BY <1>2, <2>3
  <2>5. g[m - 1] \in S[m - 1]
    BY <2>2, <2>4
  <2>6. g[m] = op(g[m - 1], s[m])
    BY <1>1, <2>4
  <2> HIDE DEF Bad
  <2> QED BY <1>2, <2>3, <2>4, <2>5, <2>6
<1>4. g[n] \in S[n]
  BY <1>2, <1>3
<1> QED BY <1>1, <1>4 DEF n
===============================================================================
