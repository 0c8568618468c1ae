----------------------------- MODULE FoldFacts -----------------------------
(***************************************************************************)
(* Facts about the folds of the community modules, for any operation and   *)
(* any choice of the next element.  MapThenFoldSet is a recursive          *)
(* function on the subsets of a finite set: that there is one, and only    *)
(* one, is proved here from a minimal set without it, for induction over   *)
(* data is not at hand.  From there a fold of a sequence takes a last row  *)
(* with one more operation, and a sum may be taken in any order.           *)
(*                                                                         *)
(* A module of proofs instantiates this one with the operation it folds,   *)
(* and shows its folds to be Iterated by expanding both definitions.       *)
(***************************************************************************)
EXTENDS Integers, FiniteSets, FiniteSetTheorems, WellFoundedInduction, TLAPS

CONSTANTS Op(_, _), Choose(_)

\* g folds F over each subset of T, as the function in MapThenFoldSet does.
IsIter(g, b, F, T) ==
  g = [s \in SUBSET T |-> IF s = {} THEN b ELSE Op(F[Choose(s)], g[s \ {Choose(s)}])]

Iterated(b, F, T) == (CHOOSE g : IsIter(g, b, F, T))[T]

\* What the facts ask of the choice and of the operation.
Chooses(T) == \A s \in SUBSET T : s # {} => Choose(s) \in s
TakesLast == \A n \in Nat \ {0} : Choose(1 .. n) = n
Adds == \A x, y \in Int : Op(x, y) = x + y

-----------------------------------------------------------------------------
(* There is one such function, and only one *)

\* A family of subsets of a finite set has a minimal member.
LEMMA MinimalSet ==
  ASSUME NEW T, IsFiniteSet(T), NEW Bad \in SUBSET (SUBSET T), Bad # {}
  PROVE  \E m \in Bad : \A s \in Bad : s \subseteq m => s = m
<1>1. IsWellFoundedOn(StrictSubsetOrdering(T), FiniteSubsetsOf(T))
  BY FS_StrictSubsetOrderingWellFounded
<1>2. Bad \subseteq FiniteSubsetsOf(T)
  BY FS_FiniteSubsetsOfFinite
<1>3. PICK m \in Bad : \A s \in Bad : <<s, m>> \notin StrictSubsetOrdering(T)
  BY <1>1, <1>2, WFMin
<1> QED
  BY <1>3 DEF StrictSubsetOrdering

\* Two folds agree on the sets on which they fold the same values.
LEMMA IterAgree ==
  ASSUME NEW T, IsFiniteSet(T), Chooses(T), NEW U, NEW b, NEW F, NEW G, NEW g, NEW h,
         IsIter(g, b, F, T), IsIter(h, b, G, U),
         NEW S \in SUBSET (T \cap U), \A x \in S : F[x] = G[x]
  PROVE  g[S] = h[S]
<1> DEFINE Bad == {s \in SUBSET S : g[s] # h[s]}
<1>1. SUFFICES ASSUME Bad # {} PROVE FALSE
  OBVIOUS
<1>2. IsFiniteSet(S)
  BY FS_Subset
<1>3. PICK m \in Bad : \A s \in Bad : s \subseteq m => s = m
  <2> HIDE DEF Bad
  <2>1. Bad \in SUBSET (SUBSET S)
    BY DEF Bad
  <2> QED BY <1>1, <1>2, <2>1, MinimalSet
<1>4. m \in SUBSET T /\ m \in SUBSET U /\ g[m] # h[m]
  BY <1>3
<1> DEFINE x == Choose(m)
           r == m \ {x}
<1>5. /\ g[m] = IF m = {} THEN b ELSE Op(F[x], g[r])
      /\ h[m] = IF m = {} THEN b ELSE Op(G[x], h[r])
  BY <1>4 DEF IsIter
<1>6. m # {}
  BY <1>4, <1>5
<1>7. x \in m
  BY <1>4, <1>6 DEF Chooses
<1>8. r \in SUBSET S /\ r \subseteq m /\ r # m
  BY <1>3, <1>7
<1>9. g[r] = h[r]
  <2> HIDE DEF r
  <2> QED BY <1>3, <1>8
<1>10. F[x] = G[x]
  BY <1>3, <1>7
<1> QED
  BY <1>4, <1>5, <1>6, <1>9, <1>10

\* A minimal set without one has one: its proper subsets have theirs, which agree.
LEMMA IterExists ==
  ASSUME NEW T, IsFiniteSet(T), Chooses(T), NEW b, NEW F
  PROVE  \E g : IsIter(g, b, F, T)
<1> DEFINE Bad == {s \in SUBSET T : ~\E g : IsIter(g, b, F, s)}
<1>1. SUFFICES ASSUME Bad # {} PROVE FALSE
  OBVIOUS
<1>2. PICK m \in Bad : \A s \in Bad : s \subseteq m => s = m
  <2> HIDE DEF Bad
  <2>1. Bad \in SUBSET (SUBSET T)
    BY DEF Bad
  <2> QED BY <1>1, <2>1, MinimalSet
<1>3. IsFiniteSet(m) /\ Chooses(m)
  BY <1>2, FS_Subset DEF Chooses
<1> DEFINE Of(s) == CHOOSE g : IsIter(g, b, F, s)
           Value(s) == Of(s)[s]
           next(s) == s \ {Choose(s)}
           iter == [s \in SUBSET m |-> IF s = {} THEN b ELSE Op(F[Choose(s)], Value(next(s)))]
<1>4. ASSUME NEW s \in SUBSET m, s # m PROVE IsIter(Of(s), b, F, s)
  <2>1. s \in SUBSET T /\ s \notin Bad
    BY <1>2, <1>4
  <2>2. \E g : IsIter(g, b, F, s)
    BY <2>1
  <2> QED BY <2>2
<1>5. ASSUME NEW s \in SUBSET m, s # {}
      PROVE  next(s) \in SUBSET m /\ next(s) # m /\ next(s) \in SUBSET s
  BY <1>3, <1>5 DEF Chooses
<1>6. ASSUME NEW s \in SUBSET m, s # m PROVE iter[s] = Value(s)
  <2>1. IsIter(Of(s), b, F, s)
    BY <1>4, <1>6
  <2>2. Value(s) = IF s = {} THEN b ELSE Op(F[Choose(s)], Of(s)[next(s)])
    <3> HIDE DEF Of
    <3> QED BY <2>1 DEF IsIter
  <2>3. CASE s = {}
    BY <2>2, <2>3
  <2>4. CASE s # {}
    <3> DEFINE r == next(s)
    <3>1. r \in SUBSET m /\ r # m /\ r \in SUBSET s
      BY <1>5, <2>4
    <3>2. IsIter(Of(r), b, F, r)
      BY <1>4, <3>1
    <3>3. IsFiniteSet(s) /\ Chooses(s)
      BY <1>3, FS_Subset DEF Chooses
    <3>4. Of(s)[r] = Of(r)[r]
      <4> HIDE DEF Of, r
      <4>1. r \in SUBSET (s \cap r)
        BY <3>1
      <4> QED BY <2>1, <3>2, <3>3, <4>1, IterAgree
    <3> HIDE DEF Of, next
    <3> QED BY <2>2, <2>4, <3>4
  <2> QED BY <2>3, <2>4
<1>7. IsIter(iter, b, F, m)
  <2>1. \A s \in SUBSET m : s # {} => Value(next(s)) = iter[next(s)]
    <3> HIDE DEF iter, Value, next
    <3> QED BY <1>5, <1>6
  <2>2. iter = [s \in SUBSET m |-> IF s = {} THEN b ELSE Op(F[Choose(s)], Value(next(s)))]
    OBVIOUS
  <2> HIDE DEF iter, Value, next
  <2>3. iter = [s \in SUBSET m |-> IF s = {} THEN b ELSE Op(F[Choose(s)], iter[next(s)])]
    BY <2>1, <2>2
  <2> QED BY <2>3 DEF IsIter, next
<1> QED
  BY <1>2, <1>7

-----------------------------------------------------------------------------
(* Folds *)

\* A choice from the subsets of a set is one from those of a smaller set.
LEMMA ChoosesBelow == ASSUME NEW T, Chooses(T), NEW S \in SUBSET T PROVE Chooses(S)
BY DEF Chooses

\* Over nothing, what it started from.
LEMMA IteratedEmpty == ASSUME NEW b, NEW F PROVE Iterated(b, F, {}) = b
<1> DEFINE g == CHOOSE g : IsIter(g, b, F, {})
<1>1. IsIter(g, b, F, {})
  <2>1. IsFiniteSet({}) /\ Chooses({})
    BY FS_EmptySet DEF Chooses
  <2> QED BY <2>1, IterExists
<1> HIDE DEF g
<1> QED BY <1>1 DEF Iterated, IsIter, g

\* A fold looks at no more than the values folded.
LEMMA IteratedOfEqual ==
  ASSUME NEW T, IsFiniteSet(T), Chooses(T), NEW b, NEW F, NEW G, \A x \in T : F[x] = G[x]
  PROVE  Iterated(b, F, T) = Iterated(b, G, T)
<1> DEFINE g == CHOOSE g : IsIter(g, b, F, T)
           h == CHOOSE h : IsIter(h, b, G, T)
<1>1. IsIter(g, b, F, T) /\ IsIter(h, b, G, T)
  BY IterExists
<1> HIDE DEF g, h
<1>2. g[T] = h[T]
  BY <1>1, IterAgree
<1> QED BY <1>2 DEF Iterated, g, h

\* A fold that chooses the last row first takes one more row with one more operation.
LEMMA IteratedNext ==
  ASSUME NEW n \in Nat, Chooses(1 .. n + 1), TakesLast, NEW b, NEW F
  PROVE  Iterated(b, F, 1 .. n + 1) = Op(F[n + 1], Iterated(b, F, 1 .. n))
<1> DEFINE T == 1 .. n + 1
           U == 1 .. n
           g == CHOOSE g : IsIter(g, b, F, T)
           h == CHOOSE h : IsIter(h, b, F, U)
<1>1. /\ IsFiniteSet(T) /\ IsFiniteSet(U) /\ Chooses(T)
      /\ U \subseteq T /\ T # {} /\ T \ {n + 1} = U
  <2>1. IsFiniteSet(T) /\ IsFiniteSet(U)
    BY FS_Interval
  <2>2. U \subseteq T /\ n + 1 \in T /\ T \ {n + 1} = U
    OBVIOUS
  <2> QED BY <2>1, <2>2
<1>2. Chooses(U)
  BY <1>1 DEF Chooses
<1>3. Choose(T) = n + 1
  BY DEF TakesLast
<1> HIDE DEF T, U
<1>4. IsIter(g, b, F, T) /\ IsIter(h, b, F, U)
  BY <1>1, <1>2, IterExists
<1> HIDE DEF g, h
<1>5. g[T] = Op(F[n + 1], g[U])
  BY <1>1, <1>3, <1>4 DEF IsIter
<1>6. g[U] = h[U]
  <2>1. U \in SUBSET (T \cap U)
    BY <1>1
  <2> QED BY <1>1, <1>4, <2>1, IterAgree
<1> QED BY <1>5, <1>6 DEF Iterated, g, h, T, U

-----------------------------------------------------------------------------
(* Sums *)

Total(F, T) == Iterated(0, F, T)

\* A sum over any set of integers, taken one element at a time, whichever first.
LEMMA SumStep ==
  ASSUME NEW T, IsFiniteSet(T), Adds, Chooses(T), NEW F, \A x \in T : F[x] \in Int, NEW g, IsIter(g, 0, F, T)
  PROVE  \A S \in SUBSET T : g[S] \in Int /\ \A y \in S : g[S] = F[y] + g[S \ {y}]
<1> DEFINE Good(S) == g[S] \in Int /\ \A y \in S : g[S] = F[y] + g[S \ {y}]
           Bad == {S \in SUBSET T : ~Good(S)}
<1>1. SUFFICES ASSUME Bad # {} PROVE FALSE
  OBVIOUS
<1>2. PICK m \in Bad : \A s \in Bad : s \subseteq m => s = m
  <2> HIDE DEF Bad
  <2>1. Bad \in SUBSET (SUBSET T)
    BY DEF Bad
  <2> QED BY <1>1, <2>1, MinimalSet
<1>3. \A s \in SUBSET m : s # m => Good(s)
  <2> HIDE DEF Good
  <2> QED BY <1>2
<1> DEFINE x == Choose(m)
<1>4. g[m] = IF m = {} THEN 0 ELSE Op(F[x], g[m \ {x}])
  BY <1>2 DEF IsIter
<1>5. CASE m = {}
  BY <1>2, <1>4, <1>5
<1>6. CASE m # {}
  <2>1. x \in m /\ F[x] \in Int
    BY <1>2, <1>6 DEF Chooses
  <2>2. m \ {x} \in SUBSET m /\ m \ {x} # m
    BY <2>1
  <2>3. Good(m \ {x})
    <3> HIDE DEF Good
    <3> QED BY <1>3, <2>2
  <2>4. g[m] = F[x] + g[m \ {x}] /\ g[m] \in Int
    <3>1. g[m \ {x}] \in Int
      BY <2>3
    <3>2. g[m] = Op(F[x], g[m \ {x}])
      BY <1>4, <1>6
    <3> DEFINE a == F[x]
               v == g[m \ {x}]
    <3>3. a \in Int /\ v \in Int
      BY <2>1, <3>1
    <3> HIDE DEF a, v
    <3>4. Op(a, v) = a + v /\ a + v \in Int
      BY <3>3 DEF Adds
    <3> QED BY <3>2, <3>4 DEF a, v
  <2>5. ASSUME NEW y \in m PROVE g[m] = F[y] + g[m \ {y}]
    <3>1. CASE y = x
      BY <2>4, <3>1
    <3>2. CASE y # x
      <4> DEFINE rest == (m \ {x}) \ {y}
      <4>1. g[m \ {x}] = F[y] + g[rest]
        BY <2>3, <3>2
      <4>2. m \ {y} \in SUBSET m /\ m \ {y} # m
        OBVIOUS
      <4>3. Good(m \ {y})
        <5> HIDE DEF Good
        <5> QED BY <1>3, <4>2
      <4>4. x \in m \ {y} /\ (m \ {y}) \ {x} = rest
        BY <2>1, <3>2
      <4>5. g[m \ {y}] = F[x] + g[rest]
        <5> HIDE DEF rest
        <5> QED BY <4>3, <4>4
      <4>6. g[rest] \in Int
        <5>1. rest \in SUBSET m /\ rest # m
          OBVIOUS
        <5>2. Good(rest)
          <6> HIDE DEF Good, rest
          <6> QED BY <1>3, <5>1
        <5> HIDE DEF rest
        <5> QED BY <5>2
      <4>7. F[y] \in Int
        BY <1>2
      <4> HIDE DEF rest, x
      <4> QED BY <2>1, <2>4, <4>1, <4>5, <4>6, <4>7
    <3> QED BY <3>1, <3>2
  <2> QED BY <1>2, <2>4, <2>5
<1> QED BY <1>5, <1>6

\* A sum of whole numbers is one.
LEMMA TotalInt ==
  ASSUME NEW T, IsFiniteSet(T), Adds, Chooses(T), NEW F, \A x \in T : F[x] \in Int
  PROVE  Total(F, T) \in Int
<1> DEFINE g == CHOOSE g : IsIter(g, 0, F, T)
<1>1. IsIter(g, 0, F, T)
  BY IterExists
<1> HIDE DEF g
<1>2. T \in SUBSET T
  OBVIOUS
<1>3. g[T] \in Int
  BY <1>1, <1>2, SumStep
<1> QED BY <1>3 DEF Total, Iterated, g

\* One element more adds its value.
LEMMA TotalSplit ==
  ASSUME NEW T, IsFiniteSet(T), Adds, Chooses(T), NEW F, NEW y \in T, \A x \in T : F[x] \in Int
  PROVE  /\ Total(F, T) = Total(F, T \ {y}) + F[y]
         /\ Total(F, T \ {y}) \in Int
<1> DEFINE R == T \ {y}
           g == CHOOSE g : IsIter(g, 0, F, T)
           h == CHOOSE h : IsIter(h, 0, F, R)
<1>1. IsFiniteSet(R) /\ R \in SUBSET T /\ R \in SUBSET (T \cap R) /\ T \in SUBSET T
  BY FS_RemoveElement
<1>2. IsIter(g, 0, F, T)
  BY IterExists
<1>3. IsIter(h, 0, F, R)
  <2> HIDE DEF R
  <2>1. Chooses(R)
    BY <1>1, ChoosesBelow
  <2> QED BY <1>1, <2>1, IterExists
<1> HIDE DEF g, h
<1>4. g[T] = F[y] + g[R] /\ g[R] \in Int
  BY <1>1, <1>2, SumStep
<1>5. g[R] = h[R]
  <2> HIDE DEF R
  <2> QED BY <1>1, <1>2, <1>3, IterAgree
<1>6. F[y] \in Int
  OBVIOUS
<1>7. Total(F, T) = g[T] /\ Total(F, R) = h[R]
  BY DEF Total, Iterated, g, h
<1> HIDE DEF R
<1>8. Total(F, T) = Total(F, R) + F[y] /\ Total(F, R) \in Int
  BY <1>4, <1>5, <1>6, <1>7
<1> QED BY <1>8 DEF R

\* One more element adds its term.
LEMMA TotalAdd ==
  ASSUME NEW T, IsFiniteSet(T), NEW y, y \notin T, Adds, Chooses(T \cup {y}), NEW F,
         \A x \in T \cup {y} : F[x] \in Int
  PROVE  Total(F, T \cup {y}) = Total(F, T) + F[y]
<1> DEFINE U == T \cup {y}
<1>1. IsFiniteSet(U) /\ Chooses(U) /\ y \in U /\ T = U \ {y} /\ \A x \in U : F[x] \in Int
  BY FS_AddElement
<1> HIDE DEF U
<1>2. Total(F, U) = Total(F, U \ {y}) + F[y]
  BY <1>1, TotalSplit
<1> QED BY <1>1, <1>2 DEF U

\* One value changed changes the sum by as much.
LEMMA TotalChange ==
  ASSUME NEW T, IsFiniteSet(T), Adds, Chooses(T), NEW F, NEW G, NEW y \in T,
         \A x \in T : F[x] \in Int, \A x \in T : G[x] \in Int,
         \A x \in T : x # y => F[x] = G[x]
  PROVE  Total(G, T) = Total(F, T) - F[y] + G[y]
<1>1. F[y] \in Int /\ G[y] \in Int
  OBVIOUS
<1>2. Total(F, T) = Total(F, T \ {y}) + F[y] /\ Total(F, T \ {y}) \in Int
  BY TotalSplit
<1>3. Total(G, T) = Total(G, T \ {y}) + G[y]
  BY TotalSplit
<1>4. Total(F, T \ {y}) = Total(G, T \ {y})
  <2> DEFINE R == T \ {y}
  <2>1. IsFiniteSet(R) /\ R \in SUBSET T /\ \A x \in R : F[x] = G[x]
    BY FS_RemoveElement
  <2> HIDE DEF R
  <2>2. Chooses(R)
    BY <2>1, ChoosesBelow
  <2>3. Iterated(0, F, R) = Iterated(0, G, R)
    BY <2>1, <2>2, IteratedOfEqual
  <2> QED BY <2>3 DEF R, Total
<1> QED BY <1>1, <1>2, <1>3, <1>4

\* Nothing but zeros sums to zero.
LEMMA TotalZero ==
  ASSUME NEW T, IsFiniteSet(T), Adds, Chooses(T), NEW F, \A x \in T : F[x] = 0
  PROVE  Total(F, T) = 0
<1> DEFINE g == CHOOSE g : IsIter(g, 0, F, T)
           zero == [s \in SUBSET T |-> 0]
           Z == [x \in T |-> 0]
<1>1. IsIter(g, 0, F, T)
  BY IterExists
<1>2. IsIter(zero, 0, Z, T)
  <2> SUFFICES ASSUME NEW s \in SUBSET T, s # {}
               PROVE  0 = Op(Z[Choose(s)], zero[s \ {Choose(s)}])
    BY DEF IsIter
  <2>1. Choose(s) \in s
    BY DEF Chooses
  <2>2. Z[Choose(s)] = 0 /\ zero[s \ {Choose(s)}] = 0
    BY <2>1
  <2>3. Op(0, 0) = 0
    BY DEF Adds
  <2> QED BY <2>2, <2>3
<1> HIDE DEF g, zero, Z
<1>3. \A x \in T : F[x] = Z[x]
  BY DEF Z
<1>4. g[T] = zero[T]
  BY <1>1, <1>2, <1>3, IterAgree
<1> QED BY <1>4 DEF Total, Iterated, g, zero
=============================================================================
