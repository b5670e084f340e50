-------------------------------- MODULE Sums --------------------------------
(***************************************************************************)
(* Sums over finite sets, as the folds of the community modules define     *)
(* them: they are numbers, the order does not matter, and one more element *)
(* adds its value.  Induction is over the least number of a set, which     *)
(* needs no operator as a parameter.                                       *)
(***************************************************************************)
EXTENDS Integers, Functions, FiniteSets, FiniteSetTheorems, WellFoundedInduction, TLAPS

\* Some numbers have a least.
LEMMA LeastNumber ==
  ASSUME NEW T \in SUBSET Nat, T # {}
  PROVE  \E n \in T : \A m \in T : n <= m
<1>1. \E R : /\ \E n \in T : \A m \in T : ~(<<m, n>> \in R)
             /\ \A m, n \in Nat : m < n => <<m, n>> \in R
  <2>1. \E n \in T : \A m \in T : ~(<<m, n>> \in OpToRel(<, Nat))
    BY WFMin, NatLessThanWellFounded
  <2>2. \A m, n \in Nat : m < n => <<m, n>> \in OpToRel(<, Nat)
    BY DEF OpToRel
  <2>3. QED
    BY <2>1, <2>2, Zenon
<1>2. PICK R : /\ \E n \in T : \A m \in T : ~(<<m, n>> \in R)
               /\ \A m, n \in Nat : m < n => <<m, n>> \in R
  BY <1>1, Zenon
<1>3. PICK n \in T : \A m \in T : ~(<<m, n>> \in R)
  BY <1>2
<1>4. \A m \in T : ~(m < n)
  BY <1>2, <1>3
<1>5. \A m \in T : n <= m
  BY <1>4
<1>6. QED
  BY <1>5

\* A set with 0 and with the successor of each of its numbers has all numbers.
LEMMA Induction ==
  ASSUME NEW T \in SUBSET Nat, 0 \in T, \A n \in T : n + 1 \in T
  PROVE  T = Nat
<1>1. SUFFICES ASSUME Nat \ T # {}
               PROVE  FALSE
  OBVIOUS
<1>2. PICK n \in Nat \ T : \A m \in Nat \ T : n <= m
  BY <1>1, LeastNumber
<1>3. n - 1 \in Nat /\ ~(n <= n - 1) /\ (n - 1) + 1 = n
  BY <1>2
<1>4. n - 1 \in T
  BY <1>2, <1>3
<1>5. QED
  BY <1>2, <1>3, <1>4

-----------------------------------------------------------------------------
(* The function that a fold is defined by.                                 *)

\* An element of a set, the one that a fold takes first.
First(S) == CHOOSE x \in S : TRUE

\* What the sum of f over s is made of.
Unfolded(f, it, s) == IF s = {} THEN 0 ELSE f[First(s)] + it[s \ {First(s)}]

IsSum(f, S, it) == it = [s \in SUBSET S |-> Unfolded(f, it, s)]

\* The sum is what that function has for the whole set.
LEMMA SumIsChosen ==
  ASSUME NEW f, NEW S
  PROVE  SumFunctionOnSet(f, S) = (CHOOSE it : IsSum(f, S, it))[S]
  BY DEF SumFunctionOnSet, FoldFunctionOnSet, MapThenFoldSet, IsSum, Unfolded, First

\* A finite set without one element is smaller by one.
LEMMA Smaller ==
  ASSUME NEW S, IsFiniteSet(S), NEW x \in S
  PROVE  /\ IsFiniteSet(S \ {x}) /\ Cardinality(S) \in Nat
         /\ Cardinality(S \ {x}) = Cardinality(S) - 1 /\ Cardinality(S \ {x}) \in Nat
  BY FS_RemoveElement, FS_CardinalityType

\* The first element is in the set.
LEMMA Firsts ==
  ASSUME NEW S, S # {}
  PROVE  First(S) \in S
  BY DEF First

\* The same for the subsets of at most n elements.
IsSumUpTo(f, S, n, it) ==
    /\ it = [s \in SUBSET S |-> it[s]]
    /\ \A s \in SUBSET S : Cardinality(s) <= n => it[s] = Unfolded(f, it, s)

\* There is such a function, built up by the size of the sets.
LEMMA SumExists ==
  ASSUME NEW f, NEW S, IsFiniteSet(S)
  PROVE  \E it : IsSum(f, S, it)
<1> DEFINE T == {n \in Nat : \E it : IsSumUpTo(f, S, n, it)}
<1>1. \A s \in SUBSET S : IsFiniteSet(s) /\ Cardinality(s) \in Nat /\ Cardinality(s) <= Cardinality(S)
  BY FS_Subset, FS_CardinalityType
<1>2. 0 \in T
  <2> DEFINE zero == [s \in SUBSET S |-> 0]
  <2>1. \A s \in SUBSET S : Cardinality(s) <= 0 => s = {}
    BY <1>1, FS_EmptySet
  <2>2. IsSumUpTo(f, S, 0, zero)
    BY <2>1 DEF IsSumUpTo, Unfolded
  <2>3. QED
    BY <2>2
<1>3. ASSUME NEW n \in T
      PROVE  n + 1 \in T
  <2>1. PICK it : IsSumUpTo(f, S, n, it)
    BY <1>3
  <2> DEFINE more == [s \in SUBSET S |-> IF Cardinality(s) <= n THEN it[s] ELSE Unfolded(f, it, s)]
  <2>2. ASSUME NEW s \in SUBSET S, Cardinality(s) <= n + 1
        PROVE  Unfolded(f, more, s) = Unfolded(f, it, s)
    <3>1. CASE s = {}
      BY <3>1 DEF Unfolded
    <3>2. CASE s # {}
      <4>1. First(s) \in s
        BY <3>2, Firsts
      <4>2. Cardinality(s \ {First(s)}) <= n
        BY <1>1, <2>2, <4>1, Smaller, n \in Nat
      <4>3. more[s \ {First(s)}] = it[s \ {First(s)}]
        BY <4>2
      <4>4. QED
        BY <4>3 DEF Unfolded
    <3>3. QED
      BY <3>1, <3>2
  <2>3. ASSUME NEW s \in SUBSET S, Cardinality(s) <= n + 1
        PROVE  more[s] = Unfolded(f, more, s)
    <3>1. CASE Cardinality(s) <= n
      BY <2>1, <2>2, <2>3, <3>1 DEF IsSumUpTo
    <3>2. CASE ~(Cardinality(s) <= n)
      BY <2>2, <2>3, <3>2
    <3>3. QED
      BY <3>1, <3>2
  <2>4. more = [s \in SUBSET S |-> more[s]]
    OBVIOUS
  <2> HIDE DEF more
  <2>5. IsSumUpTo(f, S, n + 1, more)
    BY <2>3, <2>4 DEF IsSumUpTo
  <2>6. QED
    BY <2>5, n \in Nat
<1>4. Cardinality(S) \in T
  <2> HIDE DEF T
  <2>1. T \in SUBSET Nat
    BY DEF T
  <2>2. T = Nat
    BY <1>2, <1>3, <2>1, Induction
  <2>3. QED
    BY <2>2, FS_CardinalityType
<1>5. PICK it : IsSumUpTo(f, S, Cardinality(S), it)
  BY <1>4
<1>6. \A s \in SUBSET S : it[s] = Unfolded(f, it, s)
  BY <1>1, <1>5 DEF IsSumUpTo
<1>7. QED
  BY <1>5, <1>6 DEF IsSum, IsSumUpTo

\* Two such functions agree where both of them are.
LEMMA SumIsUnique ==
  ASSUME NEW f, NEW S, IsFiniteSet(S), NEW R \in SUBSET S, NEW it, NEW other,
         IsSum(f, S, it), IsSum(f, R, other)
  PROVE  \A s \in SUBSET R : other[s] = it[s]
<1> DEFINE T == {n \in Nat : \A s \in SUBSET R : Cardinality(s) = n => other[s] = it[s]}
<1>1. \A s \in SUBSET R : IsFiniteSet(s) /\ Cardinality(s) \in Nat
  BY FS_Subset, FS_CardinalityType
<1>2. \A s \in SUBSET R : other[s] = Unfolded(f, other, s) /\ it[s] = Unfolded(f, it, s)
  BY DEF IsSum
<1>3. 0 \in T
  BY <1>1, <1>2, FS_EmptySet DEF Unfolded
<1>4. ASSUME NEW n \in T
      PROVE  n + 1 \in T
  <2>1. ASSUME NEW s \in SUBSET R, Cardinality(s) = n + 1
        PROVE  other[s] = it[s]
    <3>1. s # {}
      BY <1>1, <2>1, FS_EmptySet, n \in Nat
    <3>2. First(s) \in s
      BY <3>1, Firsts
    <3>3. Cardinality(s \ {First(s)}) = n
      BY <1>1, <2>1, <3>2, Smaller, n \in Nat
    <3>4. other[s \ {First(s)}] = it[s \ {First(s)}]
      BY <1>4, <3>3
    <3>5. QED
      BY <1>2, <3>4 DEF Unfolded
  <2>2. QED
    BY <2>1
<1>5. T = Nat
  <2> HIDE DEF T
  <2>1. T \in SUBSET Nat
    BY DEF T
  <2>2. QED
    BY <1>3, <1>4, <2>1, Induction
<1>6. QED
  BY <1>1, <1>5

\* The sum over a set as the one over its subsets has it.
LEMMA SumOfSubset ==
  ASSUME NEW f, NEW S, IsFiniteSet(S), NEW R \in SUBSET S, NEW it, IsSum(f, S, it)
  PROVE  SumFunctionOnSet(f, R) = it[R]
<1>1. IsFiniteSet(R)
  BY FS_Subset
<1> DEFINE chosen == CHOOSE other : IsSum(f, R, other)
<1>2. IsSum(f, R, chosen)
  BY <1>1, SumExists
<1>3. SumFunctionOnSet(f, R) = chosen[R]
  BY SumIsChosen
<1> HIDE DEF chosen
<1>4. chosen[R] = it[R]
  BY <1>2, SumIsUnique
<1>5. QED
  BY <1>3, <1>4

-----------------------------------------------------------------------------
(* What sums are.                                                          *)

\* Nothing adds up to nothing.
THEOREM SumOverNothing ==
  ASSUME NEW f
  PROVE  SumFunctionOnSet(f, {}) = 0
<1>1. PICK it : IsSum(f, {}, it)
  BY SumExists, FS_EmptySet
<1>2. it[{}] = 0
  BY <1>1 DEF IsSum, Unfolded
<1>3. QED
  BY <1>1, <1>2, SumOfSubset, FS_EmptySet

\* A sum is the first value and the sum of the others.
LEMMA SumFromFirst ==
  ASSUME NEW f, NEW S, IsFiniteSet(S), S # {}
  PROVE  SumFunctionOnSet(f, S) = f[First(S)] + SumFunctionOnSet(f, S \ {First(S)})
<1>1. PICK it : IsSum(f, S, it)
  BY SumExists
<1>2. it[S] = f[First(S)] + it[S \ {First(S)}]
  BY <1>1 DEF IsSum, Unfolded
<1>3. QED
  BY <1>1, <1>2, SumOfSubset

ClosedUnderSums(Q) == Q \in SUBSET Int /\ 0 \in Q /\ \A x, y \in Q : x + y \in Q

\* Where two values add up to a third, so do any number of them.
THEOREM SumsStayWithin ==
  ASSUME NEW Q, ClosedUnderSums(Q),
         NEW S, IsFiniteSet(S), NEW f, \A x \in S : f[x] \in Q
  PROVE  SumFunctionOnSet(f, S) \in Q
<1> DEFINE T == {n \in Nat : \A s \in SUBSET S : Cardinality(s) = n => SumFunctionOnSet(f, s) \in Q}
<1>1. \A s \in SUBSET S : IsFiniteSet(s) /\ Cardinality(s) \in Nat
  BY FS_Subset, FS_CardinalityType
<1>2. 0 \in T
  <2>1. \A s \in SUBSET S : Cardinality(s) = 0 => s = {}
    BY <1>1, FS_EmptySet
  <2>2. QED
    BY <2>1, SumOverNothing DEF ClosedUnderSums
<1>3. ASSUME NEW n \in T
      PROVE  n + 1 \in T
  <2>1. ASSUME NEW s \in SUBSET S, Cardinality(s) = n + 1
        PROVE  SumFunctionOnSet(f, s) \in Q
    <3>1. s # {}
      BY <1>1, <2>1, FS_EmptySet, n \in Nat
    <3>2. First(s) \in s
      BY <3>1, Firsts
    <3>3. Cardinality(s \ {First(s)}) = n
      BY <1>1, <2>1, <3>2, Smaller, n \in Nat
    <3>4. SumFunctionOnSet(f, s \ {First(s)}) \in Q
      BY <1>3, <3>3
    <3>5. SumFunctionOnSet(f, s) = f[First(s)] + SumFunctionOnSet(f, s \ {First(s)})
      BY <1>1, <3>1, SumFromFirst
    <3>6. QED
      BY <3>2, <3>4, <3>5 DEF ClosedUnderSums
  <2>2. QED
    BY <2>1
<1>4. T = Nat
  <2> HIDE DEF T
  <2>1. T \in SUBSET Nat
    BY DEF T
  <2>2. QED
    BY <1>2, <1>3, <2>1, Induction
<1>5. QED
  BY <1>1, <1>4

\* Sums of integers are integers.
THEOREM SumsAreNumbers ==
  ASSUME NEW S, IsFiniteSet(S), NEW f, \A x \in S : f[x] \in Int
  PROVE  SumFunctionOnSet(f, S) \in Int
<1>1. ClosedUnderSums(Int)
  BY DEF ClosedUnderSums
<1>2. QED
  BY <1>1, SumsStayWithin

\* Sums of natural numbers are natural numbers.
THEOREM SumsAreNaturals ==
  ASSUME NEW S, IsFiniteSet(S), NEW f, \A x \in S : f[x] \in Nat
  PROVE  SumFunctionOnSet(f, S) \in Nat
<1>1. ClosedUnderSums(Nat)
  BY DEF ClosedUnderSums
<1>2. QED
  BY <1>1, SumsStayWithin

\* A sum may be taken apart at any element.
THEOREM SumFromAny ==
  ASSUME NEW S, IsFiniteSet(S), NEW f, \A x \in S : f[x] \in Int, NEW e \in S
  PROVE  SumFunctionOnSet(f, S) = f[e] + SumFunctionOnSet(f, S \ {e})
<1> DEFINE Apart(s) == \A x \in s : SumFunctionOnSet(f, s) = f[x] + SumFunctionOnSet(f, s \ {x})
           T == {n \in Nat : \A s \in SUBSET S : Cardinality(s) = n => Apart(s)}
<1>1. \A s \in SUBSET S : IsFiniteSet(s) /\ Cardinality(s) \in Nat
  BY FS_Subset, FS_CardinalityType
<1>2. 0 \in T
  <2>1. \A s \in SUBSET S : Cardinality(s) = 0 => s = {}
    BY <1>1, FS_EmptySet
  <2>2. QED
    BY <2>1
<1>3. ASSUME NEW n \in T
      PROVE  n + 1 \in T
  <2>1. ASSUME NEW s \in SUBSET S, Cardinality(s) = n + 1, NEW x \in s
        PROVE  SumFunctionOnSet(f, s) = f[x] + SumFunctionOnSet(f, s \ {x})
    <3> DEFINE y == First(s)
    <3>1. y \in s /\ IsFiniteSet(s)
      BY <1>1, Firsts
    <3>2. SumFunctionOnSet(f, s) = f[y] + SumFunctionOnSet(f, s \ {y})
      BY <1>1, SumFromFirst
    <3> HIDE DEF y
    <3>3. CASE x = y
      BY <3>2, <3>3
    <3>4. CASE x # y
      <4>1. Cardinality(s \ {x}) = n /\ Cardinality(s \ {y}) = n
        BY <2>1, <3>1, Smaller, n \in Nat
      <4>2. SumFunctionOnSet(f, s \ {x}) = f[y] + SumFunctionOnSet(f, (s \ {x}) \ {y})
        BY <1>3, <3>1, <3>4, <4>1
      <4>3. SumFunctionOnSet(f, s \ {y}) = f[x] + SumFunctionOnSet(f, (s \ {y}) \ {x})
        BY <1>3, <3>1, <3>4, <4>1
      <4>4. (s \ {x}) \ {y} = (s \ {y}) \ {x}
        OBVIOUS
      <4>5. /\ f[x] \in Int /\ f[y] \in Int
            /\ SumFunctionOnSet(f, (s \ {x}) \ {y}) \in Int
        <5>1. IsFiniteSet((s \ {x}) \ {y}) /\ \A z \in (s \ {x}) \ {y} : f[z] \in Int
          BY <1>1
        <5>2. QED
          BY <3>1, <5>1, SumsAreNumbers
      <4> DEFINE r == SumFunctionOnSet(f, (s \ {x}) \ {y})
                 a == f[x]
                 b == f[y]
      <4>6. SumFunctionOnSet(f, s \ {y}) = a + r
        BY <4>3, <4>4
      <4>7. SumFunctionOnSet(f, s \ {x}) = b + r
        BY <4>2
      <4>8. SumFunctionOnSet(f, s) = b + SumFunctionOnSet(f, s \ {y})
        BY <3>2
      <4>9. a \in Int /\ b \in Int /\ r \in Int
        BY <4>5
      <4>10. SUFFICES SumFunctionOnSet(f, s) = a + SumFunctionOnSet(f, s \ {x})
        OBVIOUS
      <4> HIDE DEF r, a, b
      <4>11. b + (a + r) = a + (b + r)
        BY <4>9
      <4>12. QED
        BY <4>6, <4>7, <4>8, <4>11
    <3>5. QED
      BY <3>3, <3>4
  <2>2. QED
    BY <2>1
<1>4. T = Nat
  <2> HIDE DEF T
  <2>1. T \in SUBSET Nat
    BY DEF T
  <2>2. QED
    BY <1>2, <1>3, <2>1, Induction
<1>5. QED
  BY <1>1, <1>4

\* One more element adds its value.
THEOREM SumOfOneMore ==
  ASSUME NEW S, IsFiniteSet(S), NEW f, \A x \in S : f[x] \in Int,
         NEW e, e \notin S, f[e] \in Int
  PROVE  SumFunctionOnSet(f, S \cup {e}) = SumFunctionOnSet(f, S) + f[e]
<1>1. IsFiniteSet(S \cup {e}) /\ (S \cup {e}) \ {e} = S
  BY FS_AddElement
<1>2. SumFunctionOnSet(f, S \cup {e}) = f[e] + SumFunctionOnSet(f, S)
  BY <1>1, SumFromAny
<1>3. QED
  BY <1>2, SumsAreNumbers

\* Only the values in the set matter.
THEOREM SumOfSameValues ==
  ASSUME NEW S, IsFiniteSet(S), NEW f, NEW g, \A x \in S : f[x] = g[x]
  PROVE  SumFunctionOnSet(f, S) = SumFunctionOnSet(g, S)
<1> DEFINE T == {n \in Nat : \A s \in SUBSET S : Cardinality(s) = n =>
                    SumFunctionOnSet(f, s) = SumFunctionOnSet(g, s)}
<1>1. \A s \in SUBSET S : IsFiniteSet(s) /\ Cardinality(s) \in Nat
  BY FS_Subset, FS_CardinalityType
<1>2. 0 \in T
  <2>1. \A s \in SUBSET S : Cardinality(s) = 0 => s = {}
    BY <1>1, FS_EmptySet
  <2>2. QED
    BY <2>1, SumOverNothing
<1>3. ASSUME NEW n \in T
      PROVE  n + 1 \in T
  <2>1. ASSUME NEW s \in SUBSET S, Cardinality(s) = n + 1
        PROVE  SumFunctionOnSet(f, s) = SumFunctionOnSet(g, s)
    <3>1. s # {}
      BY <1>1, <2>1, FS_EmptySet, n \in Nat
    <3>2. First(s) \in s
      BY <3>1, Firsts
    <3>3. Cardinality(s \ {First(s)}) = n
      BY <1>1, <2>1, <3>2, Smaller, n \in Nat
    <3>4. SumFunctionOnSet(f, s \ {First(s)}) = SumFunctionOnSet(g, s \ {First(s)})
      BY <1>3, <3>3
    <3>5. /\ SumFunctionOnSet(f, s) = f[First(s)] + SumFunctionOnSet(f, s \ {First(s)})
          /\ SumFunctionOnSet(g, s) = g[First(s)] + SumFunctionOnSet(g, s \ {First(s)})
      BY <1>1, <3>1, SumFromFirst
    <3>6. QED
      BY <3>2, <3>4, <3>5
  <2>2. QED
    BY <2>1
<1>4. T = Nat
  <2> HIDE DEF T
  <2>1. T \in SUBSET Nat
    BY DEF T
  <2>2. QED
    BY <1>2, <1>3, <2>1, Induction
<1>5. QED
  BY <1>1, <1>4
=============================================================================
