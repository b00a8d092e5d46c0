----------------------------- MODULE DataLemmas -----------------------------
(***************************************************************************)
(* Facts about data that the proofs of several parts need: induction over  *)
(* numbers, and what the community modules' operators on sequences return. *)
(*                                                                         *)
(* The induction theorems of the library take an operator as a parameter.  *)
(* Here induction is about a set: to prove a formula of every number, take *)
(* the numbers for which it holds.                                         *)
(***************************************************************************)
EXTENDS Integers, Sequences, SequencesExt, WellFoundedInduction, FiniteSetTheorems,
        SequenceTheorems, TLAPS

-----------------------------------------------------------------------------
(* Induction. *)

\* A set of numbers that is not empty has a least member.
LEMMA LeastNumber ==
  ASSUME NEW T, T \subseteq Nat, T # {}
  PROVE  \E x \in T : \A y \in T : x <= y
<1> DEFINE R == {ss \in Nat \X Nat : ss[1] < ss[2]}
<1>1. R = OpToRel(<, Nat)
  BY Zenon DEF OpToRel
<1>2. IsWellFoundedOn(R, Nat)
  BY <1>1, NatLessThanWellFounded, Zenon
<1>3. \A x, y \in Nat : y < x => <<y, x>> \in R
  OBVIOUS
<1> HIDE DEF R
<1>4. PICK x \in T : \A y \in T : ~(<<y, x>> \in R)
  BY <1>2, WFMin
<1>5. \A y \in T : x <= y
  <2>1. \A y \in T : ~(y < x)
    BY <1>3, <1>4
  <2>2. QED
    BY <2>1
<1>6. QED
  BY <1>5

\* A set of numbers up to a bound that is not empty has a greatest member.
LEMMA GreatestNumber ==
  ASSUME NEW n \in Nat, NEW T, T \subseteq 0..n, T # {}
  PROVE  \E x \in T : \A y \in T : y <= x
<1> DEFINE U == {n - y : y \in T}
<1>0. \A y \in T : y \in 0..n /\ y \in Int /\ n - y \in Nat
  OBVIOUS
<1>1. U \subseteq Nat /\ U # {}
  BY <1>0
<1>2. PICK m \in U : \A k \in U : m <= k
  <2> HIDE DEF U
  <2>1. QED
    BY <1>1, LeastNumber
<1>3. PICK x \in T : m = n - x
  BY <1>2
<1>4. \A y \in T : n - x <= n - y
  BY <1>2, <1>3
<1>5. ASSUME NEW y \in T
      PROVE  y <= x
  <2>1. x \in Int /\ y \in Int /\ n - x <= n - y
    BY <1>0, <1>4
  <2>2. QED
    BY <2>1
<1>6. QED
  BY <1>5

\* A set that has zero, and with a number the next one, has every number.
LEMMA EveryNumber ==
  ASSUME NEW T, 0 \in T, \A n \in Nat : n \in T => n + 1 \in T
  PROVE  Nat \subseteq T
<1> SUFFICES ASSUME Nat \ T # {}
             PROVE  FALSE
  OBVIOUS
<1> DEFINE U == Nat \ T
<1>0. U \subseteq Nat /\ U # {}
  OBVIOUS
<1>1. PICK x \in U : \A y \in U : x <= y
  <2> HIDE DEF U
  <2>1. QED
    BY <1>0, LeastNumber, Zenon
<1>2. x # 0
  BY <1>1
<1>3. x - 1 \in Nat /\ x - 1 \notin U
  BY <1>1, <1>2
<1>4. x \in T
  BY <1>1, <1>3, (x - 1) + 1 = x
<1>5. QED
  BY <1>1, <1>4

-----------------------------------------------------------------------------
(* Sequences. *)

\* Without one of its elements: a sequence, one shorter, and the elements after it move
\* up by one.
LEMMA RemoveAtElements ==
  ASSUME NEW S, NEW s \in Seq(S), NEW i \in 1..Len(s)
  PROVE  /\ RemoveAt(s, i) \in Seq(S)
         /\ Len(RemoveAt(s, i)) = Len(s) - 1
         /\ \A k \in 1..(Len(s) - 1) : RemoveAt(s, i)[k] = IF k < i THEN s[k] ELSE s[k + 1]
<1> DEFINE a == SubSeq(s, 1, i - 1)
           b == SubSeq(s, i + 1, Len(s))
<1>1. a \in Seq(S) /\ Len(a) = i - 1 /\ \A k \in 1..(i - 1) : a[k] = s[k]
  OBVIOUS
<1>2. b \in Seq(S) /\ Len(b) = Len(s) - i /\ \A k \in 1..(Len(s) - i) : b[k] = s[i + k]
  OBVIOUS
<1>3. RemoveAt(s, i) = a \o b
  BY DEF RemoveAt
<1> HIDE DEF a, b
<1>4. /\ a \o b \in Seq(S) /\ Len(a \o b) = Len(a) + Len(b)
      /\ \A k \in 1..(Len(a) + Len(b)) : (a \o b)[k] = IF k <= Len(a) THEN a[k] ELSE b[k - Len(a)]
  BY <1>1, <1>2, ConcatProperties, Zenon
<1>7. Len(s) \in Nat /\ Len(a) + Len(b) = Len(s) - 1
  BY <1>1, <1>2
<1>5. ASSUME NEW k \in 1..(Len(s) - 1)
      PROVE  (a \o b)[k] = IF k < i THEN s[k] ELSE s[k + 1]
  <2>1. CASE k < i
    BY <1>1, <1>4, <1>7, <2>1
  <2>2. CASE k >= i
    <3>1. (a \o b)[k] = b[k - (i - 1)]
      BY <1>1, <1>4, <1>7, <2>2
    <3>2. k - (i - 1) \in 1..(Len(s) - i) /\ i + (k - (i - 1)) = k + 1
      BY <2>2
    <3>3. b[k - (i - 1)] = s[k + 1]
      BY <1>2, <3>2
    <3>4. QED
      BY <2>2, <3>1, <3>3
  <2>3. k < i \/ k >= i
    BY <1>7
  <2>4. QED
    BY <2>1, <2>2, <2>3, Zenon
<1>6. QED
  BY <1>3, <1>4, <1>5, <1>7

\* A sequence whose elements all differ.
AllDiffer(s) == \A i, j \in 1..Len(s) : s[i] = s[j] => i = j

\* Without one of its elements it loses that element and nothing else.
LEMMA RemoveAtSet ==
  ASSUME NEW S, NEW s \in Seq(S), NEW i \in 1..Len(s), AllDiffer(s)
  PROVE  /\ AllDiffer(RemoveAt(s, i))
         /\ ToSet(RemoveAt(s, i)) = ToSet(s) \ {s[i]}
<1> DEFINE r == RemoveAt(s, i)
<1>1. /\ r \in Seq(S) /\ Len(r) = Len(s) - 1
      /\ \A k \in 1..(Len(s) - 1) : r[k] = IF k < i THEN s[k] ELSE s[k + 1]
  BY RemoveAtElements
<1> HIDE DEF r
<1>2. ASSUME NEW k \in 1..Len(r)
      PROVE  \E m \in 1..Len(s) : m # i /\ r[k] = s[m] /\ m = (IF k < i THEN k ELSE k + 1)
  <2>1. CASE k < i
    BY <1>1, <2>1
  <2>2. CASE k >= i
    BY <1>1, <2>2
  <2>3. k \in Int /\ i \in Int
    BY <1>1
  <2>4. k < i \/ k >= i
    BY <2>3
  <2>5. QED
    BY <2>1, <2>2, <2>4
<1>3. AllDiffer(r)
  <2> SUFFICES ASSUME NEW k \in 1..Len(r), NEW m \in 1..Len(r), r[k] = r[m]
               PROVE  k = m
    BY DEF AllDiffer
  <2>1. PICK k2 \in 1..Len(s) : k2 # i /\ r[k] = s[k2] /\ k2 = (IF k < i THEN k ELSE k + 1)
    BY <1>2
  <2>2. PICK m2 \in 1..Len(s) : m2 # i /\ r[m] = s[m2] /\ m2 = (IF m < i THEN m ELSE m + 1)
    BY <1>2
  <2>3. k2 = m2
    BY <2>1, <2>2 DEF AllDiffer
  <2>4. QED
    BY <2>1, <2>2, <2>3
<1>4. \A k \in 1..Len(r) : r[k] \in ToSet(s) \ {s[i]}
  BY <1>2 DEF AllDiffer, ToSet
<1>5. ASSUME NEW m \in 1..Len(s), s[m] # s[i]
      PROVE  \E k \in 1..Len(r) : r[k] = s[m]
  <2>1. CASE m < i
    BY <1>1, <2>1
  <2>2. CASE m > i
    <3>1. m - 1 \in 1..Len(r) /\ ~(m - 1 < i) /\ (m - 1) + 1 = m
      BY <1>1, <2>2
    <3>2. r[m - 1] = s[m]
      BY <1>1, <3>1
    <3>3. QED
      BY <3>1, <3>2
  <2>3. QED
    BY <1>5, <2>1, <2>2
<1>6. DOMAIN r = 1..Len(r) /\ DOMAIN s = 1..Len(s)
  BY <1>1
<1>7. ToSet(r) = ToSet(s) \ {s[i]}
  <2>1. ToSet(r) = {r[k] : k \in 1..Len(r)} /\ ToSet(s) = {s[m] : m \in 1..Len(s)}
    BY <1>6, Zenon DEF ToSet
  <2>2. QED
    BY <1>4, <1>5, <2>1
<1>8. QED
  BY <1>3, <1>7 DEF r

-----------------------------------------------------------------------------
(* Counters that start again at zero after M. *)

LEMMA ModSame ==
  ASSUME NEW M \in Nat \ {0}, NEW x \in Int, 0 <= x, x < M
  PROVE  x % M = x
OBVIOUS

LEMMA ModBelow ==
  ASSUME NEW M \in Nat \ {0}, NEW x \in Int, -M <= x, x < 0
  PROVE  x % M = x + M
OBVIOUS

-----------------------------------------------------------------------------
(* Finite sets, and the sum of a function over one. *)

\* A set that has a subset of U whenever it has that subset without any one of its
\* members has every subset of U.
LEMMA EverySubset ==
  ASSUME NEW U, IsFiniteSet(U), NEW T,
         \A A \in SUBSET U : (\A x \in A : A \ {x} \in T) => A \in T
  PROVE  SUBSET U \subseteq T
<1> DEFINE K == {n \in Nat : \A A \in SUBSET U : Cardinality(A) = n => A \in T}
<1>1. \A A \in SUBSET U : IsFiniteSet(A) /\ Cardinality(A) \in Nat
  BY FS_Subset, FS_CardinalityType
<1>2. 0 \in K
  <2> SUFFICES ASSUME NEW A \in SUBSET U, Cardinality(A) = 0
               PROVE  A \in T
    OBVIOUS
  <2>1. A = {}
    BY <1>1, FS_EmptySet
  <2>2. QED
    BY <2>1
<1>3. ASSUME NEW n \in Nat, n \in K
      PROVE  n + 1 \in K
  <2> SUFFICES ASSUME NEW A \in SUBSET U, Cardinality(A) = n + 1
               PROVE  A \in T
    OBVIOUS
  <2>1. ASSUME NEW x \in A
        PROVE  A \ {x} \in T
    <3>1. Cardinality(A \ {x}) = Cardinality(A) - 1
      BY <1>1, FS_RemoveElement
    <3>2. Cardinality(A \ {x}) = n /\ A \ {x} \in SUBSET U
      BY <3>1
    <3>3. QED
      BY <1>3, <3>2
  <2>2. QED
    BY <2>1
<1>4. Nat \subseteq K
  <2> HIDE DEF K
  <2>1. QED
    BY <1>2, <1>3, EveryNumber
<1>5. QED
  BY <1>1, <1>4

\* What the sum of a set is made of: the element that is taken first, and the rest.
First(s) == CHOOSE x \in s : TRUE
SumFrom(fun, g, s) == IF s = {} THEN 0 ELSE fun[First(s)] + g[s \ {First(s)}]
Sums(fun, g, U) == g = [s \in SUBSET U |-> SumFrom(fun, g, s)]

LEMMA FirstIsMember == \A s : s # {} => First(s) \in s
BY Zenon DEF First

\* The sums of all subsets of a finite set.
LEMMA SumsExist ==
  ASSUME NEW U, IsFiniteSet(U), NEW fun
  PROVE  \E g : Sums(fun, g, U)
<1> DEFINE Small(n) == {s \in SUBSET U : Cardinality(s) <= n}
           Fits(g, n) == g = [s \in Small(n) |-> SumFrom(fun, g, s)]
           K == {n \in Nat : \E g : Fits(g, n)}
<1>1. \A s \in SUBSET U : IsFiniteSet(s) /\ Cardinality(s) \in Nat
  BY FS_Subset, FS_CardinalityType
<1>2. 0 \in K
  <2> DEFINE g == [s \in Small(0) |-> 0]
  <2>1. \A s \in Small(0) : s = {}
    BY <1>1, FS_EmptySet
  <2>2. \A s \in Small(0) : SumFrom(fun, g, s) = 0
    BY <2>1, Zenon DEF SumFrom
  <2>3. g = [s \in Small(0) |-> SumFrom(fun, g, s)]
    <3> HIDE DEF Small
    <3>1. QED
      BY <2>2
  <2> HIDE DEF g
  <2>4. QED
    BY <2>3
<1>3. ASSUME NEW n \in Nat, n \in K
      PROVE  n + 1 \in K
  <2>1. PICK g : Fits(g, n)
    BY <1>3, Zenon
  <2> DEFINE h == [s \in Small(n + 1) |-> SumFrom(fun, g, s)]
  <2>2. \A s \in Small(n) : s \in Small(n + 1) /\ g[s] = h[s]
    <3>1. \A s \in Small(n) : s \in Small(n + 1)
      BY <1>1
    <3> HIDE DEF Small
    <3>2. \A s \in Small(n) : g[s] = SumFrom(fun, g, s)
      BY <2>1, Zenon
    <3>3. \A s \in Small(n + 1) : h[s] = SumFrom(fun, g, s)
      BY Zenon
    <3>4. QED
      BY <3>1, <3>2, <3>3
  <2>3. ASSUME NEW s \in Small(n + 1)
        PROVE  SumFrom(fun, g, s) = SumFrom(fun, h, s)
    <3>1. CASE s = {}
      BY <3>1, Zenon DEF SumFrom
    <3>2. CASE s # {}
      <4>1. First(s) \in s
        BY <3>2, FirstIsMember
      <4>2. Cardinality(s \ {First(s)}) = Cardinality(s) - 1
        BY <1>1, <4>1, FS_RemoveElement
      <4>3. s \ {First(s)} \in Small(n)
        BY <1>1, <4>2
      <4>4. g[s \ {First(s)}] = h[s \ {First(s)}]
        BY <2>2, <4>3
      <4>5. QED
        BY <4>4, Zenon DEF SumFrom
    <3>3. QED
      BY <3>1, <3>2
  <2>4. Fits(h, n + 1)
    <3> HIDE DEF Small
    <3>1. QED
      BY <2>3
  <2> HIDE DEF h
  <2>5. QED
    BY <2>4
<1>4. Nat \subseteq K
  <2> HIDE DEF K
  <2>1. QED
    BY <1>2, <1>3, EveryNumber
<1>5. Cardinality(U) \in Nat /\ Small(Cardinality(U)) = SUBSET U
  BY <1>1, FS_Subset
<1>6. PICK g : Fits(g, Cardinality(U))
  BY <1>4, <1>5
<1>7. QED
  BY <1>5, <1>6, Zenon DEF Sums

\* There is one way to sum.
LEMMA SumsAgree ==
  ASSUME NEW U, IsFiniteSet(U), NEW fun, NEW g, Sums(fun, g, U),
         NEW S \in SUBSET U, NEW h, Sums(fun, h, S)
  PROVE  g[S] = h[S]
<1> DEFINE T == {s \in SUBSET S : g[s] = h[s]}
<1>1. ASSUME NEW A \in SUBSET S, \A x \in A : A \ {x} \in T
      PROVE  A \in T
  <2>1. g[A] = SumFrom(fun, g, A) /\ h[A] = SumFrom(fun, h, A)
    <3>1. A \in SUBSET U
      OBVIOUS
    <3>2. QED
      BY <3>1, Zenon DEF Sums
  <2>2. CASE A = {}
    BY <2>1, <2>2, Zenon DEF SumFrom
  <2>3. CASE A # {}
    <3>1. A \ {First(A)} \in T
      BY <1>1, <2>3, FirstIsMember
    <3>2. g[A \ {First(A)}] = h[A \ {First(A)}]
      BY <3>1
    <3>3. g[A] = h[A]
      BY <2>1, <3>2, Zenon DEF SumFrom
    <3>4. QED
      BY <3>3
  <2>4. QED
    BY <2>2, <2>3
<1>2. IsFiniteSet(S)
  BY FS_Subset
<1>3. SUBSET S \subseteq T
  <2> HIDE DEF T
  <2>1. QED
    BY <1>1, <1>2, EverySubset
<1>4. QED
  BY <1>3

\* SumFunctionOnSet is that way.
LEMMA SumIsOfSums ==
  ASSUME NEW U, IsFiniteSet(U), NEW fun, NEW g, Sums(fun, g, U), NEW S \in SUBSET U
  PROVE  SumFunctionOnSet(fun, S) = g[S]
<1> DEFINE f == CHOOSE h : h = [s \in SUBSET S |->
                  IF s = {} THEN 0
                  ELSE fun[CHOOSE x \in s : TRUE] + h[s \ {CHOOSE x \in s : TRUE}]]
<1>1. SumFunctionOnSet(fun, S) = f[S]
  BY Zenon DEF SumFunctionOnSet, FoldFunctionOnSet, MapThenFoldSet
<1>2. \E h : Sums(fun, h, S)
  BY FS_Subset, SumsExist
<1>3. Sums(fun, f, S)
  BY <1>2, Zenon DEF Sums, SumFrom, First
<1> HIDE DEF f
<1>4. QED
  BY <1>1, <1>3, SumsAgree

\* Any member may be taken first.
LEMMA SumTakesOut ==
  ASSUME NEW U, IsFiniteSet(U), NEW fun, \A x \in U : fun[x] \in Int
  PROVE  /\ SumFunctionOnSet(fun, {}) = 0
         /\ \A A \in SUBSET U : SumFunctionOnSet(fun, A) \in Int
         /\ \A A \in SUBSET U : \A x \in A :
              SumFunctionOnSet(fun, A) = fun[x] + SumFunctionOnSet(fun, A \ {x})
<1>1. PICK g : Sums(fun, g, U)
  BY SumsExist
<1>2. \A A \in SUBSET U : SumFunctionOnSet(fun, A) = g[A] /\ g[A] = SumFrom(fun, g, A)
  <2>1. \A A \in SUBSET U : SumFunctionOnSet(fun, A) = g[A]
    BY <1>1, SumIsOfSums
  <2>2. \A A \in SUBSET U : g[A] = SumFrom(fun, g, A)
    BY <1>1, Zenon DEF Sums
  <2>3. QED
    BY <2>1, <2>2
<1> DEFINE Good(A) == g[A] \in Int /\ \A x \in A : g[A \ {x}] \in Int /\ g[A] = fun[x] + g[A \ {x}]
           T == {A \in SUBSET U : Good(A)}
<1>3. g[{}] = 0
  BY <1>2, Zenon DEF SumFrom
<1>4. ASSUME NEW A \in SUBSET U, \A x \in A : A \ {x} \in T
      PROVE  A \in T
  <2>1. CASE A = {}
    BY <1>3, <2>1
  <2>2. CASE A # {}
    <3> DEFINE c == First(A)
    <3>1. c \in A /\ g[A] = fun[c] + g[A \ {c}]
      BY <1>2, <2>2, FirstIsMember, Zenon DEF SumFrom
    <3> HIDE DEF c
    <3>2. \A x \in A : fun[x] \in Int
      OBVIOUS
    <3>3. \A x \in A : Good(A \ {x})
      BY <1>4
    <3>4. \A x \in A : g[A \ {x}] \in Int
      BY <3>3
    <3>5. ASSUME NEW x \in A, x # c
          PROVE  g[A] = fun[x] + g[A \ {x}]
      <4>1. (A \ {x}) \ {c} = (A \ {c}) \ {x} /\ c \in A \ {x} /\ x \in A \ {c}
        BY <3>1, <3>5
      <4> DEFINE r == g[(A \ {x}) \ {c}]
      <4>2. r \in Int /\ g[A \ {x}] = fun[c] + r
        BY <3>3, <4>1
      <4>3. g[A \ {c}] = fun[x] + r
        BY <3>1, <3>3, <4>1
      <4>4. fun[c] \in Int /\ fun[x] \in Int
        BY <3>1, <3>2
      <4> HIDE DEF r
      <4>5. QED
        BY <3>1, <4>2, <4>3, <4>4
    <3>6. g[A] \in Int
      BY <3>1, <3>2, <3>4
    <3>7. Good(A)
      BY <3>1, <3>4, <3>5, <3>6
    <3>8. QED
      BY <3>7
  <2>3. QED
    BY <2>1, <2>2
<1>5. SUBSET U \subseteq T
  <2> HIDE DEF T
  <2>1. QED
    BY <1>4, EverySubset
<1>6. \A A \in SUBSET U : Good(A)
  BY <1>5
<1>7. \A A \in SUBSET U : \A x \in A : SumFunctionOnSet(fun, A \ {x}) = g[A \ {x}]
  BY <1>2
<1>8. {} \in SUBSET U
  OBVIOUS
<1>9. QED
  BY <1>2, <1>3, <1>6, <1>7, <1>8

\* No less is added for more.
LEMMA SumGrows ==
  ASSUME NEW U, IsFiniteSet(U), NEW fun, \A x \in U : fun[x] \in Nat
  PROVE  \A A \in SUBSET U : /\ SumFunctionOnSet(fun, A) \in Nat
                             /\ \A B \in SUBSET A : SumFunctionOnSet(fun, B) <= SumFunctionOnSet(fun, A)
<1> DEFINE Sum(A) == SumFunctionOnSet(fun, A)
           Good(A) == Sum(A) \in Nat /\ \A B \in SUBSET A : Sum(B) <= Sum(A)
           T == {A \in SUBSET U : Good(A)}
<1>1. /\ Sum({}) = 0
      /\ \A A \in SUBSET U : Sum(A) \in Int
      /\ \A A \in SUBSET U : \A x \in A : Sum(A) = fun[x] + Sum(A \ {x})
  <2>1. \A x \in U : fun[x] \in Int
    OBVIOUS
  <2>2. QED
    BY <2>1, SumTakesOut
<1>2. ASSUME NEW A \in SUBSET U, \A x \in A : A \ {x} \in T
      PROVE  A \in T
  <2>0. \A x \in A : Good(A \ {x})
    BY <1>2
  <2> HIDE DEF Sum
  <2>1. Sum(A) \in Nat
    <3>1. CASE A = {}
      BY <1>1, <3>1
    <3>2. ASSUME NEW x \in A
          PROVE  Sum(A) \in Nat
      <4>1. Sum(A) = fun[x] + Sum(A \ {x}) /\ fun[x] \in Nat
        BY <1>1
      <4>2. Sum(A \ {x}) \in Nat
        BY <2>0
      <4>3. QED
        BY <4>1, <4>2
    <3>3. QED
      BY <3>1, <3>2
  <2>2. ASSUME NEW B \in SUBSET A
        PROVE  Sum(B) <= Sum(A)
    <3>1. CASE B = A
      BY <2>1, <3>1
    <3>2. CASE B # A
      <4>1. PICK x \in A : B \in SUBSET (A \ {x})
        BY <3>2
      <4>2. Sum(B) <= Sum(A \ {x}) /\ Sum(A \ {x}) \in Nat
        BY <2>0, <4>1
      <4>3. Sum(A) = fun[x] + Sum(A \ {x}) /\ fun[x] \in Nat /\ Sum(B) \in Int
        BY <1>1
      <4>4. QED
        BY <4>2, <4>3
    <3>3. QED
      BY <3>1, <3>2
  <2>3. QED
    BY <2>1, <2>2
<1>3. SUBSET U \subseteq T
  <2> HIDE DEF T
  <2>1. QED
    BY <1>2, EverySubset
<1>4. QED
  BY <1>3

\* Two sets without a common member are summed one after the other.
LEMMA SumOfTwo ==
  ASSUME NEW U, IsFiniteSet(U), NEW fun, \A x \in U : fun[x] \in Int,
         NEW B \in SUBSET U
  PROVE  \A A \in SUBSET U : A \cap B = {} =>
           SumFunctionOnSet(fun, A \union B) = SumFunctionOnSet(fun, A) + SumFunctionOnSet(fun, B)
<1> DEFINE Sum(A) == SumFunctionOnSet(fun, A)
           Good(A) == A \cap B = {} => Sum(A \union B) = Sum(A) + Sum(B)
           T == {A \in SUBSET U : Good(A)}
<1>1. /\ Sum({}) = 0
      /\ \A A \in SUBSET U : Sum(A) \in Int
      /\ \A A \in SUBSET U : \A x \in A : Sum(A) = fun[x] + Sum(A \ {x})
  BY SumTakesOut
<1>2. ASSUME NEW A \in SUBSET U, \A x \in A : A \ {x} \in T
      PROVE  A \in T
  <2>0. \A x \in A : Good(A \ {x})
    BY <1>2
  <2> HIDE DEF Sum
  <2> SUFFICES ASSUME A \cap B = {}
               PROVE  Sum(A \union B) = Sum(A) + Sum(B)
    OBVIOUS
  <2>1. CASE A = {}
    <3>1. {} \union B = B
      OBVIOUS
    <3>2. QED
      BY <1>1, <2>1, <3>1
  <2>2. ASSUME NEW x \in A
        PROVE  Sum(A \union B) = Sum(A) + Sum(B)
    <3>1. (A \union B) \ {x} = (A \ {x}) \union B /\ (A \ {x}) \cap B = {} /\ A \union B \in SUBSET U
      OBVIOUS
    <3>2. Sum((A \ {x}) \union B) = Sum(A \ {x}) + Sum(B)
      BY <2>0, <3>1
    <3>3. Sum(A \union B) = fun[x] + Sum((A \ {x}) \union B) /\ Sum(A) = fun[x] + Sum(A \ {x})
      BY <1>1, <3>1
    <3>4. fun[x] \in Int /\ Sum(A \ {x}) \in Int /\ Sum(B) \in Int
      BY <1>1
    <3>5. QED
      BY <3>2, <3>3, <3>4
  <2>3. QED
    BY <2>1, <2>2
<1>3. SUBSET U \subseteq T
  <2> HIDE DEF T
  <2>1. QED
    BY <1>2, EverySubset
<1>4. QED
  BY <1>3

\* Functions that agree on a set have the same sum over it.
LEMMA SumOfSame ==
  ASSUME NEW U, IsFiniteSet(U), NEW fun, \A x \in U : fun[x] \in Int,
         NEW other, \A x \in U : other[x] = fun[x]
  PROVE  SumFunctionOnSet(other, U) = SumFunctionOnSet(fun, U)
<1> DEFINE T == {A \in SUBSET U : SumFunctionOnSet(other, A) = SumFunctionOnSet(fun, A)}
<1>1. \A x \in U : other[x] \in Int
  OBVIOUS
<1>2. ASSUME NEW A \in SUBSET U, \A x \in A : A \ {x} \in T
      PROVE  A \in T
  <2>1. CASE A = {}
    BY <1>1, <2>1, SumTakesOut
  <2>2. ASSUME NEW x \in A
        PROVE  A \in T
    <3>1. SumFunctionOnSet(other, A) = other[x] + SumFunctionOnSet(other, A \ {x})
      BY <1>1, SumTakesOut
    <3>2. SumFunctionOnSet(fun, A) = fun[x] + SumFunctionOnSet(fun, A \ {x})
      BY SumTakesOut
    <3>3. SumFunctionOnSet(other, A \ {x}) = SumFunctionOnSet(fun, A \ {x}) /\ other[x] = fun[x]
      BY <1>2
    <3>4. QED
      BY <3>1, <3>2, <3>3
  <2>3. QED
    BY <2>1, <2>2
<1>3. SUBSET U \subseteq T
  <2> HIDE DEF T
  <2>1. QED
    BY <1>2, EverySubset
<1>4. QED
  BY <1>3

\* The sums of parts that have nothing in common are together no more than the sum of
\* the whole.
LEMMA SumOfParts ==
  ASSUME NEW U, IsFiniteSet(U), NEW fun, \A x \in U : fun[x] \in Nat,
         NEW R, IsFiniteSet(R), NEW part, \A r \in R : part[r] \in SUBSET U,
         \A r, s \in R : r # s => part[r] \cap part[s] = {},
         NEW total, \A r \in R : total[r] = SumFunctionOnSet(fun, part[r])
  PROVE  SumFunctionOnSet(total, R) <= SumFunctionOnSet(fun, U)
<1> DEFINE Joined(A) == UNION {part[r] : r \in A}
           Sum(A) == SumFunctionOnSet(fun, A)
           Total(A) == SumFunctionOnSet(total, A)
           T == {A \in SUBSET R : Total(A) = Sum(Joined(A))}
<1>1. \A A \in SUBSET U : Sum(A) \in Nat /\ \A B \in SUBSET A : Sum(B) <= Sum(A)
  BY SumGrows
<1>2. /\ Total({}) = 0
      /\ \A A \in SUBSET R : \A x \in A : Total(A) = total[x] + Total(A \ {x})
  <2>1. \A r \in R : total[r] \in Int
    BY <1>1
  <2>2. QED
    BY <2>1, SumTakesOut
<1>3. \A A \in SUBSET R : Joined(A) \in SUBSET U
  OBVIOUS
<1>4. ASSUME NEW A \in SUBSET R, \A x \in A : A \ {x} \in T
      PROVE  A \in T
  <2>1. CASE A = {}
    <3>1. Joined({}) = {}
      OBVIOUS
    <3>2. Sum({}) = 0
      BY SumTakesOut
    <3>3. QED
      BY <1>2, <2>1, <3>1, <3>2
  <2>2. ASSUME NEW x \in A
        PROVE  A \in T
    <3>1. Joined(A) = part[x] \union Joined(A \ {x})
      OBVIOUS
    <3>2. part[x] \cap Joined(A \ {x}) = {}
      OBVIOUS
    <3>3. part[x] \in SUBSET U /\ Joined(A \ {x}) \in SUBSET U
      BY <1>3
    <3>4. \A y \in U : fun[y] \in Int
      OBVIOUS
    <3> DEFINE a == part[x]
               b == Joined(A \ {x})
    <3>5. a \in SUBSET U /\ b \in SUBSET U /\ a \cap b = {}
      BY <3>2, <3>3
    <3>6. Sum(a \union b) = Sum(a) + Sum(b)
      <4> HIDE DEF a, b
      <4>1. QED
        BY <3>4, <3>5, SumOfTwo
    <3>7. Total(A) = total[x] + Total(A \ {x}) /\ total[x] = Sum(a) /\ Total(A \ {x}) = Sum(b)
      BY <1>2, <1>4
    <3>8. Total(A) = Sum(Joined(A))
      <4> HIDE DEF Sum, Total, Joined
      <4>1. QED
        BY <3>1, <3>6, <3>7
    <3>9. QED
      BY <3>8
  <2>3. QED
    BY <2>1, <2>2
<1>5. SUBSET R \subseteq T
  <2> HIDE DEF T
  <2>1. QED
    BY <1>4, EverySubset
<1>6. Total(R) = Sum(Joined(R)) /\ Joined(R) \in SUBSET U
  BY <1>3, <1>5
<1>7. QED
  <2> HIDE DEF Joined
  <2>1. QED
    BY <1>1, <1>6

\* A function that changes at one member.
LEMMA SumChanged ==
  ASSUME NEW U, IsFiniteSet(U), NEW fun \in [U -> Int], NEW other \in [U -> Int], NEW x \in U,
         \A z \in U : z # x => other[z] = fun[z]
  PROVE  SumFunctionOnSet(other, U) = SumFunctionOnSet(fun, U) - fun[x] + other[x]
<1> DEFINE V == U \ {x}
<1>1. IsFiniteSet(V)
  BY FS_RemoveElement
<1>2. (\A z \in U : fun[z] \in Int) /\ (\A z \in U : other[z] \in Int) /\ U \in SUBSET U /\ V \in SUBSET U
  OBVIOUS
<1>3. /\ SumFunctionOnSet(fun, U) = fun[x] + SumFunctionOnSet(fun, V) /\ SumFunctionOnSet(fun, V) \in Int
      /\ SumFunctionOnSet(other, U) = other[x] + SumFunctionOnSet(other, V)
  <2>1. SumFunctionOnSet(fun, U) = fun[x] + SumFunctionOnSet(fun, V) /\ SumFunctionOnSet(fun, V) \in Int
    BY <1>2, SumTakesOut
  <2>2. SumFunctionOnSet(other, U) = other[x] + SumFunctionOnSet(other, V)
    BY <1>2, SumTakesOut
  <2>3. QED
    BY <2>1, <2>2
<1>4. \A z \in V : other[z] = fun[z] /\ fun[z] \in Int
  BY <1>2
<1>5. SumFunctionOnSet(other, V) = SumFunctionOnSet(fun, V)
  <2> HIDE DEF V
  <2>1. QED
    BY <1>1, <1>4, SumOfSame
<1> HIDE DEF V
<1>6. fun[x] \in Int /\ other[x] \in Int
  BY <1>2
<1>7. QED
  BY <1>3, <1>5, <1>6

\* The sum of ones is the number of members.
LEMMA SumOfOnes ==
  ASSUME NEW U, IsFiniteSet(U)
  PROVE  SumFunctionOnSet([x \in U |-> 1], U) = Cardinality(U)
<1> DEFINE ones == [x \in U |-> 1]
           T == {A \in SUBSET U : SumFunctionOnSet(ones, A) = Cardinality(A)}
<1>1. \A x \in U : ones[x] = 1 /\ ones[x] \in Int
  OBVIOUS
<1> HIDE DEF ones
<1>2. ASSUME NEW A \in SUBSET U, \A x \in A : A \ {x} \in T
      PROVE  A \in T
  <2>0. IsFiniteSet(A) /\ Cardinality(A) \in Nat
    BY FS_Subset, FS_CardinalityType
  <2>1. CASE A = {}
    BY <1>1, <2>1, SumTakesOut, FS_EmptySet
  <2>2. ASSUME NEW x \in A
        PROVE  A \in T
    <3>1. SumFunctionOnSet(ones, A) = ones[x] + SumFunctionOnSet(ones, A \ {x})
      BY <1>1, SumTakesOut
    <3>2. Cardinality(A \ {x}) = Cardinality(A) - 1
      BY <2>0, FS_RemoveElement
    <3>3. SumFunctionOnSet(ones, A \ {x}) = Cardinality(A \ {x}) /\ ones[x] = 1
      BY <1>1, <1>2
    <3>4. QED
      BY <2>0, <3>1, <3>2, <3>3
  <2>3. QED
    BY <2>1, <2>2
<1>3. SUBSET U \subseteq T
  <2> HIDE DEF T
  <2>1. QED
    BY <1>2, EverySubset
<1>4. QED
  BY <1>3 DEF ones

-----------------------------------------------------------------------------
(* Functions that are defined step by step, and what they are used for:     *)
(* sequences joined to one.                                                 *)

\* What is defined of a number by what it is of the number before exists.
Stepwise(f, base, n, step) == f[0] = base /\ \A i \in 1..n : f[i] = step[<<i, f[i - 1]>>]

LEMMA StepByStep ==
  ASSUME NEW V, NEW base \in V, NEW n \in Nat, NEW step, \A i \in 1..n : \A v \in V : step[<<i, v>>] \in V
  PROVE  \E f : f \in [0..n -> V] /\ Stepwise(f, base, n, step)
<1> DEFINE Fits(f, m) == f[0] = base /\ \A i \in 1..m : f[i] = step[<<i, f[i - 1]>>]
           T == {m \in Nat : m <= n => \E f \in [0..m -> V] : Fits(f, m)}
<1>1. 0 \in T
  <2> DEFINE f == [i \in 0..0 |-> base]
  <2>1. f \in [0..0 -> V] /\ Fits(f, 0)
    OBVIOUS
  <2>2. QED
    BY <2>1
<1>2. ASSUME NEW m \in Nat, m \in T
      PROVE  m + 1 \in T
  <2> SUFFICES ASSUME m + 1 <= n
               PROVE  \E f \in [0..(m + 1) -> V] : Fits(f, m + 1)
    OBVIOUS
  <2>1. PICK f \in [0..m -> V] : Fits(f, m)
    BY <1>2
  <2> DEFINE v == step[<<m + 1, f[m]>>]
             g == [i \in 0..(m + 1) |-> IF i = m + 1 THEN v ELSE f[i]]
  <2>2. v \in V
    BY <2>1, m + 1 \in 1..n
  <2>3. g \in [0..(m + 1) -> V]
    BY <2>1, <2>2
  <2>4. g[m + 1] = v /\ \A i \in 0..m : g[i] = f[i]
    OBVIOUS
  <2> HIDE DEF g
  <2>5. \A i \in 1..(m + 1) : g[i] = step[<<i, g[i - 1]>>]
    <3>1. \A i \in 1..m : g[i] = f[i] /\ g[i - 1] = f[i - 1]
      BY <2>4
    <3>2. g[m + 1] = step[<<m + 1, g[(m + 1) - 1]>>]
      BY <2>4
    <3>3. \A i \in 1..(m + 1) : i \in 1..m \/ i = m + 1
      OBVIOUS
    <3>4. QED
      BY <2>1, <3>1, <3>2, <3>3
  <2>6. QED
    BY <2>1, <2>3, <2>4, <2>5
<1>3. n \in T
  <2> HIDE DEF T
  <2>1. QED
    BY <1>1, <1>2, EveryNumber
<1>4. QED
  BY <1>3 DEF Stepwise

\* The sequences that are joined one after the other.
JoinedBy(ss, f) ==
  f = [i \in 1..Len(ss) |-> IF i = 1 THEN ss[i] ELSE f[i - 1] \o ss[i]]

LEMMA FlattenIs ==
  ASSUME NEW S, NEW ss \in Seq(Seq(S)), ss # <<>>
  PROVE  \E f \in [1..Len(ss) -> Seq(S)] : JoinedBy(ss, f) /\ FlattenSeq(ss) = f[Len(ss)]
<1> DEFINE n == Len(ss)
<1>1. n \in Nat \ {0} /\ \A i \in 1..n : ss[i] \in Seq(S)
  OBVIOUS
<1> HIDE DEF n
<1>2. \E h : h = [i \in 1..n |-> IF i = 1 THEN ss[i] ELSE h[i - 1] \o ss[i]]
  <2> DEFINE V == Seq(S)
             step == [p \in (1..n) \X V |-> p[2] \o ss[p[1]]]
             none == <<>>
  <2>1. \A i \in 1..n : \A v \in V : step[<<i, v>>] \in V
    BY <1>1
  <2>2. none \in V
    OBVIOUS
  <2>3. \A i \in 1..n : \A s \in V : step[<<i, s>>] = s \o ss[i]
    OBVIOUS
  <2> HIDE DEF step, V, none
  <2>4. PICK f \in [0..n -> V] : f[0] = none /\ \A i \in 1..n : f[i] = step[<<i, f[i - 1]>>]
    <3>1. n \in Nat
      BY <1>1
    <3>2. \E f : f \in [0..n -> V] /\ Stepwise(f, none, n, step)
      BY <2>1, <2>2, <3>1, StepByStep, Zenon
    <3>3. QED
      BY <3>2, Zenon DEF Stepwise
  <2> DEFINE h == [i \in 1..n |-> f[i]]
  <2>5. \A i \in 1..n : h[i] = f[i - 1] \o ss[i]
    <3>1. \A i \in 1..n : i - 1 \in 0..n
      BY <1>1
    <3>2. QED
      BY <2>3, <2>4, <3>1
  <2>6. \A i \in 1..n : h[i] = IF i = 1 THEN ss[i] ELSE h[i - 1] \o ss[i]
    <3>1. ss[1] \in Seq(S) /\ h[1] = <<>> \o ss[1]
      <4>1. 1 \in 1..n /\ 1 - 1 = 0
        BY <1>1
      <4>2. h[1] = f[0] \o ss[1]
        BY <2>5, <4>1
      <4>3. QED
        BY <1>1, <2>4, <4>1, <4>2 DEF none
    <3>2. h[1] = ss[1]
      BY <3>1, ConcatEmptySeq
    <3>3. \A i \in 1..n : i # 1 => i - 1 \in 1..n /\ h[i - 1] = f[i - 1]
      BY <1>1
    <3> HIDE DEF h
    <3>4. QED
      BY <2>5, <3>2, <3>3
  <2>7. h = [i \in 1..n |-> h[i]]
    OBVIOUS
  <2> HIDE DEF h
  <2>8. h = [i \in 1..n |-> IF i = 1 THEN ss[i] ELSE h[i - 1] \o ss[i]]
    BY <2>6, <2>7
  <2>9. QED
    BY <2>8
<1> DEFINE f == CHOOSE h : h = [i \in 1..n |-> IF i = 1 THEN ss[i] ELSE h[i - 1] \o ss[i]]
<1>3. FlattenSeq(ss) = f[n]
  BY <1>1, Zenon DEF FlattenSeq, n
<1>4. f = [i \in 1..n |-> IF i = 1 THEN ss[i] ELSE f[i - 1] \o ss[i]]
  BY <1>2, Zenon
<1> HIDE DEF f
<1>5. \A i \in 1..n : f[i] \in Seq(S)
  <2> DEFINE T == {m \in Nat : m \in 1..n => f[m] \in Seq(S)}
  <2>1. 0 \in T
    OBVIOUS
  <2>2. ASSUME NEW m \in Nat, m \in T
        PROVE  m + 1 \in T
    <3> SUFFICES ASSUME m + 1 \in 1..n
                 PROVE  f[m + 1] \in Seq(S)
      OBVIOUS
    <3>1. f[m + 1] = IF m + 1 = 1 THEN ss[m + 1] ELSE f[(m + 1) - 1] \o ss[m + 1]
      BY <1>4
    <3>2. ss[m + 1] \in Seq(S)
      BY <1>1
    <3>3. CASE m = 0
      BY <3>1, <3>2, <3>3
    <3>4. CASE m # 0
      <4>1. (m + 1) - 1 = m /\ m \in 1..n
        BY <1>1, <3>4
      <4>2. f[m] \in Seq(S)
        BY <2>2, <4>1
      <4>3. f[m + 1] = f[m] \o ss[m + 1]
        <5>1. m + 1 # 1
          BY <3>4
        <5>2. QED
          BY <3>1, <4>1, <5>1
      <4>4. QED
        BY <3>2, <4>2, <4>3
    <3>5. QED
      BY <3>3, <3>4
  <2>3. Nat \subseteq T
    <3> HIDE DEF T
    <3>1. QED
      BY <2>1, <2>2, EveryNumber
  <2>4. QED
    BY <1>1, <2>3
<1>6. f \in [1..n -> Seq(S)]
  BY <1>4, <1>5
<1>7. QED
  BY <1>3, <1>4, <1>6, Zenon DEF JoinedBy, n

\* What is joined to a sequence of sequences comes at the end of what they are joined to.
LEMMA FlattenAppend ==
  ASSUME NEW S, NEW ss \in Seq(Seq(S)), NEW s \in Seq(S)
  PROVE  /\ FlattenSeq(ss) \in Seq(S)
         /\ FlattenSeq(Append(ss, s)) = FlattenSeq(ss) \o s
<1> DEFINE tt == Append(ss, s)
           n == Len(ss)
<1>1. /\ tt \in Seq(Seq(S)) /\ tt # <<>> /\ Len(tt) = n + 1 /\ n \in Nat
      /\ tt[n + 1] = s /\ \A i \in 1..n : tt[i] = ss[i]
  <2> DEFINE V == Seq(S)
  <2>1. ss \in Seq(V) /\ s \in V /\ n \in Nat
    OBVIOUS
  <2> HIDE DEF V
  <2>2. QED
    BY <2>1, AppendProperties DEF V
<1> HIDE DEF tt, n
<1>2. PICK g \in [1..Len(tt) -> Seq(S)] : JoinedBy(tt, g) /\ FlattenSeq(tt) = g[Len(tt)]
  BY <1>1, FlattenIs
<1>3. \A i \in 1..(n + 1) : g[i] = IF i = 1 THEN tt[i] ELSE g[i - 1] \o tt[i]
  BY <1>1, <1>2 DEF JoinedBy
<1>4. CASE n = 0
  <2>1. ss = <<>> /\ FlattenSeq(ss) = <<>>
    <3>1. ss = <<>>
      BY <1>4 DEF n
    <3>2. Len(ss) = 0
      BY <1>4 DEF n
    <3>3. QED
      BY <3>1, <3>2, Zenon DEF FlattenSeq
  <2>2. FlattenSeq(tt) = s
    BY <1>1, <1>2, <1>3, <1>4
  <2>3. <<>> \in Seq(S) /\ <<>> \o s = s
    BY ConcatEmptySeq
  <2>4. QED
    BY <2>1, <2>2, <2>3 DEF tt
<1>5. CASE n # 0
  <2>1. ss # <<>>
    BY <1>5 DEF n
  <2>2. PICK f \in [1..n -> Seq(S)] : JoinedBy(ss, f) /\ FlattenSeq(ss) = f[n]
    BY <2>1, FlattenIs DEF n
  <2>3. \A i \in 1..n : f[i] = IF i = 1 THEN ss[i] ELSE f[i - 1] \o ss[i]
    BY <2>2 DEF JoinedBy, n
  <2> DEFINE T == {m \in Nat : m \in 1..n => f[m] = g[m]}
  <2>4. 0 \in T
    OBVIOUS
  <2>5. ASSUME NEW m \in Nat, m \in T
        PROVE  m + 1 \in T
    <3> SUFFICES ASSUME m + 1 \in 1..n
                 PROVE  f[m + 1] = g[m + 1]
      OBVIOUS
    <3>1. m + 1 \in 1..(n + 1) /\ (m + 1) - 1 = m
      BY <1>1
    <3>2. f[m + 1] = IF m + 1 = 1 THEN ss[m + 1] ELSE f[m] \o ss[m + 1]
      BY <2>3, <3>1
    <3>3. g[m + 1] = IF m + 1 = 1 THEN tt[m + 1] ELSE g[m] \o tt[m + 1]
      BY <1>3, <3>1
    <3>4. tt[m + 1] = ss[m + 1]
      BY <1>1
    <3>5. m # 0 => f[m] = g[m]
      BY <1>1, <2>5
    <3>6. QED
      BY <3>2, <3>3, <3>4, <3>5
  <2>6. Nat \subseteq T
    <3> HIDE DEF T
    <3>1. QED
      BY <2>4, <2>5, EveryNumber
  <2>7. f[n] = g[n]
    BY <1>1, <1>5, <2>6
  <2>8. g[n + 1] = g[n] \o s
    <3>1. n + 1 \in 1..(n + 1) /\ n + 1 # 1 /\ (n + 1) - 1 = n
      BY <1>1, <1>5
    <3>2. QED
      BY <1>1, <1>3, <3>1
  <2>9. QED
    BY <1>1, <1>2, <1>5, <2>2, <2>7, <2>8 DEF tt
<1>6. QED
  BY <1>4, <1>5

LEMMA FlattenNone == FlattenSeq(<<>>) = <<>>
<1>1. Len(<<>>) = 0
  OBVIOUS
<1>2. QED
  BY <1>1, Zenon DEF FlattenSeq

\* Two halves joined are the whole joined.
LEMMA FlattenConcat ==
  ASSUME NEW S, NEW ss \in Seq(Seq(S)), NEW tt \in Seq(Seq(S))
  PROVE  FlattenSeq(ss \o tt) = FlattenSeq(ss) \o FlattenSeq(tt)
<1> DEFINE Good(u) == FlattenSeq(ss \o u) = FlattenSeq(ss) \o FlattenSeq(u)
           T == {n \in Nat : \A u \in Seq(Seq(S)) : Len(u) = n => Good(u)}
<1>1. 0 \in T
  <2> SUFFICES ASSUME NEW u \in Seq(Seq(S)), Len(u) = 0
               PROVE  Good(u)
    OBVIOUS
  <2>1. u = <<>>
    OBVIOUS
  <2>2. ss \o <<>> = ss
    BY ConcatEmptySeq
  <2>3. FlattenSeq(ss) \in Seq(S)
    BY FlattenAppend, <<>> \in Seq(S)
  <2>4. FlattenSeq(ss) \o <<>> = FlattenSeq(ss)
    BY <2>3, ConcatEmptySeq
  <2>5. QED
    BY <2>1, <2>2, <2>4, FlattenNone
<1>2. ASSUME NEW n \in Nat, n \in T
      PROVE  n + 1 \in T
  <2> SUFFICES ASSUME NEW u \in Seq(Seq(S)), Len(u) = n + 1
               PROVE  Good(u)
    OBVIOUS
  <2>1. PICK v \in Seq(Seq(S)), s \in Seq(S) : u = Append(v, s)
    BY u # <<>>, SequenceEmptyOrAppend
  <2>2. Len(v) = n
    BY <2>1
  <2>3. FlattenSeq(ss \o v) = FlattenSeq(ss) \o FlattenSeq(v)
    BY <1>2, <2>2
  <2>4. ss \o v \in Seq(Seq(S)) /\ ss \o u = Append(ss \o v, s)
    <3>1. ss \o v \in Seq(Seq(S))
      BY ConcatProperties
    <3>2. <<s>> \in Seq(Seq(S))
      OBVIOUS
    <3>3. Append(ss \o v, s) = (ss \o v) \o <<s>> /\ u = v \o <<s>>
      BY <2>1, <3>1, AppendIsConcat
    <3>4. (ss \o v) \o <<s>> = ss \o (v \o <<s>>)
      <4> DEFINE V == Seq(S)
                 w == <<s>>
      <4>1. ss \in Seq(V) /\ v \in Seq(V) /\ w \in Seq(V)
        BY <3>2
      <4> HIDE DEF V, w
      <4>2. (ss \o v) \o w = ss \o (v \o w)
        BY <4>1, ConcatAssociative, SMTT(30)
      <4>3. QED
        BY <4>2 DEF w
    <3>5. QED
      BY <3>1, <3>3, <3>4
  <2>5. FlattenSeq(ss \o u) = (FlattenSeq(ss) \o FlattenSeq(v)) \o s
    BY <2>3, <2>4, FlattenAppend, ZenonT(60)
  <2>6. FlattenSeq(u) = FlattenSeq(v) \o s
    BY <2>1, FlattenAppend
  <2>7. FlattenSeq(ss) \in Seq(S) /\ FlattenSeq(v) \in Seq(S)
    BY FlattenAppend, <<>> \in Seq(S)
  <2> DEFINE a == FlattenSeq(ss)
             b == FlattenSeq(v)
  <2>8. (a \o b) \o s = a \o (b \o s)
    <3>1. a \in Seq(S) /\ b \in Seq(S)
      BY <2>7
    <3> HIDE DEF a, b
    <3>2. QED
      BY <3>1, ConcatAssociative, SMTT(30)
  <2>9. QED
    BY <2>5, <2>6, <2>8
<1>3. Len(tt) \in Nat /\ Nat \subseteq T
  <2>1. Len(tt) \in Nat
    OBVIOUS
  <2> HIDE DEF T
  <2>2. QED
    BY <1>1, <1>2, <2>1, EveryNumber
<1>4. QED
  BY <1>3

\* A sequence of sequences whose last one becomes longer by an element.
Longer(ss, c) == [ss EXCEPT ![Len(ss)] = Append(@, c)]

LEMMA LongerLast ==
  ASSUME NEW S, NEW ss \in Seq(Seq(S)), NEW c \in S
  PROVE  /\ Longer(ss, c) \in Seq(Seq(S)) /\ Len(Longer(ss, c)) = Len(ss)
         /\ ss # <<>> =>
              /\ FlattenSeq(Longer(ss, c)) = FlattenSeq(ss) \o <<c>>
              /\ Longer(ss, c)[Len(ss)] = Append(ss[Len(ss)], c)
              /\ \A i \in 1..(Len(ss) - 1) : Longer(ss, c)[i] = ss[i]
<1> DEFINE V == Seq(S)
           n == Len(ss)
           new == Longer(ss, c)
<1>1. /\ n \in Nat /\ new = [i \in 1..n |-> IF i = n THEN Append(ss[n], c) ELSE ss[i]]
      /\ \A i \in 1..n : ss[i] \in V
  <2> HIDE DEF V, n
  <2>1. n \in Nat /\ DOMAIN ss = 1..n /\ \A i \in 1..n : ss[i] \in V
    BY DEF V, n
  <2>2. new = [i \in DOMAIN ss |-> IF i = n THEN Append(ss[n], c) ELSE ss[i]]
    BY Zenon DEF Longer, n
  <2>3. QED
    BY <2>1, <2>2
<1>2. new \in Seq(V) /\ Len(new) = n
  <2>1. \A i \in 1..n : Append(ss[i], c) \in V
    BY <1>1
  <2> HIDE DEF V, n, new
  <2>2. new \in [1..n -> V]
    BY <1>1, <2>1
  <2>3. QED
    BY <1>1, <2>2
<1>3. ASSUME ss # <<>>
      PROVE  /\ FlattenSeq(new) = FlattenSeq(ss) \o <<c>>
             /\ new[n] = Append(ss[n], c)
             /\ \A i \in 1..(n - 1) : new[i] = ss[i]
  <2>1. PICK v \in Seq(V), s \in V : ss = Append(v, s)
    BY <1>3, SequenceEmptyOrAppend
  <2> DEFINE t == Append(s, c)
  <2>2. t \in V /\ t = s \o <<c>>
    BY <2>1, AppendIsConcat
  <2>3. n = Len(v) + 1 /\ Len(v) \in Nat /\ ss[n] = s /\ \A i \in 1..Len(v) : ss[i] = v[i]
    <3> HIDE DEF V
    <3>1. QED
      BY <2>1, AppendProperties
  <2>4. new[n] = t /\ new[n] = Append(ss[n], c) /\ \A i \in 1..(n - 1) : new[i] = ss[i]
    BY <1>1, <2>3
  <2>5. new = Append(v, t)
    <3> HIDE DEF V, n, new, t
    <3>1. /\ Append(v, t) \in Seq(V) /\ Len(Append(v, t)) = Len(v) + 1
          /\ \A i \in 1..Len(v) : Append(v, t)[i] = v[i]
          /\ Append(v, t)[Len(v) + 1] = t
      BY <2>1, <2>2, AppendProperties
    <3>2. \A i \in 1..n : new[i] = Append(v, t)[i]
      <4>1. \A i \in 1..n : i \in 1..Len(v) \/ i = Len(v) + 1
        BY <2>3
      <4>2. n - 1 = Len(v)
        BY <2>3
      <4>3. QED
        BY <2>3, <2>4, <3>1, <4>1, <4>2
    <3>3. QED
      BY <1>2, <2>3, <3>1, <3>2, SeqEqual
  <2>6. /\ FlattenSeq(v) \in Seq(S) /\ FlattenSeq(new) = FlattenSeq(v) \o t
        /\ FlattenSeq(ss) = FlattenSeq(v) \o s
    BY <2>1, <2>2, <2>5, FlattenAppend
  <2>7. FlattenSeq(v) \o t = (FlattenSeq(v) \o s) \o <<c>>
    <3> DEFINE a == FlattenSeq(v)
               b == <<c>>
    <3>1. a \in Seq(S) /\ b \in Seq(S) /\ s \in Seq(S)
      BY <2>6
    <3> HIDE DEF a, b
    <3>2. (a \o s) \o b = a \o (s \o b)
      BY <3>1, ConcatAssociative, SMTT(30)
    <3>3. QED
      BY <2>2, <3>2 DEF a, b
  <2>8. QED
    <3> HIDE DEF new, t, n
    <3>1. QED
      BY <2>4, <2>6, <2>7
<1>4. QED
  BY <1>2, <1>3

LEMMA LongerAppended ==
  \A S : \A ss \in Seq(Seq(S)) : \A s \in Seq(S) : \A c \in S :
    Longer(Append(ss, s), c) = Append(ss, Append(s, c))
<1> SUFFICES ASSUME NEW S, NEW ss \in Seq(Seq(S)), NEW s \in Seq(S), NEW c \in S
             PROVE  Longer(Append(ss, s), c) = Append(ss, Append(s, c))
  BY Zenon
<1> DEFINE V == Seq(S)
           t == Append(s, c)
           old == Append(ss, s)
           new == Append(ss, t)
           longer == Longer(old, c)
           n == Len(ss)
<1>1. t \in V /\ s \in V /\ ss \in Seq(V) /\ n \in Nat
  OBVIOUS
<1>2. /\ old \in Seq(V) /\ old # <<>> /\ Len(old) = n + 1 /\ old[n + 1] = s
      /\ \A i \in 1..n : old[i] = ss[i]
  <2> HIDE DEF V
  <2>1. QED
    BY <1>1, AppendProperties
<1>3. /\ new \in Seq(V) /\ Len(new) = n + 1 /\ new[n + 1] = t
      /\ \A i \in 1..n : new[i] = ss[i]
  <2> HIDE DEF V, t
  <2>1. QED
    BY <1>1, AppendProperties
<1> HIDE DEF old, new
<1>4. /\ longer \in Seq(V) /\ Len(longer) = n + 1
      /\ longer[n + 1] = t /\ \A i \in 1..n : longer[i] = ss[i]
  <2>1. longer \in Seq(V) /\ Len(longer) = Len(old)
    BY <1>2, LongerLast
  <2>2. /\ longer[Len(old)] = Append(old[Len(old)], c)
        /\ \A i \in 1..(Len(old) - 1) : longer[i] = old[i]
    BY <1>2, LongerLast
  <2>3. Len(old) - 1 = n
    BY <1>1, <1>2
  <2> HIDE DEF longer, V
  <2>4. QED
    BY <1>2, <2>1, <2>2, <2>3
<1> HIDE DEF longer, V, t, n
<1>5. \A i \in 1..Len(longer) : longer[i] = new[i]
  <2>1. \A i \in 1..(n + 1) : i \in 1..n \/ i = n + 1
    BY <1>1
  <2>2. QED
    BY <1>3, <1>4, <2>1
<1>6. longer = new
  BY <1>3, <1>4, <1>5, SeqEqual
<1>7. QED
  BY <1>6 DEF longer, new, old, t

\* Where each of the joined sequences begins in the whole, one less than its first place.
Places(ss, at) ==
  /\ at \in [1..(Len(ss) + 1) -> Nat]
  /\ at[Len(ss) + 1] = Len(FlattenSeq(ss))
  /\ \A i \in 1..Len(ss) : at[i + 1] = at[i] + Len(ss[i])
  /\ \A i, j \in 1..(Len(ss) + 1) : i <= j => at[i] <= at[j]
  /\ \A i \in 1..Len(ss) : \A j \in 1..Len(ss[i]) : FlattenSeq(ss)[at[i] + j] = ss[i][j]
  /\ \A k \in 1..Len(FlattenSeq(ss)) : \E i \in 1..Len(ss) : \E j \in 1..Len(ss[i]) : k = at[i] + j

LEMMA PlacesExist ==
  ASSUME NEW S, NEW tt \in Seq(Seq(S))
  PROVE  \E at : Places(tt, at)
<1> DEFINE T == {n \in Nat : \A ss \in Seq(Seq(S)) : Len(ss) = n => \E at : Places(ss, at)}
<1>1. 0 \in T
  <2> SUFFICES ASSUME NEW ss \in Seq(Seq(S)), Len(ss) = 0
               PROVE  \E at : Places(ss, at)
    OBVIOUS
  <2>1. ss = <<>>
    OBVIOUS
  <2>2. FlattenSeq(ss) = <<>>
    BY <2>1, FlattenNone
  <2> DEFINE none == FlattenSeq(ss)
  <2>3. Len(none) = 0
    BY <2>2
  <2> DEFINE at == [i \in 1..1 |-> 0]
  <2>4. at \in [1..1 -> Nat] /\ at[1] = 0
    OBVIOUS
  <2> HIDE DEF at, none
  <2>5. \A k \in 1..Len(none) : FALSE
    BY <2>3
  <2>6. 0 + 1 = 1 /\ \A i \in 1..0 : FALSE
    OBVIOUS
  <2>7. Places(ss, at)
    BY <2>3, <2>4, <2>5, <2>6 DEF Places, none
  <2>8. QED
    BY <2>7
<1>2. ASSUME NEW n \in Nat, n \in T
      PROVE  n + 1 \in T
  <2> SUFFICES ASSUME NEW uu \in Seq(Seq(S)), Len(uu) = n + 1
               PROVE  \E at : Places(uu, at)
    OBVIOUS
  <2> DEFINE V == Seq(S)
  <2>1. PICK ss \in Seq(V), s \in V : uu = Append(ss, s)
    BY uu # <<>>, SequenceEmptyOrAppend
  <2>2. /\ Len(ss) = n /\ uu[n + 1] = s /\ \A i \in 1..n : uu[i] = ss[i]
    <3> HIDE DEF V
    <3>1. Len(ss) \in Nat /\ Len(uu) = Len(ss) + 1
      BY <2>1, AppendProperties
    <3>2. Len(ss) = n
      BY <3>1
    <3>3. QED
      BY <2>1, <3>2, AppendProperties
  <2>3. PICK at : Places(ss, at)
    BY <1>2, <2>2
  <2> DEFINE a == FlattenSeq(ss)
             b == FlattenSeq(uu)
  <2>4. a \in V /\ b = a \o s
    BY <2>1, FlattenAppend
  <2> HIDE DEF a, b
  <2>5. /\ Len(a) \in Nat /\ Len(s) \in Nat /\ Len(b) = Len(a) + Len(s)
        /\ \A k \in 1..(Len(a) + Len(s)) : b[k] = IF k <= Len(a) THEN a[k] ELSE s[k - Len(a)]
    BY <2>1, <2>4, ConcatProperties
  <2>6. /\ at \in [1..(n + 1) -> Nat] /\ at[n + 1] = Len(a)
        /\ \A i \in 1..n : at[i + 1] = at[i] + Len(ss[i])
        /\ \A i, j \in 1..(n + 1) : i <= j => at[i] <= at[j]
        /\ \A i \in 1..n : \A j \in 1..Len(ss[i]) : a[at[i] + j] = ss[i][j]
        /\ \A k \in 1..Len(a) : \E i \in 1..n : \E j \in 1..Len(ss[i]) : k = at[i] + j
    BY <2>2, <2>3, Zenon DEF Places, a
  <2> DEFINE new == [i \in 1..(n + 2) |-> IF i = n + 2 THEN Len(b) ELSE at[i]]
  <2>7. new \in [1..(n + 2) -> Nat] /\ new[n + 2] = Len(b) /\ \A i \in 1..(n + 1) : new[i] = at[i]
    BY <2>5, <2>6
  <2> HIDE DEF new, V
  <2>8. \A i \in 1..(n + 1) : i \in 1..n \/ i = n + 1
    OBVIOUS
  <2>9. \A i \in 1..(n + 2) : i \in 1..(n + 1) \/ i = n + 2
    OBVIOUS
  <2>10. \A i \in 1..n : Len(ss[i]) \in Nat
    BY <2>1 DEF V
  <2>11. \A i \in 1..(n + 1) : new[i + 1] = new[i] + Len(uu[i])
    <3>1. ASSUME NEW i \in 1..n PROVE new[i + 1] = new[i] + Len(uu[i])
      BY <2>2, <2>6, <2>7
    <3>2. new[(n + 1) + 1] = new[n + 1] + Len(uu[n + 1])
      <4>1. (n + 1) + 1 = n + 2 /\ n + 1 \in 1..(n + 1)
        OBVIOUS
      <4>2. new[n + 1] = Len(a) /\ uu[n + 1] = s /\ new[n + 2] = Len(a) + Len(s)
        BY <2>2, <2>5, <2>6, <2>7, <4>1
      <4>3. QED
        BY <4>1, <4>2
    <3>3. QED
      BY <2>8, <3>1, <3>2
  <2>12. \A i, j \in 1..(n + 2) : i <= j => new[i] <= new[j]
    <3>1. \A i \in 1..(n + 1) : at[i] <= at[n + 1] /\ at[i] \in Nat
      BY <2>6
    <3>2. \A i \in 1..(n + 1) : new[i] <= new[n + 2]
      BY <2>5, <2>6, <2>7, <3>1
    <3>3. \A i, j \in 1..(n + 1) : i <= j => new[i] <= new[j]
      BY <2>6, <2>7
    <3>4. \A j \in 1..(n + 1) : ~(n + 2 <= j)
      OBVIOUS
    <3>5. new[n + 2] <= new[n + 2]
      BY <2>5, <2>7
    <3>6. QED
      BY <2>9, <3>2, <3>3, <3>4, <3>5
  <2>13. ASSUME NEW i \in 1..(n + 1), NEW j \in 1..Len(uu[i])
         PROVE  b[new[i] + j] = uu[i][j]
    <3>1. CASE i \in 1..n
      <4>1. a[at[i] + j] = ss[i][j] /\ j \in 1..Len(ss[i])
        BY <2>2, <2>6, <3>1
      <4>2. at[i] \in Nat /\ at[i] + Len(ss[i]) = at[i + 1] /\ at[i + 1] <= Len(a)
        BY <2>6, <3>1, SMTT(30)
      <4>3. at[i] + j \in 1..Len(a)
        <5>1. Len(ss[i]) \in Nat /\ j \in 1..Len(ss[i])
          BY <2>10, <3>1, <4>1
        <5>2. at[i] + Len(ss[i]) <= Len(a)
          BY <4>2
        <5> DEFINE p == at[i]
                   m == Len(ss[i])
                   l == Len(a)
        <5>3. p \in Nat /\ m \in Nat /\ l \in Nat /\ j \in 1..m /\ p + m <= l
          BY <2>5, <4>2, <5>1, <5>2
        <5> HIDE DEF p, m, l
        <5>4. p + j \in 1..l
          BY <5>3
        <5>5. QED
          BY <5>4 DEF p, l
      <4>4. b[at[i] + j] = a[at[i] + j]
        BY <2>5, <4>3, SMTT(30)
      <4>5. QED
        BY <2>2, <2>7, <3>1, <4>1, <4>4
    <3>2. CASE i = n + 1
      <4>1. new[i] = Len(a) /\ uu[i] = s /\ j \in 1..Len(s)
        BY <2>2, <2>6, <2>7, <3>2
      <4>2. Len(a) + j \in 1..(Len(a) + Len(s)) /\ ~(Len(a) + j <= Len(a)) /\ (Len(a) + j) - Len(a) = j
        BY <2>5, <4>1
      <4>3. QED
        BY <2>5, <4>1, <4>2
    <3>3. QED
      BY <2>8, <3>1, <3>2
  <2>14. ASSUME NEW k \in 1..Len(b)
         PROVE  \E i \in 1..(n + 1) : \E j \in 1..Len(uu[i]) : k = new[i] + j
    <3>1. CASE k <= Len(a)
      <4>1. k \in 1..Len(a)
        BY <2>5, <3>1
      <4>2. PICK i \in 1..n : \E j \in 1..Len(ss[i]) : k = at[i] + j
        BY <2>6, <4>1
      <4>3. i \in 1..(n + 1) /\ new[i] = at[i] /\ uu[i] = ss[i]
        BY <2>2, <2>7
      <4>4. QED
        BY <4>2, <4>3
    <3>2. CASE ~(k <= Len(a))
      <4>1. k - Len(a) \in 1..Len(s) /\ k = Len(a) + (k - Len(a))
        BY <2>5, <3>2
      <4>2. n + 1 \in 1..(n + 1) /\ new[n + 1] = Len(a) /\ uu[n + 1] = s
        BY <2>2, <2>6, <2>7
      <4>3. QED
        BY <4>1, <4>2
    <3>3. QED
      BY <3>1, <3>2
  <2>15. Places(uu, new)
    <3>1. Len(uu) + 1 = n + 2
      OBVIOUS
    <3>2. /\ new \in [1..(Len(uu) + 1) -> Nat]
          /\ new[Len(uu) + 1] = Len(b)
          /\ \A i \in 1..Len(uu) : new[i + 1] = new[i] + Len(uu[i])
          /\ \A i, j \in 1..(Len(uu) + 1) : i <= j => new[i] <= new[j]
          /\ \A i \in 1..Len(uu) : \A j \in 1..Len(uu[i]) : b[new[i] + j] = uu[i][j]
          /\ \A k \in 1..Len(b) : \E i \in 1..Len(uu) : \E j \in 1..Len(uu[i]) : k = new[i] + j
      BY <2>7, <2>11, <2>12, <2>13, <2>14, <3>1
    <3>3. QED
      BY <3>2, Zenon DEF Places, b
  <2>16. QED
    BY <2>15
<1>3. Len(tt) \in Nat /\ Nat \subseteq T
  <2>1. Len(tt) \in Nat
    OBVIOUS
  <2> HIDE DEF T
  <2>2. QED
    BY <1>1, <1>2, <2>1, EveryNumber
<1>4. QED
  BY <1>3

\* Some elements are taken out: the others stay in their order.
Reduced(X, s) == FlattenSeq([i \in DOMAIN s |-> IF i \in X THEN <<>> ELSE <<s[i]>>])

\* Element i of s is element e[i] of the result.
StaysAt(X, s, out, e) ==
  /\ e \in [1..Len(s) -> Nat]
  /\ \A i \in 1..Len(s) : i \notin X => e[i] \in 1..Len(out) /\ out[e[i]] = s[i]
  /\ \A i, j \in 1..Len(s) : i \notin X /\ i < j => e[i] < e[j]
  /\ \A k \in 1..Len(out) : \E i \in 1..Len(s) : i \notin X /\ k = e[i]

LEMMA TakenOut ==
  ASSUME NEW S, NEW s \in Seq(S), NEW X
  PROVE  Reduced(X, s) \in Seq(S) /\ \E e : StaysAt(X, s, Reduced(X, s), e)
<1> DEFINE n == Len(s)
           V == Seq(S)
           ss == [i \in 1..n |-> IF i \in X THEN <<>> ELSE <<s[i]>>]
           out == FlattenSeq(ss)
<1>1. n \in Nat /\ DOMAIN s = 1..n /\ \A i \in 1..n : s[i] \in S
  OBVIOUS
<1>2. \A i \in 1..n : ss[i] \in V
  BY <1>1
<1>3. ss \in Seq(V) /\ Len(ss) = n
  <2> HIDE DEF V
  <2>1. ss \in [1..n -> V]
    BY <1>2
  <2> HIDE DEF ss
  <2>2. QED
    BY <1>1, <2>1
<1>4. \A i \in 1..n : IF i \in X THEN ss[i] = <<>> /\ Len(ss[i]) = 0
                      ELSE Len(ss[i]) = 1 /\ ss[i][1] = s[i]
  OBVIOUS
<1>5. Reduced(X, s) = out
  BY <1>1, Zenon DEF Reduced
<1> HIDE DEF n, V, ss
<1>6. out \in Seq(S)
  BY <1>3, FlattenAppend, <<>> \in Seq(S) DEF V
<1>7. PICK at : Places(ss, at)
  BY <1>3, PlacesExist DEF V
<1> HIDE DEF out
<1>8. /\ at \in [1..(n + 1) -> Nat] /\ at[n + 1] = Len(out) /\ Len(out) \in Nat
      /\ \A i \in 1..n : at[i + 1] = at[i] + Len(ss[i])
      /\ \A i, j \in 1..(n + 1) : i <= j => at[i] <= at[j]
      /\ \A i \in 1..n : \A j \in 1..Len(ss[i]) : out[at[i] + j] = ss[i][j]
      /\ \A k \in 1..Len(out) : \E i \in 1..n : \E j \in 1..Len(ss[i]) : k = at[i] + j
  <2>1. Len(out) \in Nat
    BY <1>6
  <2>2. QED
    BY <1>3, <1>7, <2>1, Zenon DEF Places, out
<1> DEFINE e == [i \in 1..n |-> at[i] + 1]
<1>9. e \in [1..n -> Nat] /\ \A i \in 1..n : e[i] = at[i] + 1 /\ at[i] \in Nat
  <2>1. \A i \in 1..n : i \in 1..(n + 1)
    BY <1>1
  <2>2. \A i \in 1..n : at[i] \in Nat
    BY <1>8, <2>1
  <2>3. QED
    BY <2>2
<1> HIDE DEF e
<1>10. ASSUME NEW i \in 1..n, i \notin X
       PROVE  /\ at[i + 1] = at[i] + 1 /\ e[i] \in 1..Len(out) /\ out[e[i]] = s[i]
              /\ \A j \in 1..n : i < j => e[i] < e[j]
  <2>1. Len(ss[i]) = 1 /\ ss[i][1] = s[i]
    BY <1>4, <1>10
  <2>2. at[i + 1] = at[i] + 1
    BY <1>8, <2>1
  <2>3. out[at[i] + 1] = s[i]
    BY <1>8, <2>1
  <2>4. i + 1 \in 1..(n + 1) /\ n + 1 \in 1..(n + 1) /\ i + 1 <= n + 1
    BY <1>1
  <2>5. at[i + 1] <= at[n + 1]
    BY <1>8, <2>4
  <2>6. e[i] \in 1..Len(out)
    <3>1. e[i] = at[i] + 1 /\ at[i] \in Nat /\ at[i] + 1 <= Len(out) /\ Len(out) \in Nat
      BY <1>8, <1>9, <2>2, <2>5
    <3>2. QED
      BY <3>1
  <2>7. ASSUME NEW j \in 1..n, i < j
        PROVE  e[i] < e[j]
    <3>1. i + 1 <= j /\ j \in 1..(n + 1)
      BY <1>1, <2>7
    <3>2. at[i + 1] <= at[j]
      BY <1>8, <2>4, <3>1
    <3>3. at[i] \in Nat /\ at[j] \in Nat /\ e[i] = at[i] + 1 /\ e[j] = at[j] + 1
      BY <1>9
    <3>4. QED
      BY <2>2, <3>2, <3>3
  <2>8. QED
    BY <1>9, <2>2, <2>3, <2>6, <2>7
<1>11. ASSUME NEW k \in 1..Len(out)
       PROVE  \E i \in 1..n : i \notin X /\ k = e[i]
  <2>1. PICK i \in 1..n : \E j \in 1..Len(ss[i]) : k = at[i] + j
    BY <1>8
  <2>2. PICK j \in 1..Len(ss[i]) : k = at[i] + j
    BY <2>1
  <2>3. i \notin X
    BY <1>4
  <2>4. j = 1
    <3>1. Len(ss[i]) = 1
      BY <1>4, <2>3
    <3>2. QED
      BY <3>1
  <2>5. QED
    BY <1>9, <2>2, <2>3, <2>4
<1>12. ASSUME NEW i \in 1..n, NEW j \in 1..n, i \notin X, i < j
       PROVE  e[i] < e[j]
  BY <1>10, <1>12
<1>13. QED
  <2>1. /\ out \in Seq(S)
        /\ e \in [1..n -> Nat]
        /\ \A i \in 1..n : i \notin X => e[i] \in 1..Len(out) /\ out[e[i]] = s[i]
        /\ \A i, j \in 1..n : i \notin X /\ i < j => e[i] < e[j]
        /\ \A k \in 1..Len(out) : \E i \in 1..n : i \notin X /\ k = e[i]
    BY <1>6, <1>9, <1>10, <1>11, <1>12
  <2>2. out \in Seq(S) /\ StaysAt(X, s, out, e)
    BY <2>1, Zenon DEF n, StaysAt
  <2>3. QED
    BY <1>5, <2>2, Zenon

\* An element is put in below some others: those keep their order.
Enlarged(X, x, s) == FlattenSeq([i \in DOMAIN s |-> IF i \in X THEN <<s[i], x>> ELSE <<s[i]>>])

\* Element i of s is element e[i] of the result, and the new one may be next to it.
MovesTo(X, x, s, out, e) ==
  /\ e \in [1..Len(s) -> Nat]
  /\ \A i \in 1..Len(s) : e[i] \in 1..Len(out) /\ out[e[i]] = s[i]
  /\ \A i \in 1..Len(s) : i \in X => e[i] + 1 \in 1..Len(out) /\ out[e[i] + 1] = x
  /\ \A i, j \in 1..Len(s) : i < j => e[i] < e[j] /\ (i \in X => e[i] + 1 < e[j])
  /\ \A k \in 1..Len(out) : \E i \in 1..Len(s) : k = e[i] \/ (i \in X /\ k = e[i] + 1)

LEMMA PutIn ==
  ASSUME NEW S, NEW s \in Seq(S), NEW x \in S, NEW X
  PROVE  Enlarged(X, x, s) \in Seq(S) /\ \E e : MovesTo(X, x, s, Enlarged(X, x, s), e)
<1> DEFINE n == Len(s)
           V == Seq(S)
           ss == [i \in 1..n |-> IF i \in X THEN <<s[i], x>> ELSE <<s[i]>>]
           out == FlattenSeq(ss)
<1>1. n \in Nat /\ DOMAIN s = 1..n /\ \A i \in 1..n : s[i] \in S
  OBVIOUS
<1>2. \A i \in 1..n : ss[i] \in V
  BY <1>1
<1>3. ss \in Seq(V) /\ Len(ss) = n
  <2> HIDE DEF V
  <2>1. ss \in [1..n -> V]
    BY <1>2
  <2> HIDE DEF ss
  <2>2. QED
    BY <1>1, <2>1
<1>4. \A i \in 1..n : ss[i][1] = s[i] /\ (IF i \in X THEN Len(ss[i]) = 2 /\ ss[i][2] = x ELSE Len(ss[i]) = 1)
  OBVIOUS
<1>5. Enlarged(X, x, s) = out
  BY <1>1, Zenon DEF Enlarged
<1> HIDE DEF n, V, ss
<1>6. out \in Seq(S)
  BY <1>3, FlattenAppend, <<>> \in Seq(S) DEF V
<1>7. PICK at : Places(ss, at)
  BY <1>3, PlacesExist DEF V
<1> HIDE DEF out
<1>8. /\ at \in [1..(n + 1) -> Nat] /\ at[n + 1] = Len(out) /\ Len(out) \in Nat
      /\ \A i \in 1..n : at[i + 1] = at[i] + Len(ss[i])
      /\ \A i, j \in 1..(n + 1) : i <= j => at[i] <= at[j]
      /\ \A i \in 1..n : \A j \in 1..Len(ss[i]) : out[at[i] + j] = ss[i][j]
      /\ \A k \in 1..Len(out) : \E i \in 1..n : \E j \in 1..Len(ss[i]) : k = at[i] + j
  <2>1. Len(out) \in Nat
    BY <1>6
  <2>2. QED
    BY <1>3, <1>7, <2>1, Zenon DEF Places, out
<1> DEFINE e == [i \in 1..n |-> at[i] + 1]
<1>9. e \in [1..n -> Nat] /\ \A i \in 1..n : e[i] = at[i] + 1 /\ at[i] \in Nat
  <2>1. \A i \in 1..n : i \in 1..(n + 1)
    BY <1>1
  <2>2. \A i \in 1..n : at[i] \in Nat
    BY <1>8, <2>1
  <2>3. QED
    BY <2>2
<1> HIDE DEF e
<1>10. ASSUME NEW i \in 1..n
       PROVE  /\ at[i + 1] = at[i] + (IF i \in X THEN 2 ELSE 1) /\ at[i + 1] <= Len(out) /\ at[i + 1] \in Nat
              /\ \A j \in 1..n : i < j => at[i + 1] <= at[j]
  <2>1. at[i + 1] = at[i] + (IF i \in X THEN 2 ELSE 1)
    BY <1>4, <1>8
  <2>2. i + 1 \in 1..(n + 1) /\ n + 1 \in 1..(n + 1) /\ i + 1 <= n + 1
    BY <1>1
  <2>3. at[i + 1] <= Len(out) /\ at[i + 1] \in Nat
    BY <1>8, <2>2
  <2>4. ASSUME NEW j \in 1..n, i < j
        PROVE  at[i + 1] <= at[j]
    <3>1. i + 1 <= j /\ j \in 1..(n + 1)
      BY <1>1, <2>4
    <3>2. QED
      BY <1>8, <2>2, <3>1
  <2>5. QED
    BY <2>1, <2>3, <2>4
<1>11. ASSUME NEW i \in 1..n
       PROVE  /\ e[i] \in 1..Len(out) /\ out[e[i]] = s[i]
              /\ i \in X => e[i] + 1 \in 1..Len(out) /\ out[e[i] + 1] = x
  <2>1. e[i] = at[i] + 1 /\ at[i] \in Nat /\ Len(out) \in Nat /\ at[i + 1] \in Nat
    BY <1>8, <1>9, <1>10
  <2>2. out[e[i]] = s[i]
    <3>1. 1 \in 1..Len(ss[i]) /\ ss[i][1] = s[i]
      BY <1>4
    <3>2. QED
      BY <1>8, <2>1, <3>1
  <2>3. ASSUME i \in X
        PROVE  out[e[i] + 1] = x /\ e[i] + 1 \in 1..Len(out)
    <3>1. 2 \in 1..Len(ss[i]) /\ ss[i][2] = x
      BY <1>4, <2>3
    <3>2. out[at[i] + 2] = x
      BY <1>8, <3>1
    <3>3. e[i] + 1 = at[i] + 2 /\ at[i] + 2 <= Len(out)
      BY <1>10, <2>1, <2>3
    <3>4. QED
      BY <2>1, <3>2, <3>3
  <2>4. e[i] \in 1..Len(out)
    BY <1>10, <2>1
  <2>5. QED
    BY <2>2, <2>3, <2>4
<1>12. ASSUME NEW i \in 1..n, NEW j \in 1..n, i < j
       PROVE  e[i] < e[j] /\ (i \in X => e[i] + 1 < e[j])
  <2>1. e[i] = at[i] + 1 /\ at[i] \in Nat /\ e[j] = at[j] + 1 /\ at[j] \in Nat
    BY <1>9
  <2>2. at[i] + (IF i \in X THEN 2 ELSE 1) <= at[j]
    BY <1>10, <1>12
  <2>3. QED
    BY <2>1, <2>2
<1>13. ASSUME NEW k \in 1..Len(out)
       PROVE  \E i \in 1..n : k = e[i] \/ (i \in X /\ k = e[i] + 1)
  <2>1. PICK i \in 1..n : \E j \in 1..Len(ss[i]) : k = at[i] + j
    BY <1>8
  <2>2. PICK j \in 1..Len(ss[i]) : k = at[i] + j
    BY <2>1
  <2>3. j = 1 \/ (j = 2 /\ i \in X)
    <3>1. Len(ss[i]) = IF i \in X THEN 2 ELSE 1
      BY <1>4
    <3>2. QED
      BY <3>1
  <2>4. e[i] = at[i] + 1 /\ at[i] \in Nat
    BY <1>9
  <2>5. QED
    BY <2>2, <2>3, <2>4
<1>14. QED
  <2>1. /\ out \in Seq(S)
        /\ e \in [1..n -> Nat]
        /\ \A i \in 1..n : e[i] \in 1..Len(out) /\ out[e[i]] = s[i]
        /\ \A i \in 1..n : i \in X => e[i] + 1 \in 1..Len(out) /\ out[e[i] + 1] = x
        /\ \A i, j \in 1..n : i < j => e[i] < e[j] /\ (i \in X => e[i] + 1 < e[j])
        /\ \A k \in 1..Len(out) : \E i \in 1..n : k = e[i] \/ (i \in X /\ k = e[i] + 1)
    BY <1>6, <1>9, <1>11, <1>12, <1>13
  <2>2. out \in Seq(S) /\ MovesTo(X, x, s, out, e)
    BY <2>1, Zenon DEF n, MovesTo
  <2>3. QED
    BY <1>5, <2>2, Zenon

\* Nothing is put in: nothing changes.
LEMMA NothingPutIn ==
  ASSUME NEW S, NEW s \in Seq(S), NEW x \in S
  PROVE  Enlarged({}, x, s) = s
<1> DEFINE u == Enlarged({}, x, s)
           n == Len(s)
           m == Len(u)
<1>1. PICK e : u \in Seq(S) /\ MovesTo({}, x, s, u, e)
  <2> HIDE DEF u
  <2>1. u \in Seq(S) /\ \E e : MovesTo({}, x, s, u, e)
    BY PutIn DEF u
  <2>2. QED
    BY <2>1
<1> HIDE DEF u
<1>2. n \in Nat /\ m \in Nat
  BY <1>1
<1>3. /\ \A i \in 1..n : e[i] \in 1..m /\ u[e[i]] = s[i]
      /\ \A i, j \in 1..n : i < j => e[i] < e[j]
      /\ \A k \in 1..m : \E i \in 1..n : k = e[i]
  BY <1>1 DEF MovesTo
<1> HIDE DEF n, m
<1>4. \A i \in 1..n : e[i] = i
  <2> DEFINE T == {i \in 1..n : e[i] # i}
  <2> SUFFICES ASSUME T # {}
               PROVE  FALSE
    OBVIOUS
  <2>1. T \subseteq Nat
    BY <1>2
  <2>2. PICK i \in T : \A j \in T : i <= j
    <3> HIDE DEF T
    <3>1. QED
      BY <2>1, LeastNumber
  <2>3. i \in 1..n /\ e[i] # i /\ e[i] \in 1..m /\ i \in Nat /\ e[i] \in Nat
    BY <1>2, <1>3
  <2>4. \A j \in 1..n : j < i => e[j] = j
    <3> SUFFICES ASSUME NEW j \in 1..n, j < i, e[j] # j
                 PROVE  FALSE
      OBVIOUS
    <3>1. j \in T /\ ~(i <= j)
      BY <1>2, <2>3
    <3>2. QED
      BY <2>2, <3>1
  <2>5. i <= e[i]
    <3>1. CASE i = 1
      BY <1>2, <2>3, <3>1
    <3>2. CASE i # 1
      <4>1. i - 1 \in 1..n /\ i - 1 < i
        BY <1>2, <2>3, <3>2
      <4>2. e[i - 1] = i - 1 /\ e[i - 1] < e[i]
        BY <1>3, <2>3, <2>4, <4>1
      <4>3. QED
        BY <2>3, <4>2
    <3>3. QED
      BY <3>1, <3>2
  <2>6. i \in 1..m
    BY <1>2, <2>3, <2>5
  <2>7. PICK j \in 1..n : i = e[j]
    BY <1>3, <2>6
  <2>8. j < i \/ j = i \/ i < j
    BY <1>2, <2>3
  <2>9. CASE j < i
    BY <2>4, <2>7, <2>9
  <2>10. CASE j = i
    BY <2>3, <2>7, <2>10
  <2>11. CASE i < j
    <3>1. e[i] < e[j]
      BY <1>3, <2>3, <2>11
    <3>2. QED
      BY <2>3, <2>5, <2>7, <3>1
  <2>12. QED
    BY <2>8, <2>9, <2>10, <2>11
<1>5. m = n
  <2>1. ASSUME n > m
        PROVE  FALSE
    <3>1. n \in 1..n
      BY <1>2, <2>1
    <3>2. e[n] \in 1..m /\ e[n] = n
      BY <1>3, <1>4, <3>1
    <3>3. QED
      BY <1>2, <2>1, <3>2
  <2>2. ASSUME m > n
        PROVE  FALSE
    <3>1. m \in 1..m
      BY <1>2, <2>2
    <3>2. PICK i \in 1..n : m = e[i]
      BY <1>3, <3>1
    <3>3. m = i
      BY <1>4, <3>2
    <3>4. QED
      BY <1>2, <2>2, <3>3
  <2>3. QED
    BY <1>2, <2>1, <2>2
<1>6. \A i \in 1..Len(u) : u[i] = s[i]
  <2>1. \A i \in 1..n : u[i] = s[i]
    BY <1>3, <1>4
  <2>2. QED
    BY <1>5, <2>1 DEF m
<1>7. u = s
  BY <1>1, <1>5, <1>6, SeqEqual DEF m, n
<1>8. QED
  BY <1>7 DEF u
=============================================================================
