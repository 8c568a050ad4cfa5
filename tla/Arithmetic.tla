----------------------------- MODULE Arithmetic ------------------------------
(***************************************************************************)
(* What the proofs need of integers: the rounding of quotients, least and  *)
(* largest elements, and sums over finite sets, as SumFunction of the      *)
(* community modules computes them: one chosen element after another.      *)
(***************************************************************************)
EXTENDS Cpmm, FiniteSets, FiniteSetsExt, Functions, FiniteSetTheorems, WellFoundedInduction,
        TLAPS

(* Quotients.                                                              *)

\* A quotient is the integer between which and whose successor it lies.
LEMMA FloorBounds ==
    ASSUME NEW n \in Nat, NEW d \in Nat, d > 0
    PROVE  /\ n \div d \in Nat
           /\ d * (n \div d) <= n
           /\ n < d * ((n \div d) + 1)
<1>1. /\ n \div d \in Int
      /\ n % d \in Int
      /\ n = d * (n \div d) + (n % d)
      /\ 0 <= n % d
      /\ n % d < d
  BY Z3
<1> QED
  BY <1>1, Z3

\* Rounding up is at least rounding down.
LEMMA CeilBounds ==
    ASSUME NEW n \in Nat, NEW d \in Nat, d > 0
    PROVE  /\ CeilDiv(n, d) \in Nat
           /\ n \div d <= CeilDiv(n, d)
  BY FloorBounds DEF CeilDiv

\* The arithmetic-geometric inequality in integers: however a reserve x is
\* chosen, s * s divided by it, rounded down, brings the sum to 2 * s.
LEMMA BalancedSumIsLeast ==
    ASSUME NEW s \in Nat, NEW x \in Nat, x > 0
    PROVE  x + ((s * s) \div x) >= 2 * s
<1> DEFINE q == (s * s) \div x
<1>1. q \in Nat /\ s * s < x * (q + 1)
  BY FloorBounds, s * s \in Nat
<1> HIDE DEF q
<1>2. SUFFICES ASSUME x + q < 2 * s PROVE FALSE
  BY <1>1 DEF q
<1>3. q + 1 <= 2 * s - x
  BY <1>1, <1>2
<1>4. x * (q + 1) <= x * (2 * s - x)
  BY <1>1, <1>3, Z3
<1>5. x * (2 * s - x) = s * s - (s - x) * (s - x)
  BY Z3
<1>6. (s - x) * (s - x) >= 0
  BY Z3
<1> QED
  BY <1>1, <1>4, <1>5, <1>6, Z3

-----------------------------------------------------------------------------
(* Least and largest elements, and induction over subsets.                 *)

LEMMA LeastElement ==
    ASSUME NEW T, T \subseteq Nat, T # {}
    PROVE  \E x \in T : \A y \in T : x <= y
<1> DEFINE R == OpToRel(<, Nat)
<1>1. IsWellFoundedOn(R, Nat)
  BY NatLessThanWellFounded
<1>2. \A x, y \in Nat : y < x => <<y, x>> \in R
  BY DEF OpToRel
<1> HIDE DEF R
<1>3. PICK x \in T : \A y \in T : ~(<<y, x>> \in R)
  BY <1>1, WFMin
<1>4. ASSUME NEW y \in T PROVE x <= y
  <2>1. x \in Nat /\ y \in Nat
    OBVIOUS
  <2>2. ~(y < x)
    BY <1>2, <1>3, <2>1, Zenon
  <2> QED
    BY <2>1, <2>2
<1> QED
  BY <1>4

\* Induction over the subsets of a finite set: G holds of all of them if it holds
\* of each from which any element can be taken without leaving G.
LEMMA SubsetInduction ==
    ASSUME NEW S, IsFiniteSet(S), NEW G,
           \A s \in SUBSET S : (\A x \in s : s \ {x} \in G) => s \in G
    PROVE  \A s \in SUBSET S : s \in G
<1> DEFINE Sizes == {Cardinality(s) : s \in {t \in SUBSET S : t \notin G}}
<1>0. \A s \in SUBSET S : IsFiniteSet(s) /\ Cardinality(s) \in Nat
  BY FS_Subset, FS_CardinalityType
<1>1. SUFFICES ASSUME Sizes # {} PROVE FALSE
  OBVIOUS
<1>2. Sizes \subseteq Nat
  BY <1>0
<1>3. PICK n \in Sizes : \A k \in Sizes : n <= k
  <2> HIDE DEF Sizes
  <2> QED
    BY <1>1, <1>2, LeastElement
<1>4. PICK s \in SUBSET S : s \notin G /\ n = Cardinality(s)
  OBVIOUS
<1>5. PICK x \in s : s \ {x} \notin G
  BY <1>4
<1>6. Cardinality(s \ {x}) = Cardinality(s) - 1
  BY <1>0, FS_RemoveElement
<1>7. Cardinality(s \ {x}) \in Sizes
  BY <1>5
<1> HIDE DEF Sizes
<1> QED
  BY <1>0, <1>3, <1>4, <1>6, <1>7

\* Max of a finite set of naturals is its largest element, Min its least.
LEMMA MaxIsLargest ==
    ASSUME NEW T, T \subseteq Nat, T # {}, IsFiniteSet(T)
    PROVE  Max(T) \in T /\ \A y \in T : y <= Max(T)
<1> DEFINE G == {s \in SUBSET T : s = {} \/ \E x \in s : \A y \in s : x >= y}
<1>1. ASSUME NEW s \in SUBSET T, \A x \in s : s \ {x} \in G PROVE s \in G
  <2>1. ASSUME NEW z \in s PROVE \E x \in s : \A y \in s : x >= y
    <3>1. CASE s \ {z} = {}
      BY <3>1
    <3>2. ASSUME NEW x \in s \ {z}, \A y \in s \ {z} : x >= y
          PROVE  \E w \in s : \A y \in s : w >= y
      <4>1. x \in Nat /\ z \in Nat
        OBVIOUS
      <4>2. CASE x >= z
        BY <3>2, <4>2
      <4>3. CASE z >= x
        BY <3>2, <4>1, <4>3
      <4> QED
        BY <4>1, <4>2, <4>3
    <3> QED
      BY <1>1, <3>1, <3>2
  <2> QED
    BY <2>1
<1>2. T \in G
  <2> HIDE DEF G
  <2> QED
    BY <1>1, SubsetInduction
<1>3. PICK x \in T : \A y \in T : x >= y
  BY <1>2
<1>4. Max(T) \in T /\ \A y \in T : Max(T) >= y
  BY <1>3 DEF Max
<1> QED
  BY <1>4

LEMMA MinIsLeast ==
    ASSUME NEW T, T \subseteq Nat, T # {}
    PROVE  Min(T) \in T /\ \A y \in T : Min(T) <= y
  BY LeastElement DEF Min

-----------------------------------------------------------------------------
(* Sums.                                                                   *)

Pick(s) == CHOOSE x \in s : TRUE

Small(S, n) == {s \in SUBSET S : Cardinality(s) <= n}

\* g adds f up over the subsets of S with at most n elements.
AddsUp(g, f, S, n) ==
    /\ g \in [Small(S, n) -> Int]
    /\ \A s \in Small(S, n) :
           g[s] = IF s = {} THEN 0 ELSE f[Pick(s)] + g[s \ {Pick(s)}]

LEMMA PickIn == ASSUME NEW s, s # {} PROVE Pick(s) \in s
  BY DEF Pick

LEMMA SmallLess ==
    ASSUME NEW S, IsFiniteSet(S), NEW n \in Nat, NEW s \in Small(S, n), NEW x \in s
    PROVE  /\ n > 0
           /\ s \ {x} \in Small(S, n - 1)
<1>1. IsFiniteSet(s) /\ s \subseteq S /\ Cardinality(s) <= n
  BY FS_Subset DEF Small
<1>2. Cardinality(s) \in Nat /\ Cardinality(s \ {x}) = Cardinality(s) - 1
      /\ Cardinality(s \ {x}) \in Nat
  BY <1>1, FS_RemoveElement, FS_CardinalityType
<1> QED
  BY <1>1, <1>2 DEF Small

LEMMA AdderExists ==
    ASSUME NEW S, IsFiniteSet(S), NEW f, \A x \in S : f[x] \in Int, NEW n \in Nat
    PROVE  \E g : AddsUp(g, f, S, n)
<1> DEFINE Bad == {i \in Nat : ~ \E g : AddsUp(g, f, S, i)}
<1>1. SUFFICES ASSUME Bad # {} PROVE FALSE
  OBVIOUS
<1>2. PICK i \in Bad : \A j \in Bad : i <= j
  <2> HIDE DEF Bad
  <2>1. Bad \subseteq Nat
    BY DEF Bad
  <2> QED
    BY <1>1, <2>1, LeastElement
<1>3. i \in Nat /\ ~ \E g : AddsUp(g, f, S, i)
  OBVIOUS
<1>4. CASE i = 0
  <2> DEFINE g == [s \in Small(S, 0) |-> 0]
  <2>1. ASSUME NEW s \in Small(S, 0), NEW x \in s PROVE FALSE
    <3>1. 0 > 0
      BY SmallLess
    <3> QED
      BY <3>1
  <2>2. AddsUp(g, f, S, 0)
    BY <2>1 DEF AddsUp
  <2> QED
    BY <1>3, <1>4, <2>2
<1>5. CASE i # 0
  <2>1. i - 1 \in Nat /\ ~(i <= i - 1)
    BY <1>3, <1>5
  <2>2. PICK h : AddsUp(h, f, S, i - 1)
    BY <1>2, <2>1
  <2> DEFINE g == [s \in Small(S, i) |->
                      IF s = {} THEN 0 ELSE f[Pick(s)] + h[s \ {Pick(s)}]]
  <2>3. ASSUME NEW s \in Small(S, i), s # {}
        PROVE  Pick(s) \in S /\ s \ {Pick(s)} \in Small(S, i - 1)
    BY <1>3, <2>3, PickIn, SmallLess DEF Small
  <2>4. Small(S, i - 1) \subseteq Small(S, i)
    <3> SUFFICES ASSUME NEW s \in SUBSET S, Cardinality(s) <= i - 1 PROVE Cardinality(s) <= i
      BY DEF Small
    <3>1. Cardinality(s) \in Nat
      BY FS_Subset, FS_CardinalityType
    <3> QED
      BY <3>1, <1>3
  <2>5. g \in [Small(S, i) -> Int]
    <3> SUFFICES ASSUME NEW s \in Small(S, i), s # {}
                 PROVE  f[Pick(s)] + h[s \ {Pick(s)}] \in Int
      OBVIOUS
    <3> QED
      BY <2>2, <2>3 DEF AddsUp
  <2>6. \A s \in Small(S, i - 1) : g[s] = h[s]
    BY <2>2, <2>4 DEF AddsUp
  <2>7. \A s \in Small(S, i) : g[s] = IF s = {} THEN 0 ELSE f[Pick(s)] + g[s \ {Pick(s)}]
    BY <2>3, <2>6
  <2> HIDE DEF g
  <2>8. AddsUp(g, f, S, i)
    BY <2>5, <2>7 DEF AddsUp
  <2> QED
    BY <1>3, <2>8
<1> QED
  BY <1>4, <1>5


SumOn(f, S) == SumFunctionOnSet(f, S)

\* SumFunctionOnSet adds up, on all subsets at once.
Adder(g, f, S) ==
    /\ g \in [SUBSET S -> Int]
    /\ \A s \in SUBSET S :
           g[s] = IF s = {} THEN 0 ELSE f[Pick(s)] + g[s \ {Pick(s)}]
    /\ \A s \in SUBSET S : SumOn(f, s) = g[s]

LEMMA SumIsAdder ==
    ASSUME NEW S, IsFiniteSet(S), NEW f, \A x \in S : f[x] \in Int
    PROVE  \E g : Adder(g, f, S)
<1>1. Cardinality(S) \in Nat /\ Small(S, Cardinality(S)) = SUBSET S
  BY FS_CardinalityType, FS_Subset DEF Small
<1>2. PICK g : AddsUp(g, f, S, Cardinality(S))
  BY <1>1, AdderExists
<1>3. /\ g \in [SUBSET S -> Int]
      /\ \A s \in SUBSET S :
             g[s] = IF s = {} THEN 0 ELSE f[Pick(s)] + g[s \ {Pick(s)}]
  BY <1>1, <1>2 DEF AddsUp
<1>4. ASSUME NEW T \in SUBSET S PROVE SumOn(f, T) = g[T]
  <2> DEFINE Body(h) == [s \in SUBSET T |->
                 IF s = {} THEN 0 ELSE f[Pick(s)] + h[s \ {Pick(s)}]]
             iter == CHOOSE h : h = Body(h)
  <2>1. SumOn(f, T) = iter[T]
    BY DEF SumOn, SumFunctionOnSet, FoldFunctionOnSet, MapThenFoldSet, Pick
  <2>2. \E h : h = Body(h)
    <3> DEFINE h == [s \in SUBSET T |-> g[s]]
    <3>1. h = Body(h)
      BY <1>3, PickIn
    <3> QED
      BY <3>1
  <2>3. iter = Body(iter)
    BY <2>2
  <2> HIDE DEF iter
  <2>4. \A s \in SUBSET T :
            iter[s] = IF s = {} THEN 0 ELSE f[Pick(s)] + iter[s \ {Pick(s)}]
    BY <2>3
  <2> DEFINE G == {s \in SUBSET T : iter[s] = g[s]}
  <2>5. ASSUME NEW s \in SUBSET T, \A x \in s : s \ {x} \in G PROVE s \in G
    BY <1>3, <2>4, <2>5, PickIn
  <2>6. IsFiniteSet(T)
    BY FS_Subset
  <2>7. \A s \in SUBSET T : s \in G
    <3> HIDE DEF G
    <3> QED
      BY <2>5, <2>6, SubsetInduction
  <2> QED
    BY <2>1, <2>7
<1> QED
  BY <1>3, <1>4 DEF Adder

-----------------------------------------------------------------------------
(* What a sum is, and what it does when the function changes.               *)

Summable(f, S) == IsFiniteSet(S) /\ \A x \in S : f[x] \in Int

LEMMA SumEmpty == ASSUME NEW f PROVE SumOn(f, {}) = 0
<1>1. IsFiniteSet({}) /\ \A x \in {} : f[x] \in Int
  BY FS_EmptySet
<1>2. PICK g : Adder(g, f, {})
  BY <1>1, SumIsAdder
<1> QED
  BY <1>2 DEF Adder

\* Any element may be the first to be added.
LEMMA SumRemove ==
    ASSUME NEW S, NEW f, Summable(f, S)
    PROVE  /\ SumOn(f, S) \in Int
           /\ \A x \in S : SumOn(f, S) = f[x] + SumOn(f, S \ {x})
<1>0. IsFiniteSet(S) /\ \A x \in S : f[x] \in Int
  BY DEF Summable
<1>1. PICK g : Adder(g, f, S)
  BY <1>0, SumIsAdder
<1> DEFINE G == {s \in SUBSET S : \A x \in s : g[s] = f[x] + g[s \ {x}]}
<1>2. ASSUME NEW s \in SUBSET S, \A x \in s : s \ {x} \in G, NEW x \in s
      PROVE  g[s] = f[x] + g[s \ {x}]
  <2> DEFINE c == Pick(s)
  <2>1. c \in s /\ g[s] = f[c] + g[s \ {c}]
    BY <1>1, PickIn DEF Adder
  <2>2. CASE x = c
    BY <2>1, <2>2
  <2>3. CASE x # c
    <3> HIDE DEF c
    <3>1. g[s \ {c}] = f[x] + g[(s \ {c}) \ {x}]
      BY <1>2, <2>1, <2>3
    <3>2. g[s \ {x}] = f[c] + g[(s \ {x}) \ {c}]
      BY <1>2, <2>1, <2>3
    <3>3. (s \ {c}) \ {x} = (s \ {x}) \ {c}
      OBVIOUS
    <3>4. /\ f[x] \in Int /\ f[c] \in Int /\ g[(s \ {x}) \ {c}] \in Int
      BY <1>0, <1>1, <2>1 DEF Adder
    <3>5. g[s \ {c}] = f[x] + g[(s \ {x}) \ {c}]
      BY <3>1, <3>3
    <3>6. g[s] = f[c] + (f[x] + g[(s \ {x}) \ {c}])
      BY <2>1, <3>5
    <3> QED
      BY <3>2, <3>4, <3>6
  <2> QED
    BY <2>2, <2>3
<1>3. \A s \in SUBSET S : s \in G
  <2>1. \A s \in SUBSET S : (\A x \in s : s \ {x} \in G) => s \in G
    BY <1>2
  <2> HIDE DEF G
  <2> QED
    BY <1>0, <2>1, SubsetInduction
<1> QED
  BY <1>1, <1>3 DEF Adder

\* A sum of integers is computed element by element: what holds of the empty
\* sum, and of every sum with one more element, holds of all.  The lemmas below
\* are of this form.
LEMMA SumAdd ==
    ASSUME NEW S, NEW f, NEW g, NEW h, Summable(f, S), Summable(g, S),
           \A x \in S : h[x] = f[x] + g[x]
    PROVE  SumOn(h, S) = SumOn(f, S) + SumOn(g, S)
<1> DEFINE G == {s \in SUBSET S : SumOn(h, s) = SumOn(f, s) + SumOn(g, s)}
<1>1. ASSUME NEW s \in SUBSET S
      PROVE  Summable(f, s) /\ Summable(g, s) /\ Summable(h, s)
  BY FS_Subset DEF Summable
<1>2. ASSUME NEW s \in SUBSET S, \A x \in s : s \ {x} \in G PROVE s \in G
  <2>1. CASE s = {}
    BY <2>1, SumEmpty
  <2>2. CASE s # {}
    <3>1. PICK x \in s : TRUE
      BY <2>2
    <3>2. SumOn(h, s \ {x}) = SumOn(f, s \ {x}) + SumOn(g, s \ {x})
      BY <1>2, <3>1
    <3>3. /\ SumOn(h, s) = h[x] + SumOn(h, s \ {x})
          /\ SumOn(f, s) = f[x] + SumOn(f, s \ {x})
          /\ SumOn(g, s) = g[x] + SumOn(g, s \ {x})
      BY <1>1, <3>1, SumRemove
    <3>4. SumOn(f, s \ {x}) \in Int /\ SumOn(g, s \ {x}) \in Int
      BY <1>1, <3>1, SumRemove
    <3>5. h[x] = f[x] + g[x] /\ f[x] \in Int /\ g[x] \in Int
      BY <3>1 DEF Summable
    <3> QED
      BY <3>2, <3>3, <3>4, <3>5
  <2> QED
    BY <2>1, <2>2
<1>3. IsFiniteSet(S)
  BY DEF Summable
<1>4. \A s \in SUBSET S : s \in G
  <2>1. \A s \in SUBSET S : (\A x \in s : s \ {x} \in G) => s \in G
    BY <1>2
  <2> HIDE DEF G
  <2> QED
    BY <1>3, <2>1, SubsetInduction
<1> QED
  BY <1>4

LEMMA SumMonotone ==
    ASSUME NEW S, NEW f, NEW g, Summable(f, S), Summable(g, S),
           \A x \in S : f[x] <= g[x]
    PROVE  SumOn(f, S) <= SumOn(g, S)
<1> DEFINE G == {s \in SUBSET S : SumOn(f, s) <= SumOn(g, s)}
<1>1. ASSUME NEW s \in SUBSET S PROVE Summable(f, s) /\ Summable(g, s)
  BY FS_Subset DEF Summable
<1>2. ASSUME NEW s \in SUBSET S, \A x \in s : s \ {x} \in G PROVE s \in G
  <2>1. CASE s = {}
    <3>1. SumOn(f, {}) = 0 /\ SumOn(g, {}) = 0
      BY SumEmpty
    <3> QED
      BY <2>1, <3>1
  <2>2. CASE s # {}
    <3>1. PICK x \in s : TRUE
      BY <2>2
    <3>2. SumOn(f, s \ {x}) <= SumOn(g, s \ {x})
      BY <1>2, <3>1
    <3>3. /\ SumOn(f, s) = f[x] + SumOn(f, s \ {x})
          /\ SumOn(g, s) = g[x] + SumOn(g, s \ {x})
      BY <1>1, <3>1, SumRemove
    <3>4. SumOn(f, s \ {x}) \in Int /\ SumOn(g, s \ {x}) \in Int
      BY <1>1, <3>1, SumRemove
    <3>5. f[x] <= g[x] /\ f[x] \in Int /\ g[x] \in Int
      BY <3>1 DEF Summable
    <3> QED
      BY <3>2, <3>3, <3>4, <3>5
  <2> QED
    BY <2>1, <2>2
<1>3. IsFiniteSet(S)
  BY DEF Summable
<1>4. \A s \in SUBSET S : s \in G
  <2>1. \A s \in SUBSET S : (\A x \in s : s \ {x} \in G) => s \in G
    BY <1>2
  <2> HIDE DEF G
  <2> QED
    BY <1>3, <2>1, SubsetInduction
<1> QED
  BY <1>4

\* Only the values count.
LEMMA SumSame ==
    ASSUME NEW S, NEW f, NEW g, Summable(f, S), \A x \in S : g[x] = f[x]
    PROVE  SumOn(g, S) = SumOn(f, S)
<1>1. Summable(g, S)
  BY DEF Summable
<1>2. \A x \in S : g[x] <= f[x] /\ f[x] <= g[x]
  BY DEF Summable
<1>3. SumOn(g, S) <= SumOn(f, S) /\ SumOn(f, S) <= SumOn(g, S)
  BY <1>1, <1>2, SumMonotone
<1>4. SumOn(g, S) \in Int /\ SumOn(f, S) \in Int
  BY <1>1, SumRemove
<1> QED
  BY <1>3, <1>4

\* One value changed.
LEMMA SumChange ==
    ASSUME NEW S, NEW f, NEW g, Summable(f, S), NEW a \in S, g[a] \in Int,
           \A x \in S \ {a} : g[x] = f[x]
    PROVE  SumOn(g, S) = SumOn(f, S) + g[a] - f[a]
<1>1. Summable(g, S) /\ Summable(f, S \ {a}) /\ Summable(g, S \ {a})
  BY FS_Subset DEF Summable
<1>2. SumOn(g, S \ {a}) = SumOn(f, S \ {a})
  BY <1>1, SumSame
<1>3. SumOn(f, S) = f[a] + SumOn(f, S \ {a}) /\ SumOn(g, S) = g[a] + SumOn(g, S \ {a})
  BY <1>1, SumRemove
<1>4. SumOn(f, S \ {a}) \in Int /\ f[a] \in Int
  BY <1>1, SumRemove DEF Summable
<1> QED
  BY <1>2, <1>3, <1>4

LEMMA SumOfZeros ==
    ASSUME NEW S, IsFiniteSet(S), NEW f, \A x \in S : f[x] = 0
    PROVE  SumOn(f, S) = 0
<1>1. Summable(f, S) /\ \A x \in S : f[x] = f[x] + f[x]
  BY DEF Summable
<1>2. SumOn(f, S) = SumOn(f, S) + SumOn(f, S)
  BY <1>1, SumAdd
<1>3. SumOn(f, S) \in Int
  BY <1>1, SumRemove
<1>4. \A n \in Int : n = n + n => n = 0
  OBVIOUS
<1> QED
  BY <1>2, <1>3, <1>4

\* Where f is zero nothing is added.
LEMMA SumZeroOutside ==
    ASSUME NEW S, NEW W, NEW f, Summable(f, S), W \subseteq S, \A x \in S \ W : f[x] = 0
    PROVE  SumOn(f, S) = SumOn(f, W)
<1> DEFINE G == {s \in SUBSET S : SumOn(f, s) = SumOn(f, s \cap W)}
<1>1. ASSUME NEW s \in SUBSET S PROVE Summable(f, s) /\ Summable(f, s \cap W)
  BY FS_Subset DEF Summable
<1>2. ASSUME NEW s \in SUBSET S, \A x \in s : s \ {x} \in G PROVE s \in G
  <2>1. CASE s = {}
    <3>1. s \cap W = s
      BY <2>1
    <3> QED
      BY <3>1
  <2>2. CASE s # {}
    <3>1. PICK x \in s : TRUE
      BY <2>2
    <3>2. SumOn(f, s \ {x}) = SumOn(f, (s \ {x}) \cap W)
      BY <1>2, <3>1
    <3>3. SumOn(f, s) = f[x] + SumOn(f, s \ {x}) /\ SumOn(f, s \ {x}) \in Int
      BY <1>1, <3>1, SumRemove
    <3>4. CASE x \in W
      <4>1. x \in s \cap W /\ (s \cap W) \ {x} = (s \ {x}) \cap W
        BY <3>1, <3>4
      <4>2. SumOn(f, s \cap W) = f[x] + SumOn(f, (s \cap W) \ {x})
        BY <1>1, <4>1, SumRemove
      <4> QED
        BY <3>2, <3>3, <4>1, <4>2
    <3>5. CASE x \notin W
      <4>1. s \cap W = (s \ {x}) \cap W /\ f[x] = 0
        BY <3>1, <3>5
      <4>2. SumOn(f, s) = SumOn(f, s \ {x})
        BY <3>3, <4>1
      <4>3. SumOn(f, s) = SumOn(f, s \cap W)
        BY <3>2, <4>1, <4>2
      <4> QED
        BY <4>3
    <3> QED
      BY <3>4, <3>5
  <2> QED
    BY <2>1, <2>2
<1>3. \A s \in SUBSET S : s \in G
  <2>1. \A s \in SUBSET S : (\A x \in s : s \ {x} \in G) => s \in G
    BY <1>2
  <2>2. IsFiniteSet(S)
    BY DEF Summable
  <2> HIDE DEF G
  <2> QED
    BY <2>1, <2>2, SubsetInduction
<1>4. S \cap W = W
  OBVIOUS
<1> QED
  BY <1>3, <1>4

\* A sum of naturals is one, and at least each of them.
LEMMA SumOfNats ==
    ASSUME NEW S, IsFiniteSet(S), NEW f, \A x \in S : f[x] \in Nat
    PROVE  SumOn(f, S) \in Nat /\ \A x \in S : f[x] <= SumOn(f, S)
<1> DEFINE z == [x \in S |-> 0]
<1>1. /\ Summable(f, S) /\ Summable(z, S) /\ \A x \in S : z[x] <= f[x]
      /\ \A s \in SUBSET S : Summable(f, s) /\ Summable(z, s)
  BY FS_Subset DEF Summable
<1>2. \A s \in SUBSET S : SumOn(z, s) = 0
  BY <1>1, SumOfZeros DEF Summable
<1>3. \A s \in SUBSET S : SumOn(f, s) \in Int /\ 0 <= SumOn(f, s)
  <2> TAKE s \in SUBSET S
  <2>1. SumOn(z, s) <= SumOn(f, s)
    BY <1>1, SumMonotone
  <2> QED
    BY <1>1, <1>2, <2>1, SumRemove
<1>4. ASSUME NEW x \in S PROVE f[x] <= SumOn(f, S)
  <2>1. SumOn(f, S) = f[x] + SumOn(f, S \ {x})
    BY <1>1, SumRemove
  <2>2. SumOn(f, S \ {x}) \in Int /\ 0 <= SumOn(f, S \ {x}) /\ f[x] \in Nat
    BY <1>3
  <2> QED
    BY <2>1, <2>2
<1> QED
  BY <1>3, <1>4
=============================================================================
