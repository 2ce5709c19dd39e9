----------------------------- MODULE UsageProofs ----------------------------
(***************************************************************************)
(* Theorems about Usage, for any number of requests, keys and clients, any *)
(* limits in the rows and the settings, and any number of days.            *)
(***************************************************************************)
EXTENDS Usage, TLAPS, FiniteSetTheorems, SequenceTheorems

-----------------------------------------------------------------------------
(* Numbers.                                                                *)

(* A set of numbers that is not empty has a least.                         *)
LEMMA LeastNat ==
  ASSUME NEW S \in SUBSET Nat, S # {}
  PROVE  \E x \in S : \A y \in S : x <= y
  <1> DEFINE R == OpToRel(<, Nat)
  <1>1. \E x \in S : \A y \in S : ~(<<y, x>> \in R)
    <2>1. IsWellFoundedOn(R, Nat)
      BY NatLessThanWellFounded
    <2> HIDE DEF R
    <2> QED BY <2>1, WFMin
  <1>2. PICK x \in S : \A y \in S : ~(<<y, x>> \in R)
    BY <1>1
  <1>3. \A m, n \in Nat : m < n => <<m, n>> \in R
    BY DEF OpToRel
  <1> HIDE DEF R
  <1>4. \A y \in S : x <= y
    <2> SUFFICES ASSUME NEW y \in S PROVE x <= y
      OBVIOUS
    <2>1. x \in Nat /\ y \in Nat /\ ~(y < x)
      BY <1>2, <1>3
    <2> QED BY <2>1
  <1> QED BY <1>4

(* A greatest value: a smallest set without one would lose an element.     *)
GreatestOf(S, f) == \E x \in S : \A y \in S : f[y] <= f[x]

LEMMA GreatestValue ==
  ASSUME NEW D, NEW f \in [D -> Nat], NEW S \in SUBSET D, IsFiniteSet(S), S # {}
  PROVE  GreatestOf(S, f)
  <1> DEFINE Bad(T) == T # {} /\ IsFiniteSet(T) /\ ~GreatestOf(T, f)
             N == {n \in Nat : \E T \in SUBSET D : Bad(T) /\ Cardinality(T) = n}
  <1>1. SUFFICES ASSUME ~GreatestOf(S, f) PROVE FALSE
    OBVIOUS
  <1>2. Cardinality(S) \in N
    BY <1>1, FS_CardinalityType
  <1>3. PICK n \in N : \A m \in N : n <= m
    <2> HIDE DEF N
    <2>1. N \in SUBSET Nat
      BY DEF N
    <2> QED BY <1>2, <2>1, LeastNat
  <1>4. PICK T \in SUBSET D : Bad(T) /\ Cardinality(T) = n
    BY <1>3
  <1>5. PICK x \in T : TRUE
    BY <1>4
  <1>6. /\ IsFiniteSet(T \ {x}) /\ Cardinality(T \ {x}) = n - 1
        /\ n \in Nat /\ Cardinality(T \ {x}) \in Nat
    BY <1>3, <1>4, <1>5, FS_RemoveElement, FS_CardinalityType
  <1>7. n - 1 \notin N
    BY <1>3, <1>6
  <1>8. T \ {x} = {} \/ GreatestOf(T \ {x}, f)
    BY <1>6, <1>7
  <1>9. CASE T \ {x} = {}
    <2>1. \A y \in T : y = x /\ f[x] \in Nat
      BY <1>5, <1>9
    <2>2. GreatestOf(T, f)
      BY <1>5, <2>1 DEF GreatestOf
    <2> QED BY <1>4, <2>2
  <1>10. CASE GreatestOf(T \ {x}, f)
    <2>1. PICK z \in T \ {x} : \A y \in T \ {x} : f[y] <= f[z]
      BY <1>10 DEF GreatestOf
    <2>2. \A y \in T : f[y] \in Nat
      OBVIOUS
    <2>3. CASE f[x] <= f[z]
      <3>1. GreatestOf(T, f)
        BY <2>1, <2>3 DEF GreatestOf
      <3> QED BY <1>4, <3>1
    <2>4. CASE f[z] <= f[x]
      <3>1. \A y \in T : f[y] <= f[x]
        BY <2>1, <2>2, <2>4, <1>5
      <3>2. GreatestOf(T, f)
        BY <3>1, <1>5 DEF GreatestOf
      <3> QED BY <1>4, <3>2
    <2> QED BY <1>5, <2>1, <2>2, <2>3, <2>4
  <1> QED BY <1>8, <1>9, <1>10

LEMMA TimesMonotone ==
  ASSUME NEW a \in Nat, NEW b \in Nat, NEW m \in Nat, a <= b
  PROVE  a * m <= b * m
  <1>1. b * m = a * m + (b - a) * m /\ (b - a) * m \in Nat /\ a * m \in Nat
    <2>1. b - a \in Nat
      OBVIOUS
    <2> QED BY <2>1
  <1> QED BY <1>1

(* What Max picks of the values of a set is no less than any of them.      *)
LEMMA MaxOfValues ==
  ASSUME NEW D, NEW f \in [D -> Nat], NEW S \in SUBSET D, IsFiniteSet(S), S # {}
  PROVE  LET values == {f[x] : x \in S}
         IN  Max(values) \in Nat /\ \A x \in S : f[x] <= Max(values)
  <1> DEFINE values == {f[x] : x \in S}
  <1>1. PICK x \in S : \A y \in S : f[y] <= f[x]
    BY GreatestValue DEF GreatestOf
  <1>2. f[x] \in values /\ \A v \in values : f[x] >= v
    BY <1>1
  <1>3. Max(values) \in values /\ \A v \in values : Max(values) >= v
    <2> HIDE DEF values
    <2> QED BY <1>2 DEF Max
  <1>4. values \subseteq Nat
    OBVIOUS
  <1> QED BY <1>3, <1>4

(* Induction over finite sets, for a property given as a set of them: a    *)
(* smallest set that has it not would have a subset that has it not.       *)
LEMMA SmallestSet ==
  ASSUME NEW D, NEW Good, NEW S \in SUBSET D, IsFiniteSet(S),
         \A T \in SUBSET D :
           IsFiniteSet(T) /\ (\A x \in T : T \ {x} \in Good) => T \in Good
  PROVE  S \in Good
  <1> DEFINE N == {n \in Nat : \E T \in SUBSET D :
                                 T \notin Good /\ IsFiniteSet(T) /\ Cardinality(T) = n}
  <1>1. SUFFICES ASSUME S \notin Good PROVE FALSE
    OBVIOUS
  <1>2. Cardinality(S) \in N
    BY <1>1, FS_CardinalityType
  <1>3. PICK n \in N : \A m \in N : n <= m
    <2> HIDE DEF N
    <2>1. N \in SUBSET Nat
      BY DEF N
    <2> QED BY <1>2, <2>1, LeastNat
  <1>4. PICK T \in SUBSET D : T \notin Good /\ IsFiniteSet(T) /\ Cardinality(T) = n
    BY <1>3
  <1>5. PICK x \in T : T \ {x} \notin Good
    BY <1>4
  <1>6. /\ IsFiniteSet(T \ {x}) /\ Cardinality(T \ {x}) = n - 1
        /\ n \in Nat /\ Cardinality(T \ {x}) \in Nat
    BY <1>3, <1>4, <1>5, FS_RemoveElement, FS_CardinalityType
  <1>7. n - 1 \in N
    BY <1>5, <1>6
  <1> QED BY <1>3, <1>6, <1>7

-----------------------------------------------------------------------------
(* Folds over sets.                                                        *)

Pick(s) == CHOOSE x \in s : TRUE

(* g folds the subsets of S: it takes an element, folds the others and     *)
(* adds what step has of both.                                             *)
IsFold(g, S, step, base) ==
  \A s \in SUBSET S :
    g[s] = IF s = {} THEN base ELSE step[<<Pick(s), g[s \ {Pick(s)}]>>]

(* Such a function exists: one for the subsets of S with x is made of one  *)
(* for those without.                                                      *)
LEMMA FoldExists ==
  ASSUME NEW S, IsFiniteSet(S), NEW V, NEW base \in V, NEW step \in [S \X V -> V]
  PROVE  \E g \in [SUBSET S -> V] : IsFold(g, S, step, base)
  <1> DEFINE Small(n) == {s \in SUBSET S : Cardinality(s) <= n}
             Value(g, s) == IF s = {} THEN base ELSE step[<<Pick(s), g[s \ {Pick(s)}]>>]
             Has(n) == \E g \in [SUBSET S -> V] : \A s \in Small(n) : g[s] = Value(g, s)
             N == {n \in Nat : ~Has(n)}
  <1>1. \A s \in SUBSET S : IsFiniteSet(s) /\ Cardinality(s) \in Nat
                            /\ Cardinality(s) <= Cardinality(S)
    BY FS_Subset, FS_CardinalityType
  <1>2. \A s \in SUBSET S : s # {} => /\ Pick(s) \in s /\ s \ {Pick(s)} \in SUBSET S
                                      /\ Cardinality(s \ {Pick(s)}) = Cardinality(s) - 1
    BY <1>1, FS_RemoveElement DEF Pick
  <1>3. \A g \in [SUBSET S -> V], s \in SUBSET S : Value(g, s) \in V
    <2> SUFFICES ASSUME NEW g \in [SUBSET S -> V], NEW s \in SUBSET S, s # {}
                 PROVE  step[<<Pick(s), g[s \ {Pick(s)}]>>] \in V
      OBVIOUS
    <2>1. Pick(s) \in S /\ g[s \ {Pick(s)}] \in V
      BY <1>2
    <2> QED BY <2>1
  <1>4. Has(0)
    <2> DEFINE g == [s \in SUBSET S |-> base]
    <2>1. \A s \in Small(0) : s = {}
      BY <1>1, FS_EmptySet
    <2>2. g \in [SUBSET S -> V] /\ \A s \in Small(0) : g[s] = Value(g, s)
      BY <2>1
    <2> QED BY <2>2
  <1>5. ASSUME NEW n \in Nat, Has(n) PROVE Has(n + 1)
    <2>1. PICK g \in [SUBSET S -> V] : \A s \in Small(n) : g[s] = Value(g, s)
      BY <1>5
    <2> DEFINE h == [s \in SUBSET S |-> Value(g, s)]
    <2>2. h \in [SUBSET S -> V]
      BY <1>3
    <2>3. \A s \in Small(n) : h[s] = g[s]
      BY <2>1
    <2>4. ASSUME NEW s \in Small(n + 1) PROVE h[s] = Value(h, s)
      <3>1. CASE s = {}
        BY <3>1
      <3>2. CASE s # {}
        <4>1. s \ {Pick(s)} \in Small(n)
          BY <1>1, <1>2, <3>2
        <4>2. h[s \ {Pick(s)}] = g[s \ {Pick(s)}]
          BY <2>3, <4>1
        <4> QED BY <4>2
      <3> QED BY <3>1, <3>2
    <2> HIDE DEF h
    <2> QED BY <2>2, <2>4
  <1>6. \A n \in Nat : Has(n)
    <2> HIDE DEF Has
    <2> SUFFICES ASSUME N # {} PROVE FALSE
      OBVIOUS
    <2>1. N \in SUBSET Nat
      OBVIOUS
    <2>2. PICK n \in N : \A m \in N : n <= m
      <3> HIDE DEF N
      <3> QED BY <2>1, LeastNat
    <2>3. n # 0 /\ n - 1 \in Nat /\ n - 1 \notin N
      BY <1>4, <2>2
    <2>4. Has((n - 1) + 1)
      BY <1>5, <2>3
    <2> QED BY <2>2, <2>3, <2>4
  <1>7. PICK g \in [SUBSET S -> V] : \A s \in Small(Cardinality(S)) : g[s] = Value(g, s)
    <2>1. Cardinality(S) \in Nat
      BY <1>1
    <2>2. Has(Cardinality(S))
      BY <1>6, <2>1
    <2> QED BY <2>2
  <1> QED BY <1>1, <1>7 DEF IsFold
-----------------------------------------------------------------------------
(* Sums.                                                                   *)

SumOver(f, S) == MapThenSumSet(LAMBDA x : f[x], S)

IsSum(g, f, S) ==
  g = [s \in SUBSET S |-> IF s = {} THEN 0 ELSE f[Pick(s)] + g[s \ {Pick(s)}]]

Numbers(f, S) == \A x \in S : f[x] \in Nat

(* Any element may be taken out of any of the sets.                        *)
OrderFree(g, f, S) == \A s \in SUBSET S : \A x \in s : g[s] = f[x] + g[s \ {x}]

LEMMA SumExists ==
  ASSUME NEW S, IsFiniteSet(S), NEW f, Numbers(f, S)
  PROVE  \E g \in [SUBSET S -> Nat] : IsSum(g, f, S)
  <1> DEFINE step == [p \in S \X Nat |-> f[p[1]] + p[2]]
  <1>1. step \in [S \X Nat -> Nat]
    <2> SUFFICES ASSUME NEW p \in S \X Nat PROVE f[p[1]] + p[2] \in Nat
      OBVIOUS
    <2>1. f[p[1]] \in Nat /\ p[2] \in Nat
      BY DEF Numbers
    <2> QED BY <2>1
  <1>2. \A x \in S, n \in Nat : step[<<x, n>>] = f[x] + n
    OBVIOUS
  <1> HIDE DEF step
  <1>3. PICK g \in [SUBSET S -> Nat] : IsFold(g, S, step, 0)
    BY <1>1, FoldExists
  <1>4. ASSUME NEW s \in SUBSET S
        PROVE  g[s] = IF s = {} THEN 0 ELSE f[Pick(s)] + g[s \ {Pick(s)}]
    <2>1. CASE s = {}
      BY <2>1, <1>3 DEF IsFold
    <2>2. CASE s # {}
      <3>1. Pick(s) \in S /\ s \ {Pick(s)} \in SUBSET S
        BY <2>2 DEF Pick
      <3>2. g[s \ {Pick(s)}] \in Nat
        BY <1>3, <3>1
      <3> QED BY <1>2, <1>3, <2>2, <3>1, <3>2 DEF IsFold
    <2> QED BY <2>1, <2>2
  <1>5. IsSum(g, f, S)
    <2>1. g = [s \in SUBSET S |-> g[s]]
      BY <1>3
    <2> QED BY <1>4, <2>1 DEF IsSum
  <1> QED BY <1>3, <1>5

(* The order of the elements does not matter.                              *)
LEMMA SumOrderFree ==
  ASSUME NEW S, IsFiniteSet(S), NEW f, Numbers(f, S),
         NEW g \in [SUBSET S -> Nat], IsSum(g, f, S)
  PROVE  OrderFree(g, f, S)
  <1> DEFINE Good == {s \in SUBSET S : \A x \in s : g[s] = f[x] + g[s \ {x}]}
  <1>1. ASSUME NEW T \in SUBSET S, \A x \in T : T \ {x} \in Good, NEW x \in T
        PROVE  g[T] = f[x] + g[T \ {x}]
    <2> DEFINE p == Pick(T)
    <2>1. p \in T
      BY DEF Pick
    <2>2. g[T] = f[p] + g[T \ {p}]
      BY DEF IsSum
    <2> HIDE DEF p
    <2>3. CASE x = p
      BY <2>2, <2>3
    <2>4. CASE x # p
      <3>1. x \in T \ {p} /\ p \in T \ {x} /\ (T \ {p}) \ {x} = (T \ {x}) \ {p}
        BY <2>1, <2>4
      <3>2. g[T \ {p}] = f[x] + g[(T \ {p}) \ {x}]
        BY <1>1, <2>1, <3>1
      <3>3. g[T \ {x}] = f[p] + g[(T \ {x}) \ {p}]
        BY <1>1, <3>1
      <3>4. f[p] \in Nat /\ f[x] \in Nat /\ g[(T \ {p}) \ {x}] \in Nat
        BY <2>1 DEF Numbers
      <3> HIDE DEF Good
      <3>5. f[p] + (f[x] + g[(T \ {p}) \ {x}]) = f[x] + (f[p] + g[(T \ {p}) \ {x}])
        BY <3>4
      <3> QED BY <2>2, <3>1, <3>2, <3>3, <3>5, Zenon
    <2> QED BY <2>3, <2>4
  <1>2. \A s \in SUBSET S : s \in Good
    <2> SUFFICES ASSUME NEW s \in SUBSET S PROVE s \in Good
      OBVIOUS
    <2>1. IsFiniteSet(s)
      BY FS_Subset
    <2>2. \A T \in SUBSET S : IsFiniteSet(T) /\ (\A x \in T : T \ {x} \in Good) => T \in Good
      BY <1>1
    <2> HIDE DEF Good
    <2> QED BY <2>1, <2>2, SmallestSet
  <1> QED BY <1>2 DEF OrderFree

(* What adds up over a set is what any such function says of it.           *)
LEMMA SumIsFunction ==
  ASSUME NEW S, IsFiniteSet(S), NEW f, Numbers(f, S),
         NEW g \in [SUBSET S -> Nat], IsSum(g, f, S),
         NEW T \in SUBSET S, NEW h, IsSum(h, f, T)
  PROVE  h[T] = g[T]
  <1> DEFINE Good == {s \in SUBSET T : h[s] = g[s]}
  <1>1. ASSUME NEW s \in SUBSET T, \A x \in s : s \ {x} \in Good PROVE s \in Good
    <2>1. h[s] = IF s = {} THEN 0 ELSE f[Pick(s)] + h[s \ {Pick(s)}]
      BY DEF IsSum
    <2>2. g[s] = IF s = {} THEN 0 ELSE f[Pick(s)] + g[s \ {Pick(s)}]
      BY DEF IsSum
    <2>3. s # {} => Pick(s) \in s
      BY DEF Pick
    <2> QED BY <1>1, <2>1, <2>2, <2>3
  <1>2. IsFiniteSet(T)
    BY FS_Subset
  <1> HIDE DEF Good
  <1>3. T \in Good
    BY <1>1, <1>2, SmallestSet
  <1> QED BY <1>3 DEF Good

LEMMA SumEquations ==
  ASSUME NEW S, IsFiniteSet(S), NEW f, Numbers(f, S)
  PROVE  /\ SumOver(f, {}) = 0
         /\ \A T \in SUBSET S : /\ SumOver(f, T) \in Nat
                                /\ \A x \in T : SumOver(f, T) = f[x] + SumOver(f, T \ {x})
  <1>1. PICK g \in [SUBSET S -> Nat] : IsSum(g, f, S)
    BY SumExists
  <1>2. ASSUME NEW T \in SUBSET S PROVE SumOver(f, T) = g[T]
    <2>1. IsFiniteSet(T) /\ Numbers(f, T)
      BY FS_Subset DEF Numbers
    <2>2. \E h : IsSum(h, f, T)
      BY <2>1, SumExists
    <2>3. IsSum(CHOOSE h : IsSum(h, f, T), f, T)
      BY <2>2
    <2>4. SumOver(f, T) = (CHOOSE h : IsSum(h, f, T))[T]
      BY DEF SumOver, MapThenSumSet, MapThenFoldSet, IsSum, Pick
    <2> QED BY <1>1, <2>3, <2>4, SumIsFunction
  <1>3. g[{}] = 0
    BY <1>1 DEF IsSum
  <1>4. {} \in SUBSET S
    OBVIOUS
  <1>5. ASSUME NEW T \in SUBSET S, NEW x \in T PROVE g[T] = f[x] + g[T \ {x}]
    <2>1. OrderFree(g, f, S)
      BY <1>1, SumOrderFree
    <2> QED BY <2>1 DEF OrderFree
  <1>6. ASSUME NEW T \in SUBSET S, NEW x \in T
        PROVE  SumOver(f, T) = f[x] + SumOver(f, T \ {x})
    <2>1. T \ {x} \in SUBSET S
      OBVIOUS
    <2> QED BY <1>2, <1>5, <2>1
  <1> QED BY <1>1, <1>2, <1>3, <1>4, <1>6

LEMMA SumIsAny ==
  ASSUME NEW S, IsFiniteSet(S), NEW f, Numbers(f, S), NEW h, IsSum(h, f, S)
  PROVE  h[S] = SumOver(f, S)
  <1> DEFINE Good == {s \in SUBSET S : h[s] = SumOver(f, s)}
  <1>1. ASSUME NEW s \in SUBSET S, \A x \in s : s \ {x} \in Good PROVE s \in Good
    <2>1. h[s] = IF s = {} THEN 0 ELSE f[Pick(s)] + h[s \ {Pick(s)}]
      BY DEF IsSum
    <2>2. /\ SumOver(f, {}) = 0
          /\ \A x \in s : SumOver(f, s) = f[x] + SumOver(f, s \ {x})
      BY SumEquations
    <2>3. CASE s = {}
      BY <2>1, <2>2, <2>3
    <2>4. CASE s # {}
      <3>1. PICK x \in s : x = Pick(s)
        BY <2>4 DEF Pick
      <3>2. h[s \ {x}] = SumOver(f, s \ {x})
        BY <1>1
      <3>3. h[s] = f[x] + h[s \ {x}]
        BY <2>1, <2>4, <3>1
      <3>4. h[s] = SumOver(f, s)
        BY <2>2, <3>2, <3>3
      <3> QED BY <3>4
    <2> QED BY <2>3, <2>4
  <1> HIDE DEF Good
  <1>2. S \in Good
    BY <1>1, SmallestSet
  <1> QED BY <1>2 DEF Good

LEMMA SumEmpty == ASSUME NEW f PROVE SumOver(f, {}) = 0
  <1>1. IsFiniteSet({}) /\ Numbers(f, {})
    BY FS_EmptySet DEF Numbers
  <1> QED BY <1>1, SumEquations

LEMMA SumType ==
  ASSUME NEW S, IsFiniteSet(S), NEW f, Numbers(f, S)
  PROVE  SumOver(f, S) \in Nat
  BY SumEquations

LEMMA SumRemove ==
  ASSUME NEW S, IsFiniteSet(S), NEW f, Numbers(f, S), NEW x \in S
  PROVE  SumOver(f, S) = f[x] + SumOver(f, S \ {x})
  BY SumEquations

(* Only the values of the elements matter.                                 *)
LEMMA SumAgrees ==
  ASSUME NEW S, IsFiniteSet(S), NEW f, NEW e, Numbers(f, S), \A x \in S : e[x] = f[x]
  PROVE  SumOver(e, S) = SumOver(f, S)
  <1> DEFINE Good == {T \in SUBSET S : SumOver(e, T) = SumOver(f, T)}
  <1>1. ASSUME NEW T \in SUBSET S, IsFiniteSet(T), \A x \in T : T \ {x} \in Good
        PROVE  T \in Good
    <2>1. CASE T = {}
      BY <2>1, SumEmpty
    <2>2. CASE T # {}
      <3>1. PICK x \in T : TRUE
        BY <2>2
      <3>2. Numbers(f, T) /\ Numbers(e, T)
        BY DEF Numbers
      <3>3. /\ SumOver(f, T) = f[x] + SumOver(f, T \ {x})
            /\ SumOver(e, T) = e[x] + SumOver(e, T \ {x})
        BY <1>1, <3>2, SumRemove
      <3> QED BY <1>1, <3>1, <3>3
    <2> QED BY <2>1, <2>2
  <1> HIDE DEF Good
  <1>2. S \in Good
    BY <1>1, SmallestSet
  <1> QED BY <1>2 DEF Good

LEMMA SumMonotone ==
  ASSUME NEW S, IsFiniteSet(S), NEW f, NEW e, Numbers(f, S), Numbers(e, S),
         \A x \in S : e[x] <= f[x]
  PROVE  SumOver(e, S) <= SumOver(f, S)
  <1> DEFINE Good == {T \in SUBSET S : SumOver(e, T) <= SumOver(f, T)}
  <1>1. ASSUME NEW T \in SUBSET S, IsFiniteSet(T), \A x \in T : T \ {x} \in Good
        PROVE  T \in Good
    <2>1. CASE T = {}
      <3>1. SumOver(e, {}) = 0 /\ SumOver(f, {}) = 0
        BY SumEmpty
      <3> QED BY <2>1, <3>1
    <2>2. CASE T # {}
      <3>1. PICK x \in T : TRUE
        BY <2>2
      <3>2. /\ Numbers(f, T) /\ Numbers(e, T) /\ IsFiniteSet(T \ {x})
            /\ Numbers(f, T \ {x}) /\ Numbers(e, T \ {x})
        BY <1>1, FS_RemoveElement DEF Numbers
      <3>3. /\ SumOver(f, T) = f[x] + SumOver(f, T \ {x})
            /\ SumOver(e, T) = e[x] + SumOver(e, T \ {x})
        BY <1>1, <3>2, SumRemove
      <3>4. SumOver(f, T \ {x}) \in Nat /\ SumOver(e, T \ {x}) \in Nat
        BY <3>2, SumType
      <3>5. SumOver(e, T \ {x}) <= SumOver(f, T \ {x})
        BY <1>1, <3>1
      <3>6. f[x] \in Nat /\ e[x] \in Nat /\ e[x] <= f[x]
        BY <3>1 DEF Numbers
      <3> HIDE DEF Good
      <3>7. SumOver(e, T) <= SumOver(f, T)
        BY <3>3, <3>4, <3>5, <3>6
      <3> QED BY <3>7 DEF Good
    <2> QED BY <2>1, <2>2
  <1> HIDE DEF Good
  <1>2. S \in Good
    BY <1>1, SmallestSet
  <1> QED BY <1>2 DEF Good

LEMMA SumDisjoint ==
  ASSUME NEW A, NEW B, IsFiniteSet(A), IsFiniteSet(B), A \cap B = {},
         NEW f, Numbers(f, A), Numbers(f, B)
  PROVE  SumOver(f, A \cup B) = SumOver(f, A) + SumOver(f, B)
  <1> DEFINE Good == {T \in SUBSET A : SumOver(f, T \cup B) = SumOver(f, T) + SumOver(f, B)}
  <1>b. SumOver(f, B) \in Nat
    BY SumType
  <1>1. ASSUME NEW T \in SUBSET A, IsFiniteSet(T), \A x \in T : T \ {x} \in Good
        PROVE  T \in Good
    <2>1. CASE T = {}
      <3>1. SumOver(f, {}) = 0 /\ {} \cup B = B
        BY SumEmpty
      <3> QED BY <1>b, <2>1, <3>1
    <2>2. CASE T # {}
      <3>1. PICK x \in T : TRUE
        BY <2>2
      <3>2. /\ Numbers(f, T) /\ Numbers(f, T \ {x}) /\ Numbers(f, T \cup B)
            /\ IsFiniteSet(T \ {x}) /\ IsFiniteSet(T \cup B)
        BY <1>1, FS_RemoveElement, FS_Union DEF Numbers
      <3>3. (T \cup B) \ {x} = (T \ {x}) \cup B
        BY <3>1
      <3>4. /\ SumOver(f, T) = f[x] + SumOver(f, T \ {x})
            /\ SumOver(f, T \cup B) = f[x] + SumOver(f, (T \ {x}) \cup B)
        BY <1>1, <3>1, <3>2, <3>3, SumRemove
      <3>5. SumOver(f, T \ {x}) \in Nat /\ f[x] \in Nat
        BY <3>1, <3>2, SumType DEF Numbers
      <3>6. SumOver(f, (T \ {x}) \cup B) = SumOver(f, T \ {x}) + SumOver(f, B)
        BY <1>1, <3>1
      <3> HIDE DEF Good
      <3>7. SumOver(f, T \cup B) = SumOver(f, T) + SumOver(f, B)
        BY <1>b, <3>4, <3>5, <3>6
      <3> QED BY <3>7 DEF Good
    <2> QED BY <2>1, <2>2
  <1> HIDE DEF Good
  <1>2. A \in Good
    BY <1>1, SmallestSet
  <1> QED BY <1>2 DEF Good

LEMMA SumSubset ==
  ASSUME NEW S, IsFiniteSet(S), NEW f, Numbers(f, S), NEW T \in SUBSET S
  PROVE  SumOver(f, T) <= SumOver(f, S)
  <1>1. /\ IsFiniteSet(T) /\ IsFiniteSet(S \ T) /\ T \cap (S \ T) = {} /\ S = T \cup (S \ T)
        /\ Numbers(f, T) /\ Numbers(f, S \ T)
    BY FS_Subset DEF Numbers
  <1>2. SumOver(f, T) \in Nat /\ SumOver(f, S \ T) \in Nat
    BY <1>1, SumType
  <1>3. SumOver(f, T \cup (S \ T)) = SumOver(f, T) + SumOver(f, S \ T)
    BY <1>1, SumDisjoint
  <1>4. SumOver(f, S) = SumOver(f, T) + SumOver(f, S \ T)
    BY <1>1, <1>3
  <1> QED BY <1>2, <1>4

LEMMA SumCounts ==
  ASSUME NEW S, IsFiniteSet(S), NEW f, \A x \in S : f[x] = 1
  PROVE  SumOver(f, S) = Cardinality(S)
  <1> DEFINE Good == {T \in SUBSET S : SumOver(f, T) = Cardinality(T)}
  <1>1. ASSUME NEW T \in SUBSET S, IsFiniteSet(T), \A x \in T : T \ {x} \in Good
        PROVE  T \in Good
    <2>1. CASE T = {}
      BY <2>1, SumEmpty, FS_EmptySet
    <2>2. CASE T # {}
      <3>1. PICK x \in T : TRUE
        BY <2>2
      <3>2. Numbers(f, T)
        BY DEF Numbers
      <3>3. SumOver(f, T) = 1 + SumOver(f, T \ {x})
        BY <1>1, <3>1, <3>2, SumRemove
      <3>4. Cardinality(T \ {x}) = Cardinality(T) - 1 /\ Cardinality(T) \in Nat
        BY <1>1, <3>1, FS_RemoveElement, FS_CardinalityType
      <3>5. SumOver(f, T \ {x}) = Cardinality(T \ {x})
        BY <1>1, <3>1
      <3> HIDE DEF Good
      <3>6. SumOver(f, T) = Cardinality(T)
        BY <3>3, <3>4, <3>5
      <3> QED BY <3>6 DEF Good
    <2> QED BY <2>1, <2>2
  <1> HIDE DEF Good
  <1>2. S \in Good
    BY <1>1, SmallestSet
  <1> QED BY <1>2 DEF Good

LEMMA SumBounded ==
  ASSUME NEW S, IsFiniteSet(S), NEW f, Numbers(f, S), NEW m \in Nat, \A x \in S : f[x] <= m
  PROVE  SumOver(f, S) <= Cardinality(S) * m
  <1> DEFINE Good == {T \in SUBSET S : SumOver(f, T) <= Cardinality(T) * m}
  <1>1. ASSUME NEW T \in SUBSET S, IsFiniteSet(T), \A x \in T : T \ {x} \in Good
        PROVE  T \in Good
    <2>1. CASE T = {}
      <3>1. SumOver(f, {}) = 0 /\ Cardinality({}) = 0
        BY SumEmpty, FS_EmptySet
      <3> QED BY <2>1, <3>1
    <2>2. CASE T # {}
      <3>1. PICK x \in T : TRUE
        BY <2>2
      <3> DEFINE n == Cardinality(T)
                 rest == SumOver(f, T \ {x})
      <3>2. Numbers(f, T) /\ Numbers(f, T \ {x}) /\ IsFiniteSet(T \ {x})
        BY <1>1, FS_RemoveElement DEF Numbers
      <3>3. SumOver(f, T) = f[x] + rest /\ rest \in Nat /\ f[x] \in Nat /\ f[x] <= m
        BY <1>1, <3>1, <3>2, SumRemove, SumType DEF Numbers
      <3>4. Cardinality(T \ {x}) = n - 1 /\ n \in Nat
        BY <1>1, <3>1, FS_RemoveElement, FS_CardinalityType
      <3>5. rest <= (n - 1) * m
        BY <1>1, <3>1, <3>4
      <3>6. (n - 1) * m = n * m - m /\ n * m \in Int /\ (n - 1) * m \in Int
        BY <3>4
      <3> HIDE DEF Good, n, rest
      <3>7. SumOver(f, T) <= n * m
        BY <3>3, <3>5, <3>6
      <3> QED BY <3>7 DEF Good, n
    <2> QED BY <2>1, <2>2
  <1> HIDE DEF Good
  <1>2. S \in Good
    BY <1>1, SmallestSet
  <1> QED BY <1>2 DEF Good

Part(R, h, g) == {r \in R : h[r] = g}
Split(R, h, G) == \A r \in R : h[r] \in G
AddsUp(p, f, R, h, G) == \A g \in G : p[g] = SumOver(f, Part(R, h, g))

(* What the parts of a set add up to, when h says which part an element is *)
(* in, adds up to what the set does.                                       *)
LEMMA SumOfParts ==
  ASSUME NEW R, IsFiniteSet(R), NEW f, Numbers(f, R),
         NEW G, IsFiniteSet(G), NEW h, Split(R, h, G), NEW p, AddsUp(p, f, R, h, G)
  PROVE  SumOver(p, G) = SumOver(f, R)
  <1> DEFINE Of(H) == {r \in R : h[r] \in H}
             Good == {H \in SUBSET G : SumOver(p, H) = SumOver(f, Of(H))}
  <1>p. Numbers(p, G)
    <2> SUFFICES ASSUME NEW g \in G PROVE SumOver(f, Part(R, h, g)) \in Nat
      BY DEF Numbers, AddsUp
    <2>1. IsFiniteSet(Part(R, h, g)) /\ Numbers(f, Part(R, h, g))
      BY FS_Subset DEF Numbers, Part
    <2> QED BY <2>1, SumType
  <1>1. ASSUME NEW H \in SUBSET G, IsFiniteSet(H), \A x \in H : H \ {x} \in Good
        PROVE  H \in Good
    <2>1. CASE H = {}
      <3>1. Of(H) = {}
        BY <2>1
      <3> QED BY <2>1, <3>1, SumEmpty
    <2>2. CASE H # {}
      <3>1. PICK x \in H : TRUE
        BY <2>2
      <3> DEFINE A == Part(R, h, x)
                 B == Of(H \ {x})
      <3>2. Numbers(p, H)
        BY <1>p DEF Numbers
      <3>3. SumOver(p, H) = SumOver(f, A) + SumOver(p, H \ {x})
        <4>1. SumOver(p, H) = p[x] + SumOver(p, H \ {x})
          BY <1>1, <3>1, <3>2, SumRemove
        <4> QED BY <3>1, <4>1 DEF AddsUp
      <3>4. SumOver(p, H \ {x}) = SumOver(f, B)
        BY <1>1, <3>1
      <3>5. Of(H) = A \cup B /\ A \cap B = {} /\ A \in SUBSET R /\ B \in SUBSET R
        BY <3>1 DEF Part
      <3> HIDE DEF A, B
      <3>6. IsFiniteSet(A) /\ IsFiniteSet(B) /\ Numbers(f, A) /\ Numbers(f, B)
        BY <3>5, FS_Subset DEF Numbers
      <3>7. SumOver(f, A \cup B) = SumOver(f, A) + SumOver(f, B)
        BY <3>5, <3>6, SumDisjoint
      <3> QED BY <3>3, <3>4, <3>5, <3>7
    <2> QED BY <2>1, <2>2
  <1>2. G \in Good
    <2> HIDE DEF Good
    <2> QED BY <1>1, SmallestSet
  <1>3. Of(G) = R
    BY DEF Split
  <1> QED BY <1>2, <1>3

(* The same for how many they are.                                         *)
LEMMA CountOfParts ==
  ASSUME NEW R, IsFiniteSet(R), NEW G, IsFiniteSet(G), NEW h, Split(R, h, G),
         NEW p, \A g \in G : p[g] = Cardinality(Part(R, h, g))
  PROVE  SumOver(p, G) = Cardinality(R)
  <1> DEFINE one == [r \in R |-> 1]
  <1>1. Numbers(one, R)
    BY DEF Numbers
  <1>2. ASSUME NEW T \in SUBSET R PROVE SumOver(one, T) = Cardinality(T)
    <2>1. IsFiniteSet(T) /\ \A x \in T : one[x] = 1
      BY FS_Subset
    <2> QED BY <2>1, SumCounts
  <1>3. AddsUp(p, one, R, h, G)
    BY <1>2 DEF AddsUp, Part
  <1> HIDE DEF one
  <1>4. SumOver(p, G) = SumOver(one, R)
    BY <1>1, <1>3, SumOfParts
  <1> QED BY <1>2, <1>4

-----------------------------------------------------------------------------
(* Sorting.                                                                *)

LEMMA CountUpTo ==
  ASSUME NEW n \in Nat
  PROVE  IsFiniteSet(1 .. n) /\ Cardinality(1 .. n) = n
  <1>1. IsFiniteSet(1 .. n) /\ Cardinality(1 .. n) = IF 1 > n THEN 0 ELSE n - 1 + 1
    BY FS_Interval
  <1> QED BY <1>1

(* The elements of S in a row, by what f has of them.                      *)
InOrder(p, S, f) ==
  /\ p \in Bijection(1 .. Cardinality(S), S)
  /\ \A i, j \in 1 .. Cardinality(S) : i <= j => f[p[i]] <= f[p[j]]

(* Every finite set can be put in order: the greatest comes last.          *)
LEMMA OrderExists ==
  ASSUME NEW D, NEW f \in [D -> Nat], NEW S \in SUBSET D, IsFiniteSet(S)
  PROVE  \E p : InOrder(p, S, f)
  <1> DEFINE Good == {T \in SUBSET D : \E p : InOrder(p, T, f)}
  <1>1. ASSUME NEW T \in SUBSET D, IsFiniteSet(T), \A x \in T : T \ {x} \in Good
        PROVE  T \in Good
    <2>1. CASE T = {}
      <3>1. Cardinality(T) = 0 /\ 1 .. 0 = {}
        BY <2>1, FS_EmptySet
      <3> DEFINE p == [i \in {} |-> i]
      <3>2. p \in Bijection({}, {})
        BY DEF Bijection, Injection, Surjection, IsInjective
      <3>3. InOrder(p, T, f)
        BY <2>1, <3>1, <3>2 DEF InOrder
      <3> QED BY <3>3
    <2>2. CASE T # {}
      <3>1. PICK x \in T : \A y \in T : f[y] <= f[x]
        BY <1>1, <2>2, GreatestValue DEF GreatestOf
      <3>2. PICK m \in Nat : m = Cardinality(T \ {x}) /\ Cardinality(T) = m + 1
        <4>1. /\ IsFiniteSet(T \ {x}) /\ Cardinality(T \ {x}) = Cardinality(T) - 1
              /\ Cardinality(T) \in Nat
          BY <1>1, <3>1, FS_RemoveElement, FS_CardinalityType
        <4>2. Cardinality(T \ {x}) \in Nat
          BY <4>1, FS_CardinalityType
        <4>3. Cardinality(T) = Cardinality(T \ {x}) + 1
          BY <4>1
        <4> QED BY <4>2, <4>3
      <3>3. PICK p : InOrder(p, T \ {x}, f)
        BY <1>1, <3>1
      <3>4. /\ p \in [1 .. m -> T \ {x}]
            /\ \A i, j \in 1 .. m : p[i] = p[j] => i = j
            /\ \A y \in T \ {x} : \E i \in 1 .. m : p[i] = y
            /\ \A i, j \in 1 .. m : i <= j => f[p[i]] <= f[p[j]]
        BY <3>2, <3>3 DEF InOrder, Bijection, Injection, Surjection, IsInjective
      <3> DEFINE q == [i \in 1 .. m + 1 |-> IF i = m + 1 THEN x ELSE p[i]]
      <3>5. /\ q[m + 1] = x /\ \A i \in 1 .. m : q[i] = p[i]
            /\ m + 1 \in 1 .. m + 1 /\ \A i \in 1 .. m : i \in 1 .. m + 1 /\ i # m + 1
            /\ \A i \in 1 .. m + 1 : i \in 1 .. m \/ i = m + 1
        <4>1. /\ m + 1 \in 1 .. m + 1 /\ \A i \in 1 .. m : i \in 1 .. m + 1 /\ i # m + 1
              /\ \A i \in 1 .. m + 1 : i \in 1 .. m \/ i = m + 1
          OBVIOUS
        <4> QED BY <4>1, Zenon
      <3>6. q \in [1 .. m + 1 -> T]
        BY <3>1, <3>4, <3>5
      <3> HIDE DEF q
      <3>7. \A i, j \in 1 .. m + 1 : q[i] = q[j] => i = j
        BY <3>4, <3>5
      <3>8. \A y \in T : \E i \in 1 .. m + 1 : q[i] = y
        BY <3>4, <3>5
      <3>9. \A i, j \in 1 .. m + 1 : i <= j => f[q[i]] <= f[q[j]]
        <4> SUFFICES ASSUME NEW i \in 1 .. m + 1, NEW j \in 1 .. m + 1, i <= j
                     PROVE  f[q[i]] <= f[q[j]]
          OBVIOUS
        <4>1. CASE j = m + 1
          BY <3>1, <3>5, <3>6, <4>1
        <4>2. CASE j # m + 1
          <5>1. i \in 1 .. m /\ j \in 1 .. m
            BY <3>2, <4>2
          <5> QED BY <3>4, <3>5, <5>1
        <4> QED BY <4>1, <4>2
      <3>10. q \in Bijection(1 .. m + 1, T)
        <4>1. IsInjective(q)
          BY <3>6, <3>7 DEF IsInjective
        <4> QED BY <3>6, <3>8, <4>1 DEF Bijection, Injection, Surjection
      <3>11. InOrder(q, T, f)
        BY <3>2, <3>9, <3>10 DEF InOrder
      <3> QED BY <3>11
    <2> QED BY <2>1, <2>2
  <1> HIDE DEF Good
  <1>2. S \in Good
    BY <1>1, SmallestSet
  <1> QED BY <1>2 DEF Good

(* s has the values in order.                                              *)
SortsTo(values, s) ==
  LET places == 1 .. Len(values)
  IN  /\ s \in [places -> Nat]
      /\ \A i, j \in places : i <= j => s[i] <= s[j]
      /\ \E p \in Bijection(places, places) : \A i \in places : s[i] = values[p[i]]

LEMMA SortedSorts ==
  ASSUME NEW values \in Seq(Nat)
  PROVE  /\ SortsTo(values, Sorted(values))
         /\ Sorted(values) \in Seq(Nat) /\ Len(Sorted(values)) = Len(values)
  <1> DEFINE places == 1 .. Len(values)
             Orders(p) == \A i, j \in places : i <= j => values[p[i]] <= values[p[j]]
             order == CHOOSE p \in Bijection(places, places) : Orders(p)
  <1>1. Len(values) \in Nat /\ values \in [places -> Nat]
    BY LenProperties
  <1>2. IsFiniteSet(places) /\ Cardinality(places) = Len(values)
    BY <1>1, CountUpTo
  <1>3. \E p \in Bijection(places, places) : Orders(p)
    <2>1. places \in SUBSET places
      OBVIOUS
    <2>2. PICK p : InOrder(p, places, values)
      <3> HIDE DEF places
      <3> QED BY <1>1, <1>2, <2>1, OrderExists
    <2> QED BY <1>2, <2>2 DEF InOrder
  <1>4. order \in Bijection(places, places) /\ Orders(order)
    <2> HIDE DEF Orders
    <2> QED BY <1>3
  <1>5. Sorted(values) = [i \in places |-> values[order[i]]]
    BY DEF Sorted
  <1> HIDE DEF order
  <1>6. order \in [places -> places]
    BY <1>4 DEF Bijection, Injection
  <1>7. Sorted(values) \in [places -> Nat]
    BY <1>1, <1>5, <1>6
  <1>8. SortsTo(values, Sorted(values))
    BY <1>4, <1>5, <1>7 DEF SortsTo
  <1>9. Sorted(values) \in Seq(Nat) /\ Len(Sorted(values)) = Len(values)
    BY <1>1, <1>7, LenProperties, IsASeq
  <1> QED BY <1>8, <1>9

LEMMA SortedFacts ==
  ASSUME NEW values \in Seq(Nat), NEW s \in Seq(Nat), SortsTo(values, s)
  PROVE  LET n == Len(values)
         IN  /\ n \in Nat /\ Len(s) = n /\ values \in [1 .. n -> Nat] /\ s \in [1 .. n -> Nat]
             /\ \A i, j \in 1 .. n : i <= j => s[i] <= s[j]
             /\ \A i \in 1 .. n : \E j \in 1 .. n : values[i] = s[j]
             /\ \A i \in 1 .. n : \E j \in 1 .. n : s[i] = values[j]
  <1>1. PICK n \in Nat : n = Len(values)
    BY LenProperties
  <1>2. values \in [1 .. n -> Nat] /\ s \in [1 .. n -> Nat] /\ s \in [1 .. Len(s) -> Nat]
        /\ Len(s) \in Nat
    BY <1>1, LenProperties DEF SortsTo
  <1>3. Len(s) = n
    <2>1. 1 .. Len(s) = 1 .. n
      BY <1>2
    <2> QED BY <1>2, <2>1, CountUpTo
  <1>4. PICK p \in Bijection(1 .. n, 1 .. n) : \A i \in 1 .. n : s[i] = values[p[i]]
    BY <1>1 DEF SortsTo
  <1>5. p \in [1 .. n -> 1 .. n] /\ \A j \in 1 .. n : \E i \in 1 .. n : p[i] = j
    BY DEF Bijection, Injection, Surjection
  <1>6. \A i \in 1 .. n : \E j \in 1 .. n : values[i] = s[j]
    <2> SUFFICES ASSUME NEW i \in 1 .. n PROVE \E j \in 1 .. n : values[i] = s[j]
      OBVIOUS
    <2>1. PICK j \in 1 .. n : p[j] = i
      BY <1>5
    <2>2. values[i] = s[j]
      BY <1>4, <2>1
    <2> QED BY <2>2
  <1>7. \A i \in 1 .. n : \E j \in 1 .. n : s[i] = values[j]
    BY <1>4, <1>5
  <1>8. \A i, j \in 1 .. n : i <= j => s[i] <= s[j]
    BY <1>1 DEF SortsTo
  <1> QED BY <1>1, <1>2, <1>3, <1>6, <1>7, <1>8

Among(s, V) == {i \in 1 .. Len(s) : s[i] \in V}

(* As many of them are in any set of numbers.                              *)
LEMMA SortedCounts ==
  ASSUME NEW values \in Seq(Nat), NEW s \in Seq(Nat), SortsTo(values, s), NEW V
  PROVE  Cardinality(Among(values, V)) = Cardinality(Among(s, V))
  <1>1. PICK n \in Nat : n = Len(values)
    BY LenProperties
  <1>2. PICK p \in Bijection(1 .. n, 1 .. n) : \A i \in 1 .. n : s[i] = values[p[i]]
    BY <1>1 DEF SortsTo
  <1>3. /\ p \in [1 .. n -> 1 .. n] /\ \A j \in 1 .. n : \E i \in 1 .. n : p[i] = j
        /\ \A i, j \in 1 .. n : p[i] = p[j] => i = j
    BY DEF Bijection, Injection, Surjection, IsInjective
  <1> DEFINE A == {i \in 1 .. n : s[i] \in V}
             B == {i \in 1 .. n : values[i] \in V}
             q == [i \in A |-> p[i]]
  <1>4. q \in [A -> B] /\ IsInjective(q) /\ \A j \in B : \E i \in A : q[i] = j
    <2>1. q \in [A -> B]
      BY <1>2, <1>3
    <2>2. IsInjective(q)
      BY <1>3 DEF IsInjective
    <2>3. ASSUME NEW j \in B PROVE \E i \in A : q[i] = j
      <3>1. PICK i \in 1 .. n : p[i] = j
        BY <1>3
      <3>2. s[i] \in V
        BY <1>2, <3>1
      <3> QED BY <3>1, <3>2
    <2> QED BY <2>1, <2>2, <2>3
  <1>5. ExistsBijection(A, B)
    <2>1. q \in Bijection(A, B)
      BY <1>4 DEF Bijection, Injection, Surjection
    <2> QED BY <2>1 DEF ExistsBijection
  <1>6. IsFiniteSet(A)
    BY CountUpTo, FS_Subset
  <1>7. Cardinality(B) = Cardinality(A)
    BY <1>5, <1>6, FS_Bijection
  <1>8. Len(s) = n
    BY <1>1, SortedFacts
  <1>9. Among(values, V) = B /\ Among(s, V) = A
    BY <1>1, <1>8 DEF Among
  <1> QED BY <1>7, <1>9

(* And they add up to as much.                                             *)
LEMMA FoldIsSum ==
  ASSUME NEW s \in Seq(Nat)
  PROVE  FoldSeq(+, 0, s) = SumOver(s, 1 .. Len(s))
  <1>1. DOMAIN s = 1 .. Len(s)
    BY LenProperties
  <1>2. FoldSeq(+, 0, s) = SumOver(s, DOMAIN s)
    BY DEF FoldSeq, FoldFunction, FoldFunctionOnSet, SumOver, MapThenSumSet
  <1> QED BY <1>1, <1>2

LEMMA SortedSum ==
  ASSUME NEW values \in Seq(Nat), NEW s \in Seq(Nat), SortsTo(values, s)
  PROVE  FoldSeq(+, 0, s) = FoldSeq(+, 0, values) /\ FoldSeq(+, 0, s) \in Nat
  <1>1. PICK n \in Nat : n = Len(values)
    BY LenProperties
  <1>2. Len(s) = n /\ values \in [1 .. n -> Nat] /\ s \in [1 .. n -> Nat]
    BY <1>1, SortedFacts
  <1>3. PICK p \in Bijection(1 .. n, 1 .. n) : \A i \in 1 .. n : s[i] = values[p[i]]
    BY <1>1 DEF SortsTo
  <1>4. /\ p \in [1 .. n -> 1 .. n] /\ \A j \in 1 .. n : \E i \in 1 .. n : p[i] = j
        /\ \A i, j \in 1 .. n : p[i] = p[j] => i = j
    BY DEF Bijection, Injection, Surjection, IsInjective
  <1>5. IsFiniteSet(1 .. n) /\ Numbers(s, 1 .. n) /\ Numbers(values, 1 .. n)
    BY <1>2, CountUpTo DEF Numbers
  <1>6. ASSUME NEW g \in 1 .. n PROVE values[g] = SumOver(s, Part(1 .. n, p, g))
    <2>1. PICK i \in 1 .. n : p[i] = g
      BY <1>4
    <2>2. Part(1 .. n, p, g) = {i}
      <3>1. \A x \in 1 .. n : p[x] = g <=> x = i
        BY <1>4, <2>1
      <3> QED BY <3>1 DEF Part
    <2>3. IsFiniteSet({i}) /\ Numbers(s, {i}) /\ {i} \ {i} = {}
      BY <1>5, FS_Singleton DEF Numbers
    <2>4. SumOver(s, {i}) = s[i] + SumOver(s, {})
      BY <2>3, SumRemove
    <2>5. SumOver(s, {}) = 0 /\ s[i] \in Nat /\ s[i] = values[g]
      BY <1>2, <1>3, <2>1, SumEmpty
    <2>6. SumOver(s, {i}) = values[g]
      BY <2>4, <2>5
    <2> QED BY <2>2, <2>6
  <1>7. SumOver(values, 1 .. n) = SumOver(s, 1 .. n)
    <2>1. \A i \in 1 .. n : p[i] \in 1 .. n
      BY <1>4
    <2>2. \A g \in 1 .. n : values[g] = SumOver(s, Part(1 .. n, p, g))
      BY <1>6
    <2> DEFINE R == 1 .. n
    <2> HIDE DEF R
    <2>3. IsFiniteSet(R) /\ Numbers(s, R) /\ Split(R, p, R) /\ AddsUp(values, s, R, p, R)
      BY <1>5, <2>1, <2>2 DEF R, Split, AddsUp
    <2>4. SumOver(values, R) = SumOver(s, R)
      BY <2>3, SumOfParts
    <2> QED BY <2>4 DEF R
  <1>8. SumOver(s, 1 .. n) \in Nat
    BY <1>5, SumType
  <1> QED BY <1>1, <1>2, <1>7, <1>8, FoldIsSum

-----------------------------------------------------------------------------
(* Rounding.                                                               *)

LEMMA Quotient ==
  ASSUME NEW a \in Nat, NEW b \in Nat \ {0}
  PROVE  /\ a \div b \in Nat /\ a % b \in Nat /\ a % b < b
         /\ b * (a \div b) \in Nat /\ a = b * (a \div b) + (a % b)
  OBVIOUS

(* No more than a half from the quotient.                                  *)
LEMMA RoundedIsNear ==
  ASSUME NEW a \in Nat, NEW b \in Nat \ {0}
  PROVE  /\ RoundedQuotient(a, b) \in Nat
         /\ 2 * b * RoundedQuotient(a, b) - 2 * a \in -b .. b
  <1> DEFINE q == a \div b
             r == a % b
             m == b * q
  <1>1. q \in Nat /\ r \in Nat /\ r < b /\ m \in Nat /\ a = m + r
    BY Quotient
  <1>2. RoundedQuotient(a, b) = CASE 2 * r < b -> q
                                  [] 2 * r > b -> q + 1
                                  [] OTHER -> q + (q % 2)
    BY DEF RoundedQuotient
  <1>3. 2 * b * q = 2 * m /\ 2 * b * (q + 1) = 2 * m + 2 * b /\ q % 2 \in {0, 1}
    BY <1>1
  <1> HIDE DEF q, r, m
  <1>4. CASE 2 * r < b
    <2>1. RoundedQuotient(a, b) = q
      BY <1>1, <1>2, <1>4
    <2> QED BY <1>1, <1>3, <1>4, <2>1
  <1>5. CASE 2 * r > b
    <2>1. RoundedQuotient(a, b) = q + 1
      BY <1>1, <1>2, <1>5
    <2> QED BY <1>1, <1>3, <1>5, <2>1
  <1>6. CASE 2 * r = b
    <2>1. RoundedQuotient(a, b) = q \/ RoundedQuotient(a, b) = q + 1
      BY <1>1, <1>2, <1>3, <1>6
    <2> QED BY <1>1, <1>3, <1>6, <2>1
  <1> QED BY <1>1, <1>4, <1>5, <1>6

(* Of hundredths: no less when there are more, and exact when there is     *)
(* nothing to round.                                                       *)
LEMMA RoundedHundredths ==
  ASSUME NEW a \in Nat, NEW b \in Nat, a <= b
  PROVE  RoundedQuotient(a, 100) <= RoundedQuotient(b, 100)
  BY DEF RoundedQuotient

LEMMA RoundedExactly ==
  ASSUME NEW a \in Nat
  PROVE  RoundedQuotient(100 * a, 100) = a
  BY DEF RoundedQuotient

-----------------------------------------------------------------------------
(* Percentiles.                                                            *)

(* So many hundredths of the way from x to y.                              *)
Mix(x, y, past) == x * (100 - past) + y * past
Rounded(x, y, past) == RoundedQuotient(Mix(x, y, past), 100)

LEMMA MixIs ==
  ASSUME NEW x \in Nat, NEW y \in Nat, NEW d \in Nat, y = x + d, NEW past \in Nat, past <= 99
  PROVE  /\ d * past \in Nat /\ d * past <= d * 100
         /\ Mix(x, y, past) = 100 * x + d * past
  <1>1. d * past \in Nat /\ d * past <= d * 100
    <2>1. past * d <= 100 * d
      BY TimesMonotone
    <2> QED BY <2>1
  <1>2. x * (100 - past) = 100 * x - x * past /\ (x + d) * past = x * past + d * past
        /\ x * past \in Nat
    OBVIOUS
  <1>3. Mix(x, y, past) = 100 * x + d * past
    BY <1>1, <1>2 DEF Mix
  <1> QED BY <1>1, <1>3

(* Hundredths between two values round to between them.                    *)
LEMMA RoundedBetween ==
  ASSUME NEW x \in Nat, NEW y \in Nat, x <= y, NEW past \in Nat, past <= 99
  PROVE  /\ Rounded(x, y, past) \in Nat
         /\ x <= Rounded(x, y, past)
         /\ Rounded(x, y, past) <= y
  <1>1. PICK d \in Nat : y = x + d
    BY y - x \in Nat
  <1>2. PICK m : m = Mix(x, y, past)
    OBVIOUS
  <1>3. m \in Nat /\ 100 * x <= m /\ m <= 100 * y
    <2>1. /\ d * past \in Nat /\ d * past <= d * 100
          /\ Mix(x, y, past) = 100 * x + d * past
      BY <1>1, MixIs
    <2>2. PICK e \in Nat : e = d * past
      BY <2>1
    <2>3. m = 100 * x + e /\ e <= 100 * d
      BY <1>2, <2>1, <2>2
    <2> QED BY <1>1, <2>3
  <1>4. RoundedQuotient(m, 100) \in Nat
    BY <1>3, RoundedIsNear
  <1>5. /\ RoundedQuotient(100 * x, 100) <= RoundedQuotient(m, 100)
        /\ RoundedQuotient(m, 100) <= RoundedQuotient(100 * y, 100)
    BY <1>3, RoundedHundredths
  <1> QED BY <1>2, <1>4, <1>5, RoundedExactly DEF Rounded

LEMMA RoundedOrdered ==
  ASSUME NEW x \in Nat, NEW y \in Nat, x <= y, NEW a \in Nat, NEW b \in Nat, a <= b, b <= 99
  PROVE  Rounded(x, y, a) <= Rounded(x, y, b)
  <1>1. PICK d \in Nat : y = x + d
    BY y - x \in Nat
  <1>2. PICK m, n : m = Mix(x, y, a) /\ n = Mix(x, y, b)
    OBVIOUS
  <1>3. m = 100 * x + d * a /\ n = 100 * x + d * b /\ d * a \in Nat /\ d * b \in Nat
    <2>1. Mix(x, y, a) = 100 * x + d * a /\ d * a \in Nat
      BY <1>1, MixIs
    <2>2. Mix(x, y, b) = 100 * x + d * b /\ d * b \in Nat
      BY <1>1, MixIs
    <2> QED BY <1>2, <2>1, <2>2
  <1>4. a * d <= b * d
    BY TimesMonotone
  <1>5. m \in Nat /\ n \in Nat /\ m <= n
    BY <1>3, <1>4
  <1> QED BY <1>2, <1>5, RoundedHundredths DEF Rounded

Ascending(s, n) ==
  s \in [1 .. n -> Nat] /\ \A i, j \in 1 .. n : i <= j => s[i] <= s[j]

(* Percentile p lies past the f-th value, counted from zero, by so many    *)
(* hundredths of the way to the next.                                      *)
Lies(s, n, p, f, past) ==
  /\ f \in Nat /\ past \in 0 .. 99 /\ (n - 1) * p = 100 * f + past /\ f + 1 \in 1 .. n
  /\ Percentile(s, p) \in Nat /\ s[f + 1] <= Percentile(s, p)
  /\ past = 0 => Percentile(s, p) = s[f + 1]
  /\ past # 0 => /\ f + 2 \in 1 .. n /\ Percentile(s, p) <= s[f + 2]
                 /\ Percentile(s, p) =
                      Rounded(s[f + 1], s[f + 2], past)

LEMMA PercentileLies ==
  ASSUME NEW n \in Nat \ {0}, NEW s, Ascending(s, n), Len(s) = n, NEW p \in {50, 95}
  PROVE  LET k == (n - 1) * p IN Lies(s, n, p, k \div 100, k % 100)
  <1> DEFINE k == (n - 1) * p
             f == k \div 100
             past == k % 100
  <1>1. k \in Nat /\ k <= (n - 1) * 95
    OBVIOUS
  <1>2. f \in Nat /\ past \in 0 .. 99 /\ k = 100 * f + past
    BY <1>1
  <1>3. Percentile(s, p) =
          IF past = 0 THEN s[f + 1]
          ELSE Rounded(s[f + 1], s[f + 2], past)
    BY DEF Percentile, Mix, Rounded
  <1> HIDE DEF f, past
  <1>4. f + 1 \in 1 .. n /\ (past # 0 => f + 2 \in 1 .. n)
    BY <1>1, <1>2
  <1> HIDE DEF k
  <1>s. s \in [1 .. n -> Nat] /\ \A i, j \in 1 .. n : i <= j => s[i] <= s[j]
    BY DEF Ascending
  <1>5. CASE past = 0
    <2>1. s[f + 1] \in Nat /\ Percentile(s, p) = s[f + 1]
      BY <1>3, <1>4, <1>5, <1>s
    <2>2. Lies(s, n, p, f, past)
      BY <1>2, <1>4, <1>5, <2>1 DEF Lies, k
    <2> QED BY <2>2 DEF f, past, k
  <1>6. CASE past # 0
    <2>1. PICK x \in Nat, y \in Nat : x = s[f + 1] /\ y = s[f + 2] /\ x <= y
      BY <1>2, <1>4, <1>6, <1>s
    <2>2. Percentile(s, p) = Rounded(x, y, past)
      BY <1>3, <1>6, <2>1
    <2>3. Percentile(s, p) \in Nat /\ x <= Percentile(s, p) /\ Percentile(s, p) <= y
      <3>1. Rounded(x, y, past) \in Nat /\ x <= Rounded(x, y, past) /\ Rounded(x, y, past) <= y
        <4>1. PICK z \in Nat : z = past /\ z <= 99
          BY <1>2
        <4>2. Rounded(x, y, z) \in Nat /\ x <= Rounded(x, y, z) /\ Rounded(x, y, z) <= y
          <5>1. x <= y /\ z <= 99
            BY <2>1, <4>1
          <5> QED BY <5>1, RoundedBetween
        <4> QED BY <4>1, <4>2
      <3> QED BY <2>2, <3>1
    <2>4. Lies(s, n, p, f, past)
      BY <1>2, <1>4, <1>6, <2>1, <2>2, <2>3 DEF Lies, k
    <2> QED BY <2>4 DEF f, past, k
  <1> QED BY <1>5, <1>6

(* The 50th is not above the 95th.                                         *)
LEMMA PercentilesOrdered ==
  ASSUME NEW n \in Nat \ {0}, NEW s, Ascending(s, n), Len(s) = n
  PROVE  Percentile(s, 50) <= Percentile(s, 95) /\ Percentile(s, 95) <= s[n]
  <1>1. PICK f, past : Lies(s, n, 50, f, past)
    BY 50 \in {50, 95}, PercentileLies
  <1>2. PICK g, more : Lies(s, n, 95, g, more)
    BY 95 \in {50, 95}, PercentileLies
  <1>3. /\ f \in Nat /\ past \in 0 .. 99 /\ (n - 1) * 50 = 100 * f + past /\ f + 1 \in 1 .. n
        /\ g \in Nat /\ more \in 0 .. 99 /\ (n - 1) * 95 = 100 * g + more /\ g + 1 \in 1 .. n
        /\ past # 0 => f + 2 \in 1 .. n
        /\ more # 0 => g + 2 \in 1 .. n
    BY <1>1, <1>2 DEF Lies
  <1>4. f <= g /\ (f = g => past <= more) /\ n \in 1 .. n
    BY <1>3
  <1>5. s \in [1 .. n -> Nat] /\ \A i, j \in 1 .. n : i <= j => s[i] <= s[j]
    BY DEF Ascending
  <1>6. PICK P \in Nat, Q \in Nat : P = Percentile(s, 50) /\ Q = Percentile(s, 95)
    BY <1>1, <1>2 DEF Lies
  <1>7. Q <= s[n]
    <2>1. CASE more = 0
      <3>1. Q = s[g + 1]
        BY <1>2, <1>6, <2>1 DEF Lies
      <3> QED BY <1>3, <1>4, <1>5, <3>1
    <2>2. CASE more # 0
      <3>1. Q <= s[g + 2] /\ g + 2 \in 1 .. n
        BY <1>2, <1>6, <2>2 DEF Lies
      <3>2. s[g + 2] \in Nat /\ s[n] \in Nat /\ s[g + 2] <= s[n]
        BY <1>3, <1>4, <1>5, <3>1
      <3> QED BY <3>1, <3>2
    <2> QED BY <2>1, <2>2
  <1>8. P <= Q
    <2>0. s[f + 1] \in Nat /\ s[g + 1] \in Nat /\ s[f + 1] <= s[g + 1] /\ s[g + 1] <= Q
      <3>1. s[g + 1] <= Q
        BY <1>2, <1>6 DEF Lies
      <3> QED BY <1>3, <1>4, <1>5, <3>1
    <2>1. CASE past = 0
      <3>1. P = s[f + 1]
        BY <1>1, <1>6, <2>1 DEF Lies
      <3> QED BY <2>0, <3>1
    <2>2. CASE past # 0 /\ f < g
      <3>1. P <= s[f + 2] /\ f + 2 \in 1 .. n
        BY <1>1, <1>6, <2>2 DEF Lies
      <3>2. f + 2 <= g + 1
        BY <1>3, <2>2
      <3>3. s[f + 2] \in Nat /\ s[f + 2] <= s[g + 1]
        BY <1>3, <1>5, <3>1, <3>2
      <3> QED BY <2>0, <3>1, <3>3
    <2>3. CASE past # 0 /\ f = g
      <3>1. past <= more /\ more # 0 /\ f + 2 \in 1 .. n
        BY <1>3, <1>4, <2>3
      <3>2. PICK x \in Nat, y \in Nat : x = s[f + 1] /\ y = s[f + 2] /\ x <= y
        BY <1>3, <1>5, <3>1
      <3>3. /\ P = Rounded(x, y, past)
            /\ Q = Rounded(x, y, more)
        BY <1>1, <1>2, <1>6, <2>3, <3>1, <3>2 DEF Lies
      <3>4. past \in Nat /\ more \in Nat /\ past <= more /\ more <= 99
        BY <1>3, <3>1
      <3>5. Rounded(x, y, past) <= Rounded(x, y, more)
        BY <3>2, <3>4, RoundedOrdered
      <3> QED BY <3>3, <3>5
    <2> QED BY <1>3, <1>4, <2>1, <2>2, <2>3
  <1> QED BY <1>6, <1>7, <1>8

LEMMA CountFirst ==
  ASSUME NEW n \in Nat, NEW A \in SUBSET (1 .. n), NEW b \in Nat, 1 .. b \subseteq A
  PROVE  Cardinality(A) \in Nat /\ Cardinality(A) >= b
  <1>1. IsFiniteSet(A) /\ Cardinality(A) \in Nat
    BY CountUpTo, FS_Subset, FS_CardinalityType
  <1>2. Cardinality(1 .. b) <= Cardinality(A)
    BY <1>1, FS_Subset
  <1> QED BY <1>1, <1>2, CountUpTo

LEMMA CountLast ==
  ASSUME NEW n \in Nat, NEW A \in SUBSET (1 .. n), NEW c \in 0 .. n, c + 1 .. n \subseteq A
  PROVE  Cardinality(A) \in Nat /\ Cardinality(A) >= n - c
  <1>1. IsFiniteSet(A) /\ Cardinality(A) \in Nat
    BY CountUpTo, FS_Subset, FS_CardinalityType
  <1>2. Cardinality(c + 1 .. n) <= Cardinality(A)
    BY <1>1, FS_Subset
  <1>3. Cardinality(c + 1 .. n) = IF c + 1 > n THEN 0 ELSE n - (c + 1) + 1
    BY FS_Interval
  <1> QED BY <1>1, <1>2, <1>3

LEMMA PercentileCounts ==
  ASSUME NEW values \in Seq(Nat), Len(values) # 0, NEW s \in Seq(Nat), SortsTo(values, s),
         NEW p \in {50, 95}
  PROVE  IsPercentile(values, p, Percentile(s, p))
  <1> DEFINE n == Len(values)
             v == Percentile(s, p)
             k == (n - 1) * p
             f == k \div 100
             past == k % 100
  <1>1. /\ n \in Nat \ {0} /\ Len(s) = n /\ values \in [1 .. n -> Nat] /\ s \in [1 .. n -> Nat]
        /\ \A i, j \in 1 .. n : i <= j => s[i] <= s[j]
    BY SortedFacts
  <1>a. Ascending(s, n) /\ Len(s) = n /\ n \in Nat \ {0}
    BY <1>1 DEF Ascending
  <1> HIDE DEF n
  <1>2. /\ f \in Nat /\ past \in 0 .. 99 /\ k = 100 * f + past /\ f + 1 \in 1 .. n
        /\ v \in Nat /\ s[f + 1] <= v
        /\ past = 0 => v = s[f + 1]
        /\ past # 0 => f + 2 \in 1 .. n /\ v <= s[f + 2]
    <2>1. Lies(s, n, p, f, past)
      BY <1>a, PercentileLies
    <2> HIDE DEF f, past
    <2> QED BY <2>1 DEF Lies
  <1> HIDE DEF v, f, past, k
  <1>3. Cardinality({i \in 1 .. n : values[i] <= v}) >= f + 1
    <2> DEFINE V == 0 .. v
    <2>1. 1 .. f + 1 \subseteq Among(s, V)
      <3> SUFFICES ASSUME NEW i \in 1 .. f + 1 PROVE i \in 1 .. n /\ s[i] \in 0 .. v
        BY <1>1 DEF Among
      <3>1. i \in 1 .. n /\ s[i] \in Nat /\ s[f + 1] \in Nat /\ s[i] <= s[f + 1]
        BY <1>1, <1>2
      <3> QED BY <1>2, <3>1
    <2>2. Among(s, V) \in SUBSET (1 .. n) /\ f + 1 \in Nat /\ n \in Nat
      BY <1>1, <1>2 DEF Among
    <2> HIDE DEF V
    <2>3. Cardinality(Among(s, V)) >= f + 1
      BY <2>1, <2>2, CountFirst
    <2>4. Cardinality(Among(values, V)) = Cardinality(Among(s, V))
      BY SortedCounts
    <2>5. {i \in 1 .. n : values[i] <= v} = Among(values, V)
      BY <1>1, <1>2 DEF Among, V, n
    <2> QED BY <2>3, <2>4, <2>5
  <1>4. Cardinality({i \in 1 .. n : values[i] >= v}) >= n - (k + 99) \div 100
    <2> DEFINE V == {m \in Nat : m >= v}
               c == (k + 99) \div 100
    <2>1. c = IF past = 0 THEN f ELSE f + 1
      BY <1>2
    <2>2. c \in 0 .. n - 1 /\ v <= s[c + 1] /\ c + 1 \in 1 .. n /\ c \in 0 .. n
      BY <1>1, <1>2, <2>1
    <2> HIDE DEF c
    <2>3. c + 1 .. n \subseteq Among(s, V)
      <3> SUFFICES ASSUME NEW i \in c + 1 .. n PROVE i \in 1 .. n /\ s[i] \in Nat /\ s[i] >= v
        BY <1>1 DEF Among
      <3>1. i \in 1 .. n /\ s[i] \in Nat /\ s[c + 1] \in Nat /\ s[c + 1] <= s[i]
        BY <1>1, <2>2
      <3> QED BY <1>2, <2>2, <3>1
    <2>4. Among(s, V) \in SUBSET (1 .. n) /\ n \in Nat
      BY <1>1 DEF Among
    <2> HIDE DEF V
    <2>5. Cardinality(Among(s, V)) >= n - c
      BY <2>2, <2>3, <2>4, CountLast
    <2>6. Cardinality(Among(values, V)) = Cardinality(Among(s, V))
      BY SortedCounts
    <2>7. {i \in 1 .. n : values[i] >= v} = Among(values, V)
      BY <1>1 DEF V, n, Among
    <2> QED BY <2>5, <2>6, <2>7 DEF c
  <1> QED BY <1>3, <1>4 DEF IsPercentile, n, v, k, f

(* The statistics of /admin/observability are what their names say, of     *)
(* every sample: as many as were measured, the longest of them, the two    *)
(* percentiles in order, and the average no further off than rounding is.  *)
THEOREM LatencyIsRight ==
  ASSUME NEW values \in Seq(Nat)
  PROVE  AreStatsOf(LatencyStats(values), values)
  <1> DEFINE s == Sorted(values)
             stats == LatencyStats(values)
  <1>1. PICK n \in Nat : n = Len(values)
    BY LenProperties
  <1>2. SortsTo(values, s) /\ s \in Seq(Nat) /\ Len(s) = n
    BY <1>1, SortedSorts
  <1>3. stats = StatsOfSorted(s)
    BY DEF LatencyStats
  <1> HIDE DEF s, stats
  <1>4. CASE n = 0
    <2>1. s = <<>>
      BY <1>2, <1>4, EmptySeq
    <2>2. stats = [count |-> 0]
      BY <1>3, <2>1 DEF StatsOfSorted, NoStats
    <2>3. stats.count = 0
      BY <2>2
    <2> DEFINE total == FoldSeq(+, 0, values)
    <2>4. AreStatsOf(stats, values) <=>
            /\ stats.count = n
            /\ n > 0 =>
                 /\ \A i \in 1 .. n : values[i] <= stats.max
                 /\ \E i \in 1 .. n : values[i] = stats.max
                 /\ IsPercentile(values, 50, stats.p50)
                 /\ IsPercentile(values, 95, stats.p95)
                 /\ stats.p50 <= stats.p95 /\ stats.p95 <= stats.max
                 /\ 2 * n * stats.avg - 2 * total \in -n .. n
      BY <1>1 DEF AreStatsOf
    <2> HIDE DEF total
    <2> QED BY <1>4, <2>3, <2>4 DEF stats
  <1>5. CASE n # 0
    <2> DEFINE sum == FoldSeq(+, 0, s)
    <2>1. s # <<>>
      BY <1>2, <1>5, EmptySeq
    <2>2. stats = [count |-> n, avg |-> RoundedQuotient(sum, n), p50 |-> Percentile(s, 50),
                   p95 |-> Percentile(s, 95), max |-> s[n]]
      BY <1>2, <1>3, <2>1 DEF StatsOfSorted
    <2>3. sum = FoldSeq(+, 0, values) /\ sum \in Nat
      BY <1>2, SortedSum
    <2> HIDE DEF sum
    <2>4. /\ stats.count = n /\ stats.avg = RoundedQuotient(sum, n)
          /\ stats.p50 = Percentile(s, 50) /\ stats.p95 = Percentile(s, 95) /\ stats.max = s[n]
      BY <2>2
    <2>5. /\ s \in [1 .. n -> Nat] /\ values \in [1 .. n -> Nat]
          /\ \A i, j \in 1 .. n : i <= j => s[i] <= s[j]
          /\ \A i \in 1 .. n : \E j \in 1 .. n : values[i] = s[j]
          /\ \A i \in 1 .. n : \E j \in 1 .. n : s[i] = values[j]
      <3>1. /\ s \in [1 .. Len(values) -> Nat] /\ values \in [1 .. Len(values) -> Nat]
            /\ \A i, j \in 1 .. Len(values) : i <= j => s[i] <= s[j]
            /\ \A i \in 1 .. Len(values) : \E j \in 1 .. Len(values) : values[i] = s[j]
            /\ \A i \in 1 .. Len(values) : \E j \in 1 .. Len(values) : s[i] = values[j]
        BY <1>2, SortedFacts
      <3> QED BY <1>1, <3>1
    <2>6. n \in 1 .. n /\ n \in Nat \ {0}
      BY <1>5
    <2>7. \A i \in 1 .. n : values[i] <= s[n]
      <3> SUFFICES ASSUME NEW i \in 1 .. n PROVE values[i] <= s[n]
        OBVIOUS
      <3>1. PICK j \in 1 .. n : values[i] = s[j]
        BY <2>5
      <3>2. j <= n
        OBVIOUS
      <3> QED BY <2>5, <2>6, <3>1, <3>2
    <2>8. \E i \in 1 .. n : values[i] = s[n]
      BY <2>5, <2>6
    <2>9. IsPercentile(values, 50, Percentile(s, 50)) /\ IsPercentile(values, 95, Percentile(s, 95))
      <3>1. 50 \in {50, 95} /\ 95 \in {50, 95} /\ Len(values) # 0
        BY <1>1, <1>5
      <3> QED BY <1>2, <3>1, PercentileCounts
    <2>10. Percentile(s, 50) <= Percentile(s, 95) /\ Percentile(s, 95) <= s[n]
      <3>1. Ascending(s, n)
        BY <2>5 DEF Ascending
      <3> QED BY <1>2, <2>6, <3>1, PercentilesOrdered
    <2>11. 2 * n * RoundedQuotient(sum, n) - 2 * sum \in -n .. n
      BY <2>3, <2>6, RoundedIsNear
    <2>12. AreStatsOf(stats, values)
      <3> DEFINE P50 == Percentile(s, 50)
                 P95 == Percentile(s, 95)
                 A == RoundedQuotient(sum, n)
                 total == FoldSeq(+, 0, values)
      <3> HIDE DEF P50, P95, A, total
      <3>1. IsPercentile(values, 50, P50) /\ IsPercentile(values, 95, P95) /\ P50 <= P95
            /\ P95 <= s[n] /\ 2 * n * A - 2 * total \in -n .. n
        BY <2>3, <2>9, <2>10, <2>11 DEF P50, P95, A, total
      <3>2. stats.count = n /\ stats.avg = A /\ stats.p50 = P50 /\ stats.p95 = P95
        BY <2>4 DEF P50, P95, A
      <3>3. IsPercentile(values, 50, stats.p50) /\ IsPercentile(values, 95, stats.p95)
        BY <3>1, <3>2
      <3> QED BY <1>1, <2>4, <2>7, <2>8, <3>1, <3>2, <3>3 DEF AreStatsOf, total
    <2> QED BY <2>12 DEF stats
  <1> QED BY <1>4, <1>5

-----------------------------------------------------------------------------
(* Limits.                                                                 *)

LEMMA EffectiveType ==
  ASSUME NEW r \in Req, carried[r] \in Policies, NEW field \in Fields
  PROVE  Effective(r, field) \in Nat
  <1>1. /\ KeyPolicy[KeyOf[r]] \in Policies /\ DefaultPolicy[field] \in Int
        /\ KeyPolicy[KeyOf[r]][field] \in Int \cup {NULL}
        /\ carried[r][field] \in Int \cup {NULL}
    BY UsageAssumption DEF Policies
  <1> QED BY <1>1 DEF Effective, Resolve

(* The limiter is asked with the limit of the request.                     *)
LEMMA LimitOfRequest ==
  ASSUME NEW r \in Req
  PROVE  [k \in Key |-> Effective(r, "requests_per_minute")][KeyOf[r]]
           = Effective(r, "requests_per_minute")
  BY UsageAssumption

-----------------------------------------------------------------------------
(* The inductive invariant.                                                *)

(* Error and record come at the end of a request; nobody starts tomorrow.  *)
Endings ==
  \A r \in Req :
    /\ recorded[r] # "none" \/ answer[r] # "none" => stage[r] \in {"over", "gone"}
    /\ started[r] <= day

PeakIsMost == \A k \in Key : Cardinality(UnderWay(k)) <= peak[k]

LogType == log \in [Key -> Seq(Nat)]

QuotaOf(r) == Effective(r, "requests_per_day")

(* The requests of k that are on record for day d or may come to be.       *)
MayCount(k, d) ==
  {r \in Req : /\ KeyOf[r] = k
               /\ \/ recorded[r] # "none" /\ started[r] = d
                  \/ stage[r] = "serving" /\ started[r] = d
                  \/ stage[r] = "routing" /\ day <= d}

(* Some request of T, the last that passed its precheck, was let through   *)
(* when the others did not exceed its quota but by what was under way.     *)
LetThrough(T, k) ==
  \E r \in T : QuotaOf(r) = 0 \/ Cardinality(T) < QuotaOf(r) + peak[k]

(* It holds of every set that may come to be on record together, so that   *)
(* it does not matter which of them are.                                   *)
QuotaInv ==
  \A k \in Key, d \in 0 .. LastDay : \A T \in SUBSET MayCount(k, d) :
    T # {} => LetThrough(T, k)

IndInv ==
  /\ TypeOK /\ LogType /\ Endings /\ PeakIsMost /\ LimiterPaidByAll /\ QuotaInv

(* Those LimiterPaidByAll counts.                                          *)
Paying(k) ==
  {r \in Req : /\ KeyOf[r] = k
               /\ stage[r] \in {"routing", "serving", "over"}
               /\ answer[r] # "rate_limit_exceeded"
               /\ Effective(r, "requests_per_minute") > 0}

LEMMA SetsAreFinite ==
  /\ IsFiniteSet(Req) /\ Cardinality(Req) \in Nat
  /\ \A T \in SUBSET Req :
       IsFiniteSet(T) /\ Cardinality(T) \in Nat /\ Cardinality(T) <= Cardinality(Req)
  BY UsageAssumption, FS_Subset, FS_CardinalityType

LEMMA InitIndInv == Init => IndInv
  <1> SUFFICES ASSUME Init PROVE IndInv
    OBVIOUS
  <1>1. TypeOK
    <2>1. Cardinality(Req) \in Nat
      BY SetsAreFinite
    <2>2. [f \in Fields |-> NULL] \in Policies
      BY DEF Policies
    <2>3. [start |-> -1, count |-> 0] \in [start : Int, count : Nat]
      OBVIOUS
    <2> HIDE DEF Policies
    <2>4. 0 \in 0 .. LastTick /\ 0 \in 0 .. LastDay /\ 0 \in 0 .. Cardinality(Req)
      BY <2>1, UsageAssumption
    <2>5. windows \in [Key -> [start : Int, count : Nat]]
      BY <2>3, Zenon DEF Init
    <2>6. policy \in [Client -> Policies] /\ carried \in [Req -> Policies]
      BY <2>2, Zenon DEF Init
    <2> QED BY <2>4, <2>5, <2>6 DEF Init, TypeOK, Stages
  <1>2. LogType
    BY EmptySeq DEF Init, LogType
  <1>3. Endings
    BY DEF Init, Endings
  <1>4. PeakIsMost
    <2>1. \A k \in Key : UnderWay(k) = {} /\ peak[k] = 0
      BY DEF Init, UnderWay
    <2>2. \A k \in Key : Cardinality(UnderWay(k)) = 0
      BY <2>1, FS_EmptySet
    <2> QED BY <2>1, <2>2 DEF PeakIsMost
  <1>5. LimiterPaidByAll
    <2>1. \A k \in Key : Paying(k) = {}
      BY DEF Init, Paying
    <2> QED BY <2>1, FS_EmptySet DEF Init, LimiterPaidByAll, Paying
  <1>6. QuotaInv
    <2>1. \A k \in Key, d \in 0 .. LastDay : MayCount(k, d) = {}
      BY DEF Init, MayCount
    <2> QED BY <2>1 DEF QuotaInv
  <1> QED BY <1>1, <1>2, <1>3, <1>4, <1>5, <1>6 DEF IndInv

-----------------------------------------------------------------------------
(* What the steps have in common.                                          *)

(* A step after which no more may count than before, and no fewer were     *)
(* under way together.                                                     *)
LEMMA QuotaKept ==
  ASSUME TypeOK, TypeOK', QuotaInv,
         \A k \in Key, d \in 0 .. LastDay : MayCount(k, d)' \subseteq MayCount(k, d),
         \A k \in Key, d \in 0 .. LastDay : \A r \in MayCount(k, d)' :
           QuotaOf(r)' = QuotaOf(r),
         \A k \in Key : peak[k] <= peak'[k]
  PROVE  QuotaInv'
  <1> SUFFICES ASSUME NEW k \in Key, NEW d \in 0 .. LastDay,
                      NEW T \in SUBSET MayCount(k, d)', T # {}
               PROVE  LetThrough(T, k)'
    BY DEF QuotaInv
  <1>1. PICK r \in T : QuotaOf(r) = 0 \/ Cardinality(T) < QuotaOf(r) + peak[k]
    BY DEF QuotaInv, LetThrough
  <1>2. QuotaOf(r)' = QuotaOf(r) /\ peak[k] <= peak'[k]
    OBVIOUS
  <1>3. r \in Req /\ QuotaOf(r) \in Nat
    <2>1. r \in Req
      BY DEF MayCount
    <2>2. carried[r] \in Policies
      BY <2>1 DEF TypeOK
    <2> QED BY <2>1, <2>2, EffectiveType DEF QuotaOf, Fields
  <1>4. T \in SUBSET Req
    BY DEF MayCount
  <1>5. Cardinality(T) \in Nat /\ peak[k] \in Nat /\ peak'[k] \in Nat
    BY <1>4, SetsAreFinite DEF TypeOK
  <1> QED BY <1>1, <1>2, <1>3, <1>5 DEF LetThrough

(* Limits stay those that were read.                                       *)
LEMMA EffectiveStays ==
  ASSUME NEW r, NEW field, carried'[r] = carried[r]
  PROVE  Effective(r, field)' = Effective(r, field)
  BY DEF Effective

(* A step of requests that have not been prechecked, or of none.           *)
LEMMA SetsStay ==
  ASSUME \A r \in Req : \/ stage'[r] = stage[r] /\ carried'[r] = carried[r]
                        \/ {stage[r], stage'[r]} \subseteq {"new", "authenticated"},
         UNCHANGED <<answer, recorded, started>>, day <= day',
         day \in Int, day' \in Int, LastDay \in Nat, Endings
  PROVE  /\ \A k \in Key : UnderWay(k)' = UnderWay(k) /\ Paying(k)' = Paying(k)
         /\ \A k \in Key, d \in 0 .. LastDay :
              /\ MayCount(k, d)' \subseteq MayCount(k, d)
              /\ \A r \in MayCount(k, d)' : QuotaOf(r)' = QuotaOf(r)
  <1>1. \A r \in Req : stage[r] \notin {"new", "authenticated"} => carried'[r] = carried[r]
    OBVIOUS
  <1>2. \A r \in Req : stage[r] \notin {"new", "authenticated"} =>
           /\ Effective(r, "requests_per_minute")' = Effective(r, "requests_per_minute")
           /\ QuotaOf(r)' = QuotaOf(r)
    BY <1>1, EffectiveStays DEF QuotaOf
  <1>3. \A k \in Key : UnderWay(k)' = UnderWay(k)
    BY DEF UnderWay
  <1>4. ASSUME NEW k \in Key PROVE Paying(k)' = Paying(k)
    BY <1>2 DEF Paying
  <1>5. ASSUME NEW k \in Key, NEW d \in 0 .. LastDay
        PROVE  /\ MayCount(k, d)' \subseteq MayCount(k, d)
               /\ \A r \in MayCount(k, d)' : QuotaOf(r)' = QuotaOf(r)
    BY <1>2 DEF MayCount, Endings
  <1> QED BY <1>3, <1>4, <1>5

(* A step after which no more are under way than before.                   *)
LEMMA PeakKept ==
  ASSUME TypeOK, PeakIsMost, peak' = peak,
         \A k \in Key : UnderWay(k)' \subseteq UnderWay(k)
  PROVE  PeakIsMost'
  <1> SUFFICES ASSUME NEW k \in Key PROVE Cardinality(UnderWay(k)') <= peak[k]
    BY DEF PeakIsMost
  <1>1. UnderWay(k) \in SUBSET Req
    BY DEF UnderWay
  <1>2. Cardinality(UnderWay(k)') <= Cardinality(UnderWay(k))
    BY <1>1, SetsAreFinite, FS_Subset
  <1>3. /\ Cardinality(UnderWay(k)) \in Nat /\ Cardinality(UnderWay(k)') \in Nat
        /\ peak[k] \in Nat
    <2>1. UnderWay(k)' \in SUBSET Req
      BY <1>1
    <2> QED BY <1>1, <2>1, SetsAreFinite DEF TypeOK
  <1> QED BY <1>2, <1>3 DEF PeakIsMost

(* The limiter was not paid, and those that pay are the same.              *)
LEMMA PaidKept ==
  ASSUME LimiterPaidByAll, log' = log, \A k \in Key : Paying(k)' = Paying(k)
  PROVE  LimiterPaidByAll'
  BY DEF LimiterPaidByAll, Paying

(* check() of the limiter, with the limit of the request.                  *)
LEMMA WindowIsInt ==
  ASSUME NEW r, now \in Nat
  PROVE  Limiter(r)!WindowOf(now) \in Int
  <1>1. Scale * WindowSeconds \in Nat \ {0}
    BY UsageAssumption
  <1>2. \A w \in Nat \ {0} : now % w \in Int
    BY SMT
  <1> QED BY <1>1, <1>2 DEF Limiter!WindowOf, Limiter!Window

LEMMA Charged ==
  ASSUME TypeOK, LogType, NEW r \in Req, LimiterAdmits(r)
  PROVE  /\ now' = now /\ windows' \in [Key -> [start : Int, count : Nat]] /\ LogType'
         /\ Effective(r, "requests_per_minute") = 0 => log' = log
         /\ Effective(r, "requests_per_minute") > 0 =>
              /\ Len(log'[KeyOf[r]]) = Len(log[KeyOf[r]]) + 1
              /\ \A k \in Key \ {KeyOf[r]} : log'[k] = log[k]
  <1> DEFINE key == KeyOf[r]
             limit == Effective(r, "requests_per_minute")
  <1>1. key \in Key /\ limit \in Nat /\ now \in Nat
    BY UsageAssumption, EffectiveType DEF TypeOK, Fields
  <1>2. CASE Limiter(r)!CheckUnlimited(key)
    <2>1. limit = 0 /\ UNCHANGED <<now, windows, log>>
      BY <1>1, <1>2, LimitOfRequest DEF Limiter!CheckUnlimited
    <2> QED BY <1>1, <2>1 DEF TypeOK, LogType
  <1>3. ASSUME NEW w \in [start : Int, count : Nat], limit > 0, Limiter(r)!Admit(key, w)
        PROVE  /\ now' = now /\ windows' \in [Key -> [start : Int, count : Nat]] /\ LogType'
               /\ Len(log'[key]) = Len(log[key]) + 1
               /\ \A k \in Key \ {key} : log'[k] = log[k]
    <2>1. /\ now' = now /\ windows' = [windows EXCEPT ![key] = w]
          /\ log' = [log EXCEPT ![key] = Append(@, now)]
      BY <1>3 DEF Limiter!Admit
    <2>2. log[key] \in Seq(Nat)
      BY <1>1 DEF LogType
    <2>3. Append(log[key], now) \in Seq(Nat) /\ Len(Append(log[key], now)) = Len(log[key]) + 1
      BY <1>1, <2>2, AppendProperties
    <2> HIDE DEF key
    <2>4. LogType'
      BY <1>1, <2>1, <2>3 DEF LogType
    <2>5. windows' \in [Key -> [start : Int, count : Nat]]
      BY <1>1, <2>1 DEF TypeOK
    <2> QED BY <1>1, <2>1, <2>3, <2>4, <2>5 DEF LogType
  <1>4. CASE Limiter(r)!CheckNewWindow(key)
    <2> DEFINE w == [start |-> Limiter(r)!WindowOf(now), count |-> 1]
    <2>1. w \in [start : Int, count : Nat]
      BY <1>1, WindowIsInt
    <2>2. limit > 0 /\ Limiter(r)!Admit(key, w)
      BY <1>4, LimitOfRequest DEF Limiter!CheckNewWindow
    <2> HIDE DEF w, key, limit
    <2>3. limit # 0
      BY <1>1, <2>2
    <2> QED BY <1>1, <1>3, <2>1, <2>2, <2>3 DEF limit, key
  <1>5. CASE Limiter(r)!CheckCounted(key)
    <2> DEFINE w == [windows[key] EXCEPT !.count = @ + 1]
    <2>1. w \in [start : Int, count : Nat]
      <3>1. windows[key] \in [start : Int, count : Nat]
        BY <1>1 DEF TypeOK
      <3> QED BY <3>1
    <2>2. limit > 0 /\ Limiter(r)!Admit(key, w)
      BY <1>5, LimitOfRequest DEF Limiter!CheckCounted
    <2> HIDE DEF w, key, limit
    <2>3. limit # 0
      BY <1>1, <2>2
    <2> QED BY <1>1, <1>3, <2>1, <2>2, <2>3 DEF limit, key
  <1> QED BY <1>2, <1>4, <1>5 DEF LimiterAdmits

-----------------------------------------------------------------------------
(* The steps.                                                              *)

(* Reading a policy, writing one, and the clocks.                          *)
LEMMA QuietKeeps ==
  ASSUME IndInv, UNCHANGED <<log, answer, recorded, started, tokens, peak>>,
         \A r \in Req : \/ stage'[r] = stage[r] /\ carried'[r] = carried[r]
                        \/ {stage[r], stage'[r]} \subseteq {"new", "authenticated"},
         day <= day', day' \in 0 .. LastDay, now' \in 0 .. LastTick, windows' = windows,
         policy' \in [Client -> Policies], stage' \in [Req -> Stages],
         carried' \in [Req -> Policies]
  PROVE  IndInv'
  <1>1. TypeOK /\ LogType /\ Endings /\ PeakIsMost /\ LimiterPaidByAll /\ QuotaInv
    BY DEF IndInv
  <1>2. TypeOK'
    BY <1>1, Zenon DEF TypeOK
  <1>3. day \in Int /\ day' \in Int /\ LastDay \in Nat
    BY <1>1, UsageAssumption DEF TypeOK
  <1>4. /\ \A k \in Key : UnderWay(k)' = UnderWay(k) /\ Paying(k)' = Paying(k)
        /\ \A k \in Key, d \in 0 .. LastDay :
             /\ MayCount(k, d)' \subseteq MayCount(k, d)
             /\ \A r \in MayCount(k, d)' : QuotaOf(r)' = QuotaOf(r)
    BY <1>1, <1>3, SetsStay
  <1>5. LogType'
    BY <1>1 DEF LogType
  <1>6. Endings'
    <2> SUFFICES ASSUME NEW r \in Req
                 PROVE  /\ recorded[r] # "none" \/ answer[r] # "none" =>
                             stage'[r] \in {"over", "gone"}
                        /\ started[r] <= day'
      BY DEF Endings
    <2>1. started[r] \in Int /\ started[r] <= day
      BY <1>1 DEF TypeOK, Endings
    <2> QED BY <1>1, <1>3, <2>1 DEF Endings
  <1>7. PeakIsMost'
    BY <1>1, <1>4, PeakKept
  <1>8. LimiterPaidByAll'
    BY <1>1, <1>4, PaidKept
  <1>9. QuotaInv'
    <2>1. \A k \in Key : peak[k] <= peak'[k]
      BY <1>1 DEF TypeOK
    <2> QED BY <1>1, <1>2, <1>4, <2>1, QuotaKept
  <1> QED BY <1>2, <1>5, <1>6, <1>7, <1>8, <1>9 DEF IndInv

LEMMA AuthenticateKeeps == ASSUME IndInv, NEW q \in Req, Authenticate(q) PROVE IndInv'
  <1>1. TypeOK
    BY DEF IndInv
  <1>2. policy[ClientOf[KeyOf[q]]] \in Policies
    BY <1>1, UsageAssumption DEF TypeOK
  <1>3. \A r \in Req : \/ stage'[r] = stage[r] /\ carried'[r] = carried[r]
                       \/ {stage[r], stage'[r]} \subseteq {"new", "authenticated"}
    BY <1>1 DEF Authenticate, TypeOK
  <1>4. stage' \in [Req -> Stages]
    BY <1>1 DEF Authenticate, TypeOK, Stages
  <1>5. carried' \in [Req -> Policies]
    <2> HIDE DEF Policies
    <2> QED BY <1>1, <1>2 DEF Authenticate, TypeOK
  <1>6. /\ UNCHANGED <<log, answer, recorded, started, tokens, peak, day, now, windows, policy>>
    BY DEF Authenticate, limiterVars, recordVars
  <1>7. /\ day <= day' /\ day' \in 0 .. LastDay /\ now' \in 0 .. LastTick
        /\ policy' \in [Client -> Policies]
    BY <1>1, <1>6, UsageAssumption DEF TypeOK
  <1> QED BY <1>3, <1>4, <1>5, <1>6, <1>7, QuietKeeps

LEMMA PutPolicyKeeps == ASSUME IndInv, NEW c \in Client, PutPolicy(c) PROVE IndInv'
  <1>1. TypeOK
    BY DEF IndInv
  <1>2. PICK body \in [Fields -> UNION {PolicyValues[f] : f \in Fields}] :
          /\ \A f \in Fields : body[f] \in PolicyValues[f] \cup {policy[c][f]}
          /\ policy' = [policy EXCEPT ![c] = body]
    BY DEF PutPolicy
  <1>3. body \in Policies
    <2>1. \A f \in Fields : body[f] \in Int \cup {NULL}
      <3>1. ASSUME NEW f \in Fields PROVE body[f] \in Int \cup {NULL}
        <4>1. PolicyValues[f] \subseteq Int \cup {NULL}
          BY UsageAssumption
        <4>2. policy[c][f] \in Int \cup {NULL}
          BY <1>1 DEF TypeOK, Policies
        <4> QED BY <1>2, <4>1, <4>2
      <3> QED BY <3>1
    <2> QED BY <2>1 DEF Policies
  <1>4. policy' \in [Client -> Policies]
    <2> HIDE DEF Policies
    <2> QED BY <1>1, <1>2, <1>3 DEF TypeOK
  <1>5. UNCHANGED <<log, answer, recorded, started, tokens, peak, day, now, windows, stage,
                    carried>>
    BY DEF PutPolicy, limiterVars, recordVars
  <1>6. /\ day <= day' /\ day' \in 0 .. LastDay /\ now' \in 0 .. LastTick
        /\ stage' \in [Req -> Stages] /\ carried' \in [Req -> Policies]
    BY <1>1, <1>5, UsageAssumption DEF TypeOK
  <1> QED BY <1>4, <1>5, <1>6, QuietKeeps

LEMMA ClocksKeep == ASSUME IndInv, Tick \/ NextDay \/ UNCHANGED vars PROVE IndInv'
  <1>1. TypeOK /\ LastTick \in Nat /\ LastDay \in Nat
    BY UsageAssumption DEF IndInv
  <1>2. UNCHANGED <<log, answer, recorded, started, tokens, peak, windows, policy, stage, carried>>
    BY DEF Tick, NextDay, vars, limiterVars, recordVars
  <1>3. day <= day' /\ day' \in 0 .. LastDay /\ now' \in 0 .. LastTick
    BY <1>1 DEF TypeOK, Tick, NextDay, vars, limiterVars, recordVars
  <1>4. /\ policy' \in [Client -> Policies] /\ stage' \in [Req -> Stages]
        /\ carried' \in [Req -> Policies]
    BY <1>1, <1>2 DEF TypeOK
  <1>5. \A r \in Req : stage'[r] = stage[r] /\ carried'[r] = carried[r]
    BY <1>2
  <1> QED BY <1>2, <1>3, <1>4, <1>5, QuietKeeps

-----------------------------------------------------------------------------
(* From the queue or a slot to the end, or from routing on.                *)
LEMMA AfterPrecheckKeeps ==
  ASSUME IndInv, NEW q \in Req, RouteFail(q) \/ Begin(q) \/ End(q) \/ EndUnrecorded(q)
  PROVE  IndInv'
  <1>1. TypeOK /\ LogType /\ Endings /\ PeakIsMost /\ LimiterPaidByAll /\ QuotaInv
    BY DEF IndInv
  <1>2. UNCHANGED <<limiterVars, policy, carried, answer, day, peak>>
    BY DEF RouteFail, Begin, End, EndUnrecorded, recordVars
  <1>3. stage[q] \in {"routing", "serving"} /\ recorded[q] = "none" /\ answer[q] = "none"
    BY <1>1 DEF RouteFail, Begin, End, EndUnrecorded, Endings
  <1>4. /\ stage' \in [Req -> Stages]
        /\ stage'[q] \in {"serving", "over"}
        /\ stage'[q] = "serving" => stage[q] = "routing"
        /\ \A r \in Req \ {q} : stage'[r] = stage[r]
    BY <1>1 DEF TypeOK, Stages, RouteFail, Begin, End, EndUnrecorded
  <1>5. /\ started' \in [Req -> 0 .. LastDay]
        /\ started'[q] = IF stage'[q] = "serving" THEN day ELSE started[q]
        /\ \A r \in Req \ {q} : started'[r] = started[r]
    BY <1>1 DEF TypeOK, RouteFail, Begin, End, EndUnrecorded, recordVars
  <1>6. /\ recorded' \in [Req -> Outcomes \cup {"none"}]
        /\ recorded'[q] # "none" => stage[q] = "serving" /\ stage'[q] = "over"
        /\ \A r \in Req \ {q} : recorded'[r] = recorded[r]
    <2>1. CASE End(q)
      <3>1. PICK outcome \in Fates : recorded' = [recorded EXCEPT ![q] = outcome]
        BY <2>1 DEF End
      <3>2. outcome \in Outcomes
        BY UsageAssumption
      <3> QED BY <1>1, <2>1, <3>1, <3>2 DEF End, TypeOK
    <2>2. CASE recorded' = recorded
      BY <1>1, <1>3, <2>2 DEF TypeOK
    <2> QED BY <2>1, <2>2 DEF RouteFail, Begin, EndUnrecorded, recordVars
  <1>7. tokens' \in [Req -> {NULL} \cup 0 .. MaxTokens]
    <2>1. CASE End(q)
      <3>1. PICK total \in {NULL} \cup 0 .. MaxTokens : tokens' = [tokens EXCEPT ![q] = total]
        BY <2>1 DEF End
      <3> QED BY <1>1, <3>1 DEF TypeOK
    <2>2. CASE tokens' = tokens
      BY <1>1, <2>2 DEF TypeOK
    <2> QED BY <2>1, <2>2 DEF RouteFail, Begin, EndUnrecorded, recordVars
  <1>8. TypeOK'
    BY <1>1, <1>2, <1>4, <1>5, <1>6, <1>7, Zenon DEF TypeOK, limiterVars
  <1>9. LogType' /\ log' = log
    BY <1>1, <1>2 DEF LogType, limiterVars
  <1>10. Endings'
    <2>1. day \in Int /\ \A r \in Req : started[r] \in Int
      BY <1>1 DEF TypeOK
    <2> SUFFICES ASSUME NEW r \in Req
                 PROVE  /\ recorded'[r] # "none" \/ answer[r] # "none" =>
                             stage'[r] \in {"over", "gone"}
                        /\ started'[r] <= day
      BY <1>2 DEF Endings
    <2>2. CASE r = q
      BY <2>1, <2>2, <1>1, <1>3, <1>5, <1>6 DEF Endings
    <2>3. CASE r # q
      BY <2>3, <1>1, <1>4, <1>5, <1>6 DEF Endings
    <2> QED BY <2>2, <2>3
  <1>11. PeakIsMost'
    <2>1. \A k \in Key : UnderWay(k)' \subseteq UnderWay(k)
      BY <1>3, <1>4 DEF UnderWay
    <2> QED BY <1>1, <1>2, <2>1, PeakKept
  <1>12. LimiterPaidByAll'
    <2>1. \A r \in Req : Effective(r, "requests_per_minute")' = Effective(r, "requests_per_minute")
      BY <1>2, EffectiveStays
    <2>2. \A r \in Req : stage'[r] \in {"routing", "serving", "over"}
                           <=> stage[r] \in {"routing", "serving", "over"}
      BY <1>3, <1>4
    <2>3. \A k \in Key : Paying(k)' = Paying(k)
      BY <1>2, <2>1, <2>2 DEF Paying
    <2> QED BY <1>1, <1>9, <2>3, PaidKept
  <1>13. QuotaInv'
    <2>1. \A k \in Key, d \in 0 .. LastDay : MayCount(k, d)' \subseteq MayCount(k, d)
      <3> SUFFICES ASSUME NEW k \in Key, NEW d \in 0 .. LastDay, NEW r \in MayCount(k, d)'
                   PROVE  r \in MayCount(k, d)
        OBVIOUS
      <3>1. r \in Req /\ day \in Int
        BY <1>1 DEF MayCount, TypeOK
      <3>2. CASE r = q
        BY <1>2, <1>3, <1>4, <1>5, <1>6, <3>1, <3>2 DEF MayCount
      <3>3. CASE r # q
        BY <1>2, <1>4, <1>5, <1>6, <3>1, <3>3 DEF MayCount
      <3> QED BY <3>2, <3>3
    <2>2. \A k \in Key, d \in 0 .. LastDay : \A r \in MayCount(k, d)' : QuotaOf(r)' = QuotaOf(r)
      BY <1>2, EffectiveStays DEF QuotaOf
    <2>3. \A k \in Key : peak[k] <= peak'[k]
      BY <1>1, <1>2 DEF TypeOK
    <2> QED BY <1>1, <1>8, <2>1, <2>2, <2>3, QuotaKept
  <1> QED BY <1>8, <1>9, <1>10, <1>11, <1>12, <1>13 DEF IndInv

LEMMA CrashKeeps == ASSUME IndInv, Crash PROVE IndInv'
  <1>1. TypeOK /\ LogType /\ Endings /\ PeakIsMost /\ LimiterPaidByAll /\ QuotaInv
    BY DEF IndInv
  <1>2. /\ UNCHANGED <<now, result, policy, carried, answer, recordVars, day, peak>>
        /\ \A r \in Req : stage'[r] \in {"new", "gone"}
        /\ \A r \in Req : stage'[r] = "gone" <=> stage[r] # "new"
    BY DEF Crash
  <1>3. TypeOK'
    <2>1. stage' \in [Req -> Stages]
      BY DEF Crash, Stages
    <2>2. windows' \in [Key -> [start : Int, count : Nat]]
      <3>1. [start |-> -1, count |-> 0] \in [start : Int, count : Nat]
        OBVIOUS
      <3> QED BY <3>1, Zenon DEF Crash
    <2> QED BY <1>1, <1>2, <2>1, <2>2, Zenon DEF TypeOK, recordVars
  <1>4. LogType'
    BY EmptySeq DEF Crash, LogType
  <1>5. Endings'
    BY <1>1, <1>2 DEF Endings, recordVars
  <1>6. PeakIsMost'
    <2>1. \A k \in Key : UnderWay(k)' \subseteq UnderWay(k)
      BY <1>2 DEF UnderWay
    <2> QED BY <1>1, <1>2, <2>1, PeakKept
  <1>7. LimiterPaidByAll'
    <2>1. \A k \in Key : Paying(k)' = {}
      BY <1>2 DEF Paying
    <2>2. \A k \in Key : log'[k] = <<>> /\ Len(log'[k]) = 0
      BY DEF Crash
    <2>3. \A k \in Key : Len(log'[k]) = Cardinality(Paying(k)')
      BY <2>1, <2>2, FS_EmptySet
    <2> QED BY <2>3 DEF LimiterPaidByAll, Paying
  <1>8. QuotaInv'
    <2>1. \A k \in Key, d \in 0 .. LastDay : MayCount(k, d)' \subseteq MayCount(k, d)
      BY <1>2 DEF MayCount, recordVars
    <2>2. \A k \in Key, d \in 0 .. LastDay : \A r \in MayCount(k, d)' : QuotaOf(r)' = QuotaOf(r)
      BY <1>2, EffectiveStays DEF QuotaOf
    <2>3. \A k \in Key : peak[k] <= peak'[k]
      BY <1>1, <1>2 DEF TypeOK
    <2> QED BY <1>1, <1>3, <2>1, <2>2, <2>3, QuotaKept
  <1> QED BY <1>3, <1>4, <1>5, <1>6, <1>7, <1>8 DEF IndInv

-----------------------------------------------------------------------------
(* The precheck.                                                           *)

(* Who gets past the limiter under a limit has paid, and no one else.      *)
LEMMA PaidByOne ==
  ASSUME IndInv, NEW q \in Req, stage[q] = "authenticated", LimiterAdmits(q),
         stage'[q] \in {"routing", "over"}, answer'[q] # "rate_limit_exceeded",
         \A r \in Req \ {q} : stage'[r] = stage[r] /\ answer'[r] = answer[r],
         carried' = carried
  PROVE  LimiterPaidByAll'
  <1> DEFINE limit == Effective(q, "requests_per_minute")
  <1>1. TypeOK /\ LogType /\ LimiterPaidByAll
    BY DEF IndInv
  <1>2. \A r \in Req : Effective(r, "requests_per_minute")' = Effective(r, "requests_per_minute")
    BY EffectiveStays
  <1>3. limit \in Nat /\ KeyOf[q] \in Key
    BY <1>1, UsageAssumption, EffectiveType DEF TypeOK, Fields
  <1>4. SUFFICES ASSUME NEW k \in Key PROVE Len(log'[k]) = Cardinality(Paying(k)')
    BY DEF LimiterPaidByAll, Paying
  <1>5. Len(log[k]) = Cardinality(Paying(k))
    BY <1>1 DEF LimiterPaidByAll, Paying
  <1>6. q \notin Paying(k)
    BY DEF Paying
  <1>7. CASE k = KeyOf[q] /\ limit > 0
    <2>1. Len(log'[k]) = Len(log[k]) + 1
      BY <1>1, <1>7, Charged
    <2>2. Paying(k)' = Paying(k) \cup {q}
      BY <1>2, <1>7 DEF Paying
    <2>3. IsFiniteSet(Paying(k))
      BY SetsAreFinite DEF Paying
    <2>4. Cardinality(Paying(k) \cup {q}) = Cardinality(Paying(k)) + 1
      BY <1>6, <2>3, FS_AddElement
    <2> QED BY <1>5, <2>1, <2>2, <2>4
  <1>8. CASE k # KeyOf[q] \/ limit = 0
    <2>1. log'[k] = log[k]
      BY <1>1, <1>3, <1>8, Charged
    <2>2. Paying(k)' = Paying(k)
      BY <1>2, <1>3, <1>8 DEF Paying
    <2> QED BY <1>5, <2>1, <2>2
  <1> QED BY <1>3, <1>7, <1>8

(* A request that goes over without a record leaves the quotas alone.      *)
LEMMA RefuseKeeps ==
  ASSUME IndInv, NEW q \in Req, stage[q] = "authenticated",
         NEW code \in Refusals, Refuse(q, code),
         UNCHANGED <<policy, carried, recordVars, day, peak>>,
         now' = now, windows' \in [Key -> [start : Int, count : Nat]], LogType',
         LimiterPaidByAll'
  PROVE  IndInv'
  <1>1. TypeOK /\ LogType /\ Endings /\ PeakIsMost /\ QuotaInv
    BY DEF IndInv
  <1>2. /\ stage' \in [Req -> Stages] /\ answer' \in [Req -> Refusals \cup {"none"}]
        /\ stage'[q] = "over"
        /\ \A r \in Req \ {q} : stage'[r] = stage[r] /\ answer'[r] = answer[r]
    BY <1>1 DEF Refuse, TypeOK, Stages
  <1>3. TypeOK'
    BY <1>1, <1>2, Zenon DEF TypeOK, recordVars
  <1>4. Endings'
    <2> SUFFICES ASSUME NEW r \in Req
                 PROVE  /\ recorded[r] # "none" \/ answer'[r] # "none" =>
                             stage'[r] \in {"over", "gone"}
                        /\ started[r] <= day
      BY DEF Endings, recordVars
    <2> QED BY <1>1, <1>2 DEF Endings
  <1>5. \A k \in Key : UnderWay(k)' \subseteq UnderWay(k)
    BY <1>2 DEF UnderWay
  <1>6. PeakIsMost'
    BY <1>1, <1>5, PeakKept
  <1>7. QuotaInv'
    <2>1. \A k \in Key, d \in 0 .. LastDay : MayCount(k, d)' \subseteq MayCount(k, d)
      BY <1>2 DEF MayCount, recordVars
    <2>2. \A k \in Key, d \in 0 .. LastDay : \A r \in MayCount(k, d)' : QuotaOf(r)' = QuotaOf(r)
      BY EffectiveStays DEF QuotaOf
    <2>3. \A k \in Key : peak[k] <= peak'[k]
      BY <1>1 DEF TypeOK
    <2> QED BY <1>1, <1>3, <2>1, <2>2, <2>3, QuotaKept
  <1> QED BY <1>3, <1>4, <1>6, <1>7 DEF IndInv

LEMMA RateLimitedKeeps == ASSUME IndInv, NEW q \in Req, PrecheckRateLimited(q) PROVE IndInv'
  <1>1. TypeOK /\ LogType /\ LimiterPaidByAll
    BY DEF IndInv
  <1>2. /\ stage[q] = "authenticated" /\ Refuse(q, "rate_limit_exceeded")
        /\ UNCHANGED <<policy, carried, recordVars, day, peak>>
        /\ UNCHANGED <<now, windows, log>>
    BY DEF PrecheckRateLimited, Limiter!CheckRefuse
  <1>3. LimiterPaidByAll'
    <2>1. \A r \in Req : Effective(r, "requests_per_minute")' = Effective(r, "requests_per_minute")
      BY <1>2, EffectiveStays
    <2>2. /\ answer'[q] = "rate_limit_exceeded"
          /\ \A r \in Req \ {q} : stage'[r] = stage[r] /\ answer'[r] = answer[r]
      BY <1>1, <1>2 DEF Refuse, TypeOK
    <2>3. \A k \in Key : Paying(k)' = Paying(k)
      BY <1>2, <2>1, <2>2 DEF Paying
    <2> QED BY <1>1, <1>2, <2>3, PaidKept
  <1>4. /\ now' = now /\ windows' \in [Key -> [start : Int, count : Nat]] /\ LogType'
    BY <1>1, <1>2 DEF TypeOK, LogType
  <1>5. "rate_limit_exceeded" \in Refusals
    BY DEF Refusals
  <1> QED BY <1>2, <1>3, <1>4, <1>5, RefuseKeeps

LEMMA OverQuotaKeeps == ASSUME IndInv, NEW q \in Req, PrecheckOverQuota(q) PROVE IndInv'
  <1>1. TypeOK /\ LogType
    BY DEF IndInv
  <1>2. PICK code \in {"request_quota_exceeded", "token_quota_exceeded"} : Refuse(q, code)
    BY DEF PrecheckOverQuota
  <1>3. /\ stage[q] = "authenticated" /\ LimiterAdmits(q)
        /\ UNCHANGED <<policy, carried, recordVars, day, peak>>
    BY DEF PrecheckOverQuota
  <1>4. /\ stage'[q] = "over" /\ answer'[q] # "rate_limit_exceeded"
        /\ \A r \in Req \ {q} : stage'[r] = stage[r] /\ answer'[r] = answer[r]
    BY <1>1, <1>2 DEF Refuse, TypeOK
  <1>5. LimiterPaidByAll'
    BY <1>3, <1>4, PaidByOne
  <1>6. now' = now /\ windows' \in [Key -> [start : Int, count : Nat]] /\ LogType'
    BY <1>1, <1>3, Charged
  <1>7. code \in Refusals
    BY DEF Refusals
  <1> QED BY <1>2, <1>3, <1>5, <1>6, <1>7, RefuseKeeps

(* The peak takes notice of one more under way.                            *)
LEMMA PassPeak ==
  ASSUME IndInv, NEW q \in Req, PrecheckPass(q)
  PROVE  /\ peak' \in [Key -> 0 .. Cardinality(Req)] /\ PeakIsMost'
         /\ \A k \in Key : peak[k] <= peak'[k]
         /\ UnderWay(KeyOf[q])' = UnderWay(KeyOf[q]) \cup {q}
  <1> DEFINE key == KeyOf[q]
             n == Cardinality(UnderWay(key))
  <1>1. TypeOK /\ PeakIsMost /\ key \in Key
    BY UsageAssumption DEF IndInv
  <1>2. /\ stage[q] = "authenticated" /\ stage'[q] = "routing"
        /\ \A r \in Req \ {q} : stage'[r] = stage[r]
    BY <1>1 DEF PrecheckPass, TypeOK
  <1>3. /\ UnderWay(key)' = UnderWay(key) \cup {q} /\ q \notin UnderWay(key)
        /\ \A k \in Key \ {key} : UnderWay(k)' = UnderWay(k)
    BY <1>2 DEF UnderWay
  <1>4. /\ UnderWay(key) \in SUBSET Req /\ UnderWay(key)' \in SUBSET Req
    BY DEF UnderWay
  <1>5. /\ n \in Nat /\ Cardinality(UnderWay(key)') = n + 1
        /\ n + 1 <= Cardinality(Req) /\ Cardinality(Req) \in Nat
    <2>1. IsFiniteSet(UnderWay(key)) /\ n \in Nat
      BY <1>4, SetsAreFinite
    <2>2. Cardinality(UnderWay(key) \cup {q}) = n + 1
      BY <1>3, <2>1, FS_AddElement
    <2> QED BY <1>3, <1>4, <2>1, <2>2, SetsAreFinite
  <1>6. /\ peak' = [peak EXCEPT ![key] = IF @ > n THEN @ ELSE @ + 1]
        /\ peak \in [Key -> 0 .. Cardinality(Req)]
        /\ n <= peak[key]
    BY <1>1 DEF PrecheckPass, TypeOK, PeakIsMost
  <1> HIDE DEF n
  <1>7. /\ peak'[key] \in 0 .. Cardinality(Req) /\ n + 1 <= peak'[key] /\ peak[key] <= peak'[key]
        /\ \A k \in Key \ {key} : peak'[k] = peak[k]
    <2>1. peak[key] \in Nat /\ peak[key] <= Cardinality(Req)
      BY <1>1, <1>5, <1>6
    <2> HIDE DEF key
    <2>2. peak'[key] = IF peak[key] > n THEN peak[key] ELSE peak[key] + 1
      BY <1>1, <1>6
    <2>3. peak[key] > n \/ peak[key] = n
      BY <1>5, <1>6, <2>1
    <2> QED BY <1>1, <1>5, <1>6, <2>1, <2>2, <2>3
  <1>8. peak' \in [Key -> 0 .. Cardinality(Req)]
    BY <1>1, <1>6, <1>7
  <1>9. PeakIsMost'
    <2> SUFFICES ASSUME NEW k \in Key PROVE Cardinality(UnderWay(k)') <= peak'[k]
      BY DEF PeakIsMost
    <2>1. CASE k = key
      BY <2>1, <1>5, <1>7
    <2>2. CASE k # key
      BY <2>2, <1>1, <1>3, <1>7 DEF PeakIsMost
    <2> QED BY <2>1, <2>2
  <1>10. ASSUME NEW k \in Key PROVE peak[k] <= peak'[k]
    <2>1. peak[k] \in Int
      BY <1>5, <1>6
    <2> QED BY <1>7, <2>1
  <1> QED BY <1>3, <1>8, <1>9, <1>10

(* Who passes was within its quota with those on record; what can come to  *)
(* it on its day are those under way, itself included.                     *)
LEMMA PassQuota ==
  ASSUME IndInv, NEW q \in Req, PrecheckPass(q), TypeOK'
  PROVE  QuotaInv'
  <1>1. TypeOK /\ Endings /\ QuotaInv /\ day \in Nat /\ LastDay \in Nat
    BY UsageAssumption DEF IndInv, TypeOK
  <1>2. /\ stage[q] = "authenticated" /\ stage'[q] = "routing" /\ recorded[q] = "none"
        /\ \A r \in Req \ {q} : stage'[r] = stage[r]
        /\ UNCHANGED <<carried, recorded, started, day>>
    BY <1>1 DEF PrecheckPass, TypeOK, Endings, recordVars
  <1>3. \A r \in Req : QuotaOf(r)' = QuotaOf(r)
    BY <1>2, EffectiveStays DEF QuotaOf
  <1>4. \A r \in Req : QuotaOf(r) \in Nat
    BY <1>1, EffectiveType DEF TypeOK, QuotaOf, Fields
  <1>5. PeakIsMost' /\ UnderWay(KeyOf[q])' = UnderWay(KeyOf[q]) \cup {q}
        /\ \A k \in Key : peak[k] <= peak'[k]
    BY PassPeak
  <1> SUFFICES ASSUME NEW k \in Key, NEW d \in 0 .. LastDay,
                      NEW T \in SUBSET MayCount(k, d)', T # {}
               PROVE  LetThrough(T, k)'
    BY DEF QuotaInv
  <1>6. T \in SUBSET Req /\ IsFiniteSet(T) /\ Cardinality(T) \in Nat
        /\ peak[k] \in Nat /\ peak'[k] \in Nat
    <2>1. T \in SUBSET Req
      BY DEF MayCount
    <2> QED BY <1>1, <2>1, SetsAreFinite DEF TypeOK
  <1>7. CASE q \notin T
    <2>1. T \in SUBSET MayCount(k, d)
      BY <1>2, <1>7 DEF MayCount
    <2>2. PICK r \in T : QuotaOf(r) = 0 \/ Cardinality(T) < QuotaOf(r) + peak[k]
      BY <1>1, <2>1 DEF QuotaInv, LetThrough
    <2>3. r \in Req /\ QuotaOf(r) \in Nat /\ peak[k] <= peak'[k]
      BY <1>4, <1>5, <1>6
    <2> QED BY <1>3, <1>6, <2>2, <2>3 DEF LetThrough
  <1>8. CASE q \in T /\ QuotaOf(q) # 0
    <2> DEFINE rows == RowsOfKey(k, day)
               way == UnderWay(k)'
    <2>1. k = KeyOf[q] /\ day <= d
      BY <1>2, <1>8 DEF MayCount
    <2>2. Cardinality(rows) < QuotaOf(q)
      <3>1. QuotaOf(q) > 0
        BY <1>4, <1>8
      <3> QED BY <2>1, <3>1 DEF PrecheckPass, RequestsLeft, CountRequestsToday, QuotaOf
    <2>3. T \subseteq rows \cup way
      <3> SUFFICES ASSUME NEW r \in T PROVE r \in rows \cup way
        OBVIOUS
      <3>1. /\ r \in Req /\ KeyOf[r] = k /\ started[r] <= day
            /\ \/ recorded[r] # "none" /\ started[r] = d
               \/ stage'[r] = "serving" \/ stage'[r] = "routing"
        BY <1>1, <1>2, <1>6 DEF MayCount, Endings
      <3>2. CASE recorded[r] # "none" /\ started[r] = d
        <4>1. d = day
          BY <1>1, <2>1, <3>1, <3>2
        <4> QED BY <3>1, <3>2, <4>1 DEF RowsOfKey, RowsOf
      <3>3. CASE stage'[r] \in {"serving", "routing"}
        BY <3>1, <3>3 DEF UnderWay
      <3> QED BY <3>1, <3>2, <3>3
    <2>4. /\ rows \in SUBSET Req /\ way \in SUBSET Req
      BY DEF RowsOfKey, RowsOf, UnderWay
    <2>5. Cardinality(T) <= Cardinality(rows) + Cardinality(way)
      <3> HIDE DEF rows, way
      <3>1. /\ IsFiniteSet(rows) /\ IsFiniteSet(way) /\ IsFiniteSet(rows \cup way)
            /\ Cardinality(rows) \in Nat /\ Cardinality(way) \in Nat
            /\ Cardinality(rows \cap way) \in Nat /\ Cardinality(rows \cup way) \in Nat
        <4>1. rows \cap way \in SUBSET Req /\ rows \cup way \in SUBSET Req
          BY <2>4
        <4> QED BY <2>4, <4>1, SetsAreFinite
      <3>2. Cardinality(rows \cup way)
              = Cardinality(rows) + Cardinality(way) - Cardinality(rows \cap way)
        BY <3>1, FS_Union
      <3>3. Cardinality(T) <= Cardinality(rows \cup way)
        BY <2>3, <3>1, FS_Subset
      <3> QED BY <1>6, <3>1, <3>2, <3>3
    <2>6. Cardinality(way) <= peak'[k]
      BY <1>5 DEF PeakIsMost
    <2>7. /\ Cardinality(rows) \in Nat /\ Cardinality(way) \in Nat /\ QuotaOf(q) \in Nat
      BY <1>4, <2>4, SetsAreFinite
    <2>8. Cardinality(T) < QuotaOf(q) + peak'[k]
      <3> HIDE DEF rows, way
      <3> QED BY <1>6, <2>2, <2>5, <2>6, <2>7
    <2> QED BY <1>3, <1>8, <2>8 DEF LetThrough
  <1>9. CASE q \in T /\ QuotaOf(q) = 0
    BY <1>3, <1>9 DEF LetThrough
  <1> QED BY <1>7, <1>8, <1>9

LEMMA PassKeeps == ASSUME IndInv, NEW q \in Req, PrecheckPass(q) PROVE IndInv'
  <1>1. TypeOK /\ LogType /\ Endings
    BY DEF IndInv
  <1>2. /\ stage[q] = "authenticated" /\ LimiterAdmits(q)
        /\ UNCHANGED <<policy, carried, answer, recordVars, day>>
        /\ stage'[q] = "routing" /\ stage' \in [Req -> Stages]
        /\ \A r \in Req \ {q} : stage'[r] = stage[r]
    BY <1>1 DEF PrecheckPass, TypeOK, Stages
  <1>3. answer[q] = "none" /\ recorded[q] = "none"
    BY <1>1, <1>2 DEF Endings
  <1>4. now' = now /\ windows' \in [Key -> [start : Int, count : Nat]] /\ LogType'
    BY <1>1, <1>2, Charged
  <1>5. peak' \in [Key -> 0 .. Cardinality(Req)] /\ PeakIsMost'
    BY PassPeak
  <1>6. TypeOK'
    BY <1>1, <1>2, <1>4, <1>5, Zenon DEF TypeOK, recordVars
  <1>7. Endings'
    BY <1>1, <1>2, <1>3 DEF Endings, recordVars
  <1>8. LimiterPaidByAll'
    BY <1>2, <1>3, PaidByOne
  <1>9. QuotaInv'
    BY <1>6, PassQuota
  <1> QED BY <1>4, <1>5, <1>6, <1>7, <1>8, <1>9 DEF IndInv

LEMMA StepIndInv == IndInv /\ [Next]_vars => IndInv'
  <1> SUFFICES ASSUME IndInv, [Next]_vars PROVE IndInv'
    OBVIOUS
  <1>1. ASSUME NEW r \in Req, Authenticate(r) PROVE IndInv'
    BY <1>1, AuthenticateKeeps
  <1>2. ASSUME NEW r \in Req, Precheck(r) PROVE IndInv'
    BY <1>2, RateLimitedKeeps, OverQuotaKeeps, PassKeeps DEF Precheck
  <1>3. ASSUME NEW r \in Req, RouteFail(r) \/ Begin(r) \/ End(r) \/ EndUnrecorded(r)
        PROVE  IndInv'
    BY <1>3, AfterPrecheckKeeps
  <1>4. ASSUME NEW c \in Client, PutPolicy(c) PROVE IndInv'
    BY <1>4, PutPolicyKeeps
  <1>5. CASE Crash
    BY <1>5, CrashKeeps
  <1>6. CASE Tick \/ NextDay \/ UNCHANGED vars
    BY <1>6, ClocksKeep
  <1> QED BY <1>1, <1>2, <1>3, <1>4, <1>5, <1>6 DEF Next

LEMMA IndInvHolds == Spec => []IndInv
  BY InitIndInv, StepIndInv, PTL DEF Spec

-----------------------------------------------------------------------------
(* The tokens.                                                             *)

TokenQuotaOf(r) == Effective(r, "tokens_per_day")

(* What r has cost its key, or may come to.                                *)
Cost ==
  [r \in Req |-> IF recorded[r] = "none" THEN MaxTokens
                 ELSE IF tokens[r] = NULL THEN 0 ELSE tokens[r]]

(* As LetThrough and QuotaInv, of what the requests of T cost.             *)
TokensLetThrough(T, k) ==
  \E r \in T : \/ TokenQuotaOf(r) = 0
               \/ SumOver(Cost, T) < TokenQuotaOf(r) + peak[k] * MaxTokens

TokenInv ==
  \A k \in Key, d \in 0 .. LastDay : \A T \in SUBSET MayCount(k, d) :
    T # {} => TokensLetThrough(T, k)

LEMMA CostNumbers ==
  ASSUME NEW cost \in [Req -> 0 .. MaxTokens], NEW T \in SUBSET Req
  PROVE  IsFiniteSet(T) /\ Numbers(cost, T) /\ SumOver(cost, T) \in Nat
  <1>1. IsFiniteSet(T) /\ Numbers(cost, T)
    BY SetsAreFinite, UsageAssumption DEF Numbers
  <1> QED BY <1>1, SumType

LEMMA CostType ==
  ASSUME TypeOK
  PROVE  /\ Cost \in [Req -> 0 .. MaxTokens]
         /\ \A T \in SUBSET Req : IsFiniteSet(T) /\ Numbers(Cost, T) /\ SumOver(Cost, T) \in Nat
  <1>1. Cost \in [Req -> 0 .. MaxTokens]
    BY UsageAssumption DEF Cost, TypeOK
  <1> HIDE DEF Cost
  <1> QED BY <1>1, CostNumbers

LEMMA CostTypeNext ==
  ASSUME TypeOK'
  PROVE  /\ Cost' \in [Req -> 0 .. MaxTokens]
         /\ \A T \in SUBSET Req :
              IsFiniteSet(T) /\ Numbers(Cost', T) /\ SumOver(Cost', T) \in Nat
  <1>1. Cost' \in [Req -> 0 .. MaxTokens]
    BY UsageAssumption DEF Cost, TypeOK
  <1> HIDE DEF Cost
  <1> QED BY <1>1, CostNumbers

(* The quota of tokens looks at what those on record have cost.            *)
LEMMA TokensAreCosts ==
  ASSUME TypeOK, NEW rows \in SUBSET Req, \A r \in rows : recorded[r] # "none"
  PROVE  TokensIn(rows) = SumOver(Cost, rows)
  <1> DEFINE known == {r \in rows : tokens[r] # NULL}
             unknown == rows \ known
  <1>1. /\ IsFiniteSet(known) /\ IsFiniteSet(unknown) /\ known \cap unknown = {}
        /\ known \cup unknown = rows /\ known \in SUBSET Req /\ unknown \in SUBSET Req
    BY SetsAreFinite
  <1>2. \A r \in known : tokens[r] = Cost[r]
    BY DEF Cost
  <1>3. \A r \in unknown : Cost[r] = 0
    BY DEF Cost
  <1>4. TokensIn(rows) = SumOver(tokens, known)
    BY DEF TokensIn, SumOver
  <1> HIDE DEF known, unknown
  <1>5. Numbers(Cost, known) /\ Numbers(Cost, unknown) /\ SumOver(Cost, known) \in Nat
        /\ SumOver(Cost, unknown) \in Nat
    BY <1>1, CostType
  <1>6. SumOver(tokens, known) = SumOver(Cost, known)
    BY <1>1, <1>2, <1>5, SumAgrees
  <1>7. SumOver(Cost, unknown) = 0
    <2>1. \A r \in unknown : Cost[r] <= 0
      BY <1>3
    <2>2. SumOver(Cost, unknown) <= Cardinality(unknown) * 0
      BY <1>1, <1>5, <2>1, SumBounded
    <2>3. Cardinality(unknown) * 0 = 0
      BY <1>1, FS_CardinalityType
    <2> QED BY <1>5, <2>2, <2>3
  <1>8. SumOver(Cost, known \cup unknown) = SumOver(Cost, known) + SumOver(Cost, unknown)
    BY <1>1, <1>5, SumDisjoint
  <1> QED BY <1>1, <1>4, <1>5, <1>6, <1>7, <1>8

LEMMA InitTokenInv == Init => TokenInv
  BY DEF Init, TokenInv, MayCount

(* What any step but a passed precheck leaves: no more may count, with the *)
(* limits they had, and none costs more.                                   *)
NoneCostsMore ==
  /\ peak' = peak
  /\ \A k \in Key, d \in 0 .. LastDay :
       /\ MayCount(k, d)' \subseteq MayCount(k, d)
       /\ \A r \in MayCount(k, d)' : carried'[r] = carried[r]
  /\ \A r \in Req : Cost'[r] <= Cost[r]

LEMMA RecordsStay ==
  ASSUME TypeOK, UNCHANGED recordVars
  PROVE  \A r \in Req : Cost'[r] <= Cost[r]
  <1>1. Cost' = Cost
    BY DEF Cost, recordVars
  <1>2. \A r \in Req : Cost[r] \in Int
    BY CostType
  <1> QED BY <1>1, <1>2

LEMMA OtherSteps ==
  ASSUME IndInv, IndInv', [Next]_vars
  PROVE  NoneCostsMore \/ \E q \in Req : PrecheckPass(q)
  <1>1. TypeOK /\ Endings /\ day \in Int /\ day' \in Int /\ LastDay \in Nat /\ TypeOK'
    BY UsageAssumption DEF IndInv, TypeOK
  <1>2. ASSUME UNCHANGED recordVars, peak' = peak, day <= day',
               \A r \in Req : stage[r] \in {"routing", "serving"} => carried'[r] = carried[r],
               \A r \in Req : recorded[r] # "none" => carried'[r] = carried[r],
               \A r \in Req : stage'[r] \in {"routing", "serving"} => stage'[r] = stage[r]
        PROVE  NoneCostsMore
    <2>1. ASSUME NEW k \in Key, NEW d \in 0 .. LastDay
          PROVE  /\ MayCount(k, d)' \subseteq MayCount(k, d)
                 /\ \A r \in MayCount(k, d)' : carried'[r] = carried[r]
      BY <1>1, <1>2 DEF MayCount, recordVars
    <2> QED BY <1>1, <1>2, <2>1, RecordsStay DEF NoneCostsMore
  <1>3. ASSUME NEW q \in Req, Authenticate(q) PROVE NoneCostsMore
    <2>1. UNCHANGED recordVars /\ peak' = peak /\ day' = day /\ stage[q] = "new"
      BY <1>3 DEF Authenticate
    <2>2. /\ stage'[q] = "authenticated" /\ recorded[q] = "none"
          /\ \A r \in Req \ {q} : stage'[r] = stage[r] /\ carried'[r] = carried[r]
      BY <1>1, <1>3, <2>1 DEF Authenticate, TypeOK, Endings
    <2> QED BY <1>1, <1>2, <2>1, <2>2
  <1>4. ASSUME NEW q \in Req, PrecheckRateLimited(q) \/ PrecheckOverQuota(q)
        PROVE  NoneCostsMore
    <2>1. UNCHANGED <<recordVars, peak, day, carried>>
      BY <1>4 DEF PrecheckRateLimited, PrecheckOverQuota
    <2>2. stage'[q] = "over" /\ \A r \in Req \ {q} : stage'[r] = stage[r]
      BY <1>1, <1>4 DEF PrecheckRateLimited, PrecheckOverQuota, Refuse, TypeOK
    <2> QED BY <1>1, <1>2, <2>1, <2>2
  <1>5. ASSUME NEW q \in Req, RouteFail(q) \/ EndUnrecorded(q) PROVE NoneCostsMore
    <2>1. UNCHANGED <<recordVars, peak, day, carried>>
      BY <1>5 DEF RouteFail, EndUnrecorded
    <2>2. stage'[q] = "over" /\ \A r \in Req \ {q} : stage'[r] = stage[r]
      BY <1>1, <1>5 DEF RouteFail, EndUnrecorded, TypeOK
    <2> QED BY <1>1, <1>2, <2>1, <2>2
  <1>6. ASSUME NEW q \in Req, Begin(q) PROVE NoneCostsMore
    <2>1. /\ UNCHANGED <<carried, recorded, tokens, day, peak>>
          /\ stage[q] = "routing" /\ stage'[q] = "serving" /\ started'[q] = day
          /\ recorded[q] = "none"
          /\ \A r \in Req \ {q} : stage'[r] = stage[r] /\ started'[r] = started[r]
      BY <1>1, <1>6 DEF Begin, TypeOK, Endings
    <2>2. ASSUME NEW k \in Key, NEW d \in 0 .. LastDay
          PROVE  MayCount(k, d)' \subseteq MayCount(k, d)
      <3> SUFFICES ASSUME NEW r \in MayCount(k, d)' PROVE r \in MayCount(k, d)
        OBVIOUS
      <3>1. CASE r = q
        BY <1>1, <2>1, <3>1 DEF MayCount
      <3>2. CASE r # q
        BY <1>1, <2>1, <3>2 DEF MayCount
      <3> QED BY <3>1, <3>2
    <2>3. \A r \in Req : Cost'[r] <= Cost[r]
      <3>1. Cost' = Cost
        BY <2>1 DEF Cost
      <3>2. \A r \in Req : Cost[r] \in Int
        BY <1>1, CostType
      <3> QED BY <3>1, <3>2
    <2> QED BY <2>1, <2>2, <2>3 DEF NoneCostsMore
  <1>7. ASSUME NEW q \in Req, End(q) PROVE NoneCostsMore
    <2>1. /\ UNCHANGED <<carried, started, day, peak>>
          /\ stage[q] = "serving" /\ stage'[q] = "over" /\ recorded[q] = "none"
          /\ \A r \in Req \ {q} : stage'[r] = stage[r]
      BY <1>1, <1>7 DEF End, TypeOK, Endings
    <2>2. \A r \in Req \ {q} : recorded'[r] = recorded[r] /\ tokens'[r] = tokens[r]
      <3>1. PICK outcome \in Fates : recorded' = [recorded EXCEPT ![q] = outcome]
        BY <1>7 DEF End
      <3>2. PICK total \in {NULL} \cup 0 .. MaxTokens : tokens' = [tokens EXCEPT ![q] = total]
        BY <1>7 DEF End
      <3> QED BY <1>1, <3>1, <3>2 DEF TypeOK
    <2>3. ASSUME NEW k \in Key, NEW d \in 0 .. LastDay
          PROVE  MayCount(k, d)' \subseteq MayCount(k, d)
      <3> SUFFICES ASSUME NEW r \in MayCount(k, d)' PROVE r \in MayCount(k, d)
        OBVIOUS
      <3>1. CASE r = q
        BY <1>1, <2>1, <3>1 DEF MayCount
      <3>2. CASE r # q
        BY <1>1, <2>1, <2>2, <3>2 DEF MayCount
      <3> QED BY <3>1, <3>2
    <2>4. ASSUME NEW r \in Req PROVE Cost'[r] <= Cost[r]
      <3>1. Cost[r] \in 0 .. MaxTokens /\ Cost'[r] \in 0 .. MaxTokens /\ MaxTokens \in Nat
        <4>1. (Cost \in [Req -> 0 .. MaxTokens])'
          BY <1>1, UsageAssumption DEF Cost, TypeOK
        <4> QED BY <1>1, <4>1, CostType, UsageAssumption
      <3>2. CASE r = q
        BY <2>1, <3>1, <3>2 DEF Cost
      <3>3. CASE r # q
        <4>1. Cost'[r] = Cost[r]
          BY <2>2, <3>3 DEF Cost
        <4> QED BY <3>1, <4>1
      <3> QED BY <3>2, <3>3
    <2> QED BY <2>1, <2>3, <2>4 DEF NoneCostsMore
  <1>8. ASSUME NEW c \in Client, PutPolicy(c) PROVE NoneCostsMore
    <2>1. UNCHANGED <<recordVars, peak, day, carried, stage>>
      BY <1>8 DEF PutPolicy
    <2> QED BY <1>1, <1>2, <2>1
  <1>9. CASE Crash
    <2>1. /\ UNCHANGED <<recordVars, peak, day, carried>>
          /\ \A r \in Req : stage'[r] \in {"new", "gone"}
      BY <1>9 DEF Crash
    <2> QED BY <1>1, <1>2, <2>1
  <1>10. CASE Tick \/ NextDay \/ UNCHANGED vars
    <2>1. UNCHANGED <<recordVars, peak, carried, stage>> /\ day <= day'
      BY <1>1, <1>10 DEF Tick, NextDay, vars
    <2> QED BY <1>1, <1>2, <2>1
  <1> QED BY <1>3, <1>4, <1>5, <1>6, <1>7, <1>8, <1>9, <1>10 DEF Next, Precheck

LEMMA NoneCostsMoreKeeps ==
  ASSUME IndInv, IndInv', TokenInv, NoneCostsMore
  PROVE  TokenInv'
  <1>1. TypeOK /\ TypeOK' /\ MaxTokens \in Nat
    BY UsageAssumption DEF IndInv
  <1> SUFFICES ASSUME NEW k \in Key, NEW d \in 0 .. LastDay,
                      NEW T \in SUBSET MayCount(k, d)', T # {}
               PROVE  TokensLetThrough(T, k)'
    BY DEF TokenInv
  <1>2. T \in SUBSET MayCount(k, d) /\ T \in SUBSET Req
    BY DEF NoneCostsMore, MayCount
  <1>3. PICK r \in T : \/ TokenQuotaOf(r) = 0
                       \/ SumOver(Cost, T) < TokenQuotaOf(r) + peak[k] * MaxTokens
    BY <1>2 DEF TokenInv, TokensLetThrough
  <1>4. TokenQuotaOf(r)' = TokenQuotaOf(r) /\ peak' = peak
    BY EffectiveStays DEF NoneCostsMore, TokenQuotaOf
  <1>5. SumOver(Cost', T) <= SumOver(Cost, T)
    <2>1. \A R \in SUBSET Req : IsFiniteSet(R) /\ Numbers(Cost', R) /\ SumOver(Cost', R) \in Nat
      BY <1>1, CostTypeNext
    <2>2. IsFiniteSet(T) /\ Numbers(Cost, T) /\ Numbers(Cost', T)
      BY <1>1, <1>2, <2>1, CostType
    <2>3. \A q \in T : Cost'[q] <= Cost[q]
      BY <1>2 DEF NoneCostsMore
    <2> QED BY <2>2, <2>3, SumMonotone
  <1>6. /\ SumOver(Cost', T) \in Nat /\ SumOver(Cost, T) \in Nat
        /\ TokenQuotaOf(r) \in Nat /\ peak[k] * MaxTokens \in Nat
    <2>1. \A R \in SUBSET Req : IsFiniteSet(R) /\ Numbers(Cost', R) /\ SumOver(Cost', R) \in Nat
      BY <1>1, CostTypeNext
    <2>2. r \in Req /\ carried[r] \in Policies /\ peak[k] \in Nat
      BY <1>1, <1>2 DEF TypeOK
    <2> QED BY <1>1, <1>2, <2>1, <2>2, CostType, EffectiveType DEF TokenQuotaOf, Fields
  <1>7. \/ TokenQuotaOf(r) = 0
        \/ SumOver(Cost', T) < TokenQuotaOf(r) + peak[k] * MaxTokens
    BY <1>3, <1>5, <1>6
  <1> QED BY <1>4, <1>7 DEF TokensLetThrough

(* Who passes was within its quota with what was on record; no request     *)
(* under way costs more than a completion can.                             *)
LEMMA PassTokens ==
  ASSUME IndInv, IndInv', TokenInv, NEW q \in Req, PrecheckPass(q)
  PROVE  TokenInv'
  <1>1. TypeOK /\ Endings /\ day \in Nat /\ LastDay \in Nat /\ MaxTokens \in Nat
    BY UsageAssumption DEF IndInv, TypeOK
  <1>2. /\ stage[q] = "authenticated" /\ stage'[q] = "routing" /\ recorded[q] = "none"
        /\ \A r \in Req \ {q} : stage'[r] = stage[r]
        /\ UNCHANGED <<carried, recorded, started, tokens, day>>
    BY <1>1 DEF PrecheckPass, TypeOK, Endings, recordVars
  <1>3. \A r \in Req : TokenQuotaOf(r)' = TokenQuotaOf(r) /\ TokenQuotaOf(r) \in Nat
    BY <1>1, <1>2, EffectiveStays, EffectiveType DEF TypeOK, TokenQuotaOf, Fields
  <1>4. PeakIsMost' /\ UnderWay(KeyOf[q])' = UnderWay(KeyOf[q]) \cup {q}
        /\ \A k \in Key : peak[k] <= peak'[k]
    BY PassPeak
  <1>5. Cost' = Cost
    BY <1>2 DEF Cost
  <1> SUFFICES ASSUME NEW k \in Key, NEW d \in 0 .. LastDay,
                      NEW T \in SUBSET MayCount(k, d)', T # {}
               PROVE  TokensLetThrough(T, k)'
    BY DEF TokenInv
  <1>6. T \in SUBSET Req /\ SumOver(Cost, T) \in Nat /\ peak[k] \in Nat /\ peak'[k] \in Nat
    <2>1. T \in SUBSET Req
      BY DEF MayCount
    <2> QED BY <1>1, <2>1, CostType DEF TypeOK, IndInv
  <1>7. CASE q \notin T
    <2>1. T \in SUBSET MayCount(k, d)
      BY <1>2, <1>7 DEF MayCount
    <2>2. PICK r \in T : \/ TokenQuotaOf(r) = 0
                         \/ SumOver(Cost, T) < TokenQuotaOf(r) + peak[k] * MaxTokens
      BY <2>1 DEF TokenInv, TokensLetThrough
    <2>3. r \in Req /\ TokenQuotaOf(r) \in Nat
      BY <1>3, <1>6
    <2>4. peak[k] * MaxTokens <= peak'[k] * MaxTokens
      BY <1>1, <1>4, <1>6, TimesMonotone
    <2>5. peak[k] * MaxTokens \in Nat /\ peak'[k] * MaxTokens \in Nat
      BY <1>1, <1>6
    <2>6. \/ TokenQuotaOf(r) = 0
          \/ SumOver(Cost, T) < TokenQuotaOf(r) + peak'[k] * MaxTokens
      BY <1>6, <2>2, <2>3, <2>4, <2>5
    <2> QED BY <1>3, <1>5, <2>3, <2>6 DEF TokensLetThrough
  <1>8. CASE q \in T /\ TokenQuotaOf(q) # 0
    <2> DEFINE rows == RowsOfKey(k, day)
               way == UnderWay(k)'
               rest == way \ rows
    <2>1. k = KeyOf[q] /\ day <= d
      BY <1>2, <1>8 DEF MayCount
    <2>2. SumOver(Cost, rows) < TokenQuotaOf(q)
      <3>1. TokenQuotaOf(q) > 0
        BY <1>3, <1>8
      <3>2. TokensIn(rows) < TokenQuotaOf(q)
        BY <2>1, <3>1 DEF PrecheckPass, TokensLeft, SumTokensToday, TokenQuotaOf
      <3>3. rows \in SUBSET Req /\ \A r \in rows : recorded[r] # "none"
        BY DEF RowsOfKey, RowsOf
      <3> HIDE DEF rows
      <3> QED BY <1>1, <3>2, <3>3, TokensAreCosts
    <2>3. T \subseteq rows \cup rest
      <3> SUFFICES ASSUME NEW r \in T PROVE r \in rows \cup way
        OBVIOUS
      <3>1. /\ r \in Req /\ KeyOf[r] = k /\ started[r] <= day
            /\ \/ recorded[r] # "none" /\ started[r] = d
               \/ stage'[r] = "serving" \/ stage'[r] = "routing"
        BY <1>1, <1>2, <1>6 DEF MayCount, Endings
      <3>2. CASE recorded[r] # "none" /\ started[r] = d
        <4>1. d = day
          BY <1>1, <2>1, <3>1, <3>2
        <4> QED BY <3>1, <3>2, <4>1 DEF RowsOfKey, RowsOf
      <3>3. CASE stage'[r] \in {"serving", "routing"}
        BY <3>1, <3>3 DEF UnderWay
      <3> QED BY <3>1, <3>2, <3>3
    <2>4. /\ rows \in SUBSET Req /\ way \in SUBSET Req /\ rest \in SUBSET way /\ rows \cap rest = {}
      BY DEF RowsOfKey, RowsOf, UnderWay
    <2>5. Cardinality(way) <= peak'[k]
      BY <1>4 DEF PeakIsMost
    <2> HIDE DEF rows, way, rest
    <2>6. /\ rest \in SUBSET Req /\ rows \cup rest \in SUBSET Req
      BY <2>4
    <2>7. /\ IsFiniteSet(rows) /\ IsFiniteSet(way) /\ IsFiniteSet(rest)
          /\ IsFiniteSet(rows \cup rest)
          /\ Numbers(Cost, rows) /\ Numbers(Cost, rest) /\ Numbers(Cost, rows \cup rest)
          /\ SumOver(Cost, rows) \in Nat /\ SumOver(Cost, rest) \in Nat
          /\ Cost \in [Req -> 0 .. MaxTokens]
      BY <1>1, <2>4, <2>6, CostType
    <2>8. SumOver(Cost, T) <= SumOver(Cost, rows) + SumOver(Cost, rest)
      <3>1. SumOver(Cost, T) <= SumOver(Cost, rows \cup rest)
        BY <2>3, <2>7, SumSubset
      <3>2. SumOver(Cost, rows \cup rest) = SumOver(Cost, rows) + SumOver(Cost, rest)
        BY <2>4, <2>7, SumDisjoint
      <3> QED BY <3>1, <3>2
    <2>9. SumOver(Cost, rest) <= peak'[k] * MaxTokens
      <3>1. \A r \in rest : Cost[r] <= MaxTokens
        BY <1>1, <2>6, <2>7
      <3>2. SumOver(Cost, rest) <= Cardinality(rest) * MaxTokens
        BY <1>1, <2>7, <3>1, SumBounded
      <3>3. Cardinality(rest) <= Cardinality(way)
        BY <2>4, <2>7, FS_Subset
      <3>4. Cardinality(rest) \in Nat /\ Cardinality(way) \in Nat
        BY <2>7, FS_CardinalityType
      <3>5. Cardinality(rest) <= peak'[k]
        BY <1>6, <2>5, <3>3, <3>4
      <3>6. Cardinality(rest) * MaxTokens <= peak'[k] * MaxTokens
        BY <1>1, <1>6, <3>4, <3>5, TimesMonotone
      <3>7. Cardinality(rest) * MaxTokens \in Nat /\ peak'[k] * MaxTokens \in Nat
        BY <1>1, <1>6, <3>4
      <3> QED BY <2>7, <3>2, <3>6, <3>7
    <2>10. SumOver(Cost, T) < TokenQuotaOf(q) + peak'[k] * MaxTokens
      <3>1. peak'[k] * MaxTokens \in Nat /\ TokenQuotaOf(q) \in Nat
        BY <1>1, <1>3, <1>6
      <3> QED BY <1>6, <2>2, <2>7, <2>8, <2>9, <3>1
    <2> QED BY <1>3, <1>5, <1>8, <2>10 DEF TokensLetThrough
  <1>9. CASE q \in T /\ TokenQuotaOf(q) = 0
    BY <1>3, <1>9 DEF TokensLetThrough
  <1> QED BY <1>7, <1>8, <1>9

LEMMA StepTokenInv ==
  IndInv /\ IndInv' /\ TokenInv /\ [Next]_vars => TokenInv'
  BY OtherSteps, NoneCostsMoreKeeps, PassTokens

LEMMA TokenInvHolds == Spec => []TokenInv
  BY IndInvHolds, InitTokenInv, StepTokenInv, PTL DEF Spec

-----------------------------------------------------------------------------
(* The pages.                                                              *)

(* A sum over a field of what a page has by group.                         *)
LEMMA RequestsColumn ==
  ASSUME NEW S, IsFiniteSet(S), NEW page, NEW f, Numbers(f, S),
         \A x \in S : page[x].requests = f[x]
  PROVE  MapThenSumSet(LAMBDA g : page[g].requests, S) = SumOver(f, S)
  <1> DEFINE Column(h) == h = [s \in SUBSET S |-> IF s = {} THEN 0
                                                  ELSE page[Pick(s)].requests + h[s \ {Pick(s)}]]
  <1>1. ASSUME NEW h PROVE Column(h) <=> IsSum(h, f, S)
    <2>1. \A s \in SUBSET S : s # {} => page[Pick(s)].requests = f[Pick(s)]
      BY DEF Pick
    <2>2. [s \in SUBSET S |-> IF s = {} THEN 0 ELSE page[Pick(s)].requests + h[s \ {Pick(s)}]]
            = [s \in SUBSET S |-> IF s = {} THEN 0 ELSE f[Pick(s)] + h[s \ {Pick(s)}]]
      BY <2>1
    <2> QED BY <2>2 DEF IsSum
  <1>2. MapThenSumSet(LAMBDA g : page[g].requests, S) = (CHOOSE h : Column(h))[S]
    BY DEF MapThenSumSet, MapThenFoldSet, Pick
  <1> HIDE DEF Column
  <1>3. PICK e \in [SUBSET S -> Nat] : IsSum(e, f, S)
    BY SumExists
  <1>4. Column(CHOOSE h : Column(h))
    BY <1>1, <1>3
  <1>5. IsSum(CHOOSE h : Column(h), f, S)
    BY <1>1, <1>4
  <1> QED BY <1>2, <1>5, SumIsAny

LEMMA TokensColumn ==
  ASSUME NEW S, IsFiniteSet(S), NEW page, NEW f, Numbers(f, S),
         \A x \in S : page[x].tokens = f[x]
  PROVE  MapThenSumSet(LAMBDA g : page[g].tokens, S) = SumOver(f, S)
  <1> DEFINE Column(h) == h = [s \in SUBSET S |-> IF s = {} THEN 0
                                                  ELSE page[Pick(s)].tokens + h[s \ {Pick(s)}]]
  <1>1. ASSUME NEW h PROVE Column(h) <=> IsSum(h, f, S)
    <2>1. \A s \in SUBSET S : s # {} => page[Pick(s)].tokens = f[Pick(s)]
      BY DEF Pick
    <2>2. [s \in SUBSET S |-> IF s = {} THEN 0 ELSE page[Pick(s)].tokens + h[s \ {Pick(s)}]]
            = [s \in SUBSET S |-> IF s = {} THEN 0 ELSE f[Pick(s)] + h[s \ {Pick(s)}]]
      BY <2>1
    <2> QED BY <2>2 DEF IsSum
  <1>2. MapThenSumSet(LAMBDA g : page[g].tokens, S) = (CHOOSE h : Column(h))[S]
    BY DEF MapThenSumSet, MapThenFoldSet, Pick
  <1> HIDE DEF Column
  <1>3. PICK e \in [SUBSET S -> Nat] : IsSum(e, f, S)
    BY SumExists
  <1>4. Column(CHOOSE h : Column(h))
    BY <1>1, <1>3
  <1>5. IsSum(CHOOSE h : Column(h), f, S)
    BY <1>1, <1>4
  <1> QED BY <1>2, <1>5, SumIsAny

(* A list of what the requests of a set took, in some order.               *)
Lists(h, S) ==
  h = [s \in SUBSET S |-> IF s = {} THEN <<>>
                          ELSE Append(h[s \ {Pick(s)}], Took[Pick(s)])]

LEMMA DurationsListed ==
  ASSUME NEW rows \in SUBSET Req
  PROVE  DurationsOf(rows) \in Seq(Nat) /\ Len(DurationsOf(rows)) = Cardinality(rows)
  <1>1. IsFiniteSet(rows) /\ Took \in [Req -> Nat]
    BY SetsAreFinite, UsageAssumption
  <1> DEFINE step == [p \in rows \X Seq(Nat) |-> Append(p[2], Took[p[1]])]
  <1>2. step \in [rows \X Seq(Nat) -> Seq(Nat)]
    <2> SUFFICES ASSUME NEW p \in rows \X Seq(Nat) PROVE Append(p[2], Took[p[1]]) \in Seq(Nat)
      OBVIOUS
    <2>1. p[2] \in Seq(Nat) /\ Took[p[1]] \in Nat
      BY <1>1
    <2> QED BY <2>1, AppendProperties
  <1>3. \A r \in rows, list \in Seq(Nat) : step[<<r, list>>] = Append(list, Took[r])
    OBVIOUS
  <1> HIDE DEF step
  <1>4. <<>> \in Seq(Nat)
    BY EmptySeq
  <1>5. PICK g \in [SUBSET rows -> Seq(Nat)] : IsFold(g, rows, step, <<>>)
    BY <1>1, <1>2, <1>4, FoldExists
  <1>6. ASSUME NEW s \in SUBSET rows
        PROVE  g[s] = IF s = {} THEN <<>> ELSE Append(g[s \ {Pick(s)}], Took[Pick(s)])
    <2>1. CASE s = {}
      BY <2>1, <1>5 DEF IsFold
    <2>2. CASE s # {}
      <3>1. Pick(s) \in rows /\ s \ {Pick(s)} \in SUBSET rows
        BY <2>2 DEF Pick
      <3>2. g[s \ {Pick(s)}] \in Seq(Nat)
        BY <3>1
      <3>3. g[s] = step[<<Pick(s), g[s \ {Pick(s)}]>>]
        BY <1>5, <2>2 DEF IsFold
      <3> QED BY <1>3, <2>2, <3>1, <3>2, <3>3
    <2> QED BY <2>1, <2>2
  <1>7. Lists(g, rows)
    <2>1. g = [s \in SUBSET rows |-> g[s]]
      OBVIOUS
    <2> QED BY <1>6, <2>1 DEF Lists
  <1>8. PICK h : Lists(h, rows) /\ DurationsOf(rows) = h[rows]
    <2>1. Lists(CHOOSE h : Lists(h, rows), rows)
      BY <1>7
    <2>2. DurationsOf(rows) = (CHOOSE h : Lists(h, rows))[rows]
      BY DEF DurationsOf, FoldSet, MapThenFoldSet, Lists, Pick
    <2> QED BY <2>1, <2>2
  <1> DEFINE Good == {T \in SUBSET rows : h[T] \in Seq(Nat) /\ Len(h[T]) = Cardinality(T)}
  <1>9. ASSUME NEW T \in SUBSET rows, IsFiniteSet(T), \A x \in T : T \ {x} \in Good
        PROVE  T \in Good
    <2>1. CASE T = {}
      <3>1. h[T] = <<>>
        BY <1>8, <2>1 DEF Lists
      <3>2. Len(<<>>) = 0 /\ Cardinality(T) = 0
        BY <2>1, FS_EmptySet
      <3> QED BY <1>4, <3>1, <3>2
    <2>2. CASE T # {}
      <3>1. PICK x \in T : x = Pick(T)
        BY <2>2 DEF Pick
      <3>2. h[T] = Append(h[T \ {x}], Took[x])
        BY <1>8, <2>2, <3>1 DEF Lists
      <3>3. h[T \ {x}] \in Seq(Nat) /\ Len(h[T \ {x}]) = Cardinality(T \ {x})
        BY <1>9
      <3>4. Cardinality(T \ {x}) = Cardinality(T) - 1 /\ Cardinality(T) \in Nat
        BY <1>9, FS_RemoveElement, FS_CardinalityType
      <3>5. Took[x] \in Nat
        BY <1>1
      <3> HIDE DEF Good
      <3>6. h[T] \in Seq(Nat) /\ Len(h[T]) = Len(h[T \ {x}]) + 1
        BY <3>2, <3>3, <3>5, AppendProperties
      <3>7. Len(h[T]) = Cardinality(T)
        BY <3>3, <3>4, <3>6
      <3> QED BY <3>6, <3>7 DEF Good
    <2> QED BY <2>1, <2>2
  <1> HIDE DEF Good
  <1>10. rows \in Good
    BY <1>1, <1>9, SmallestSet
  <1> QED BY <1>8, <1>10 DEF Good

(* Every request of a day is on one line of a page that groups them.       *)
LEMMA BreakdownAddsUp ==
  ASSUME TypeOK, NEW group
  PROVE  LET page == Breakdown(group)
         IN  /\ MapThenSumSet(LAMBDA g : page[g].requests, DOMAIN page)
                  = Cardinality(RowsOf(day))
             /\ MapThenSumSet(LAMBDA g : page[g].tokens, DOMAIN page)
                  = TokensIn(RowsOf(day))
  <1> DEFINE page == Breakdown(group)
             rows == RowsOf(day)
             G == {group[r] : r \in rows}
             counts == [g \in G |-> Cardinality(Part(rows, group, g))]
             costs == [g \in G |-> SumOver(Cost, Part(rows, group, g))]
  <1>1. /\ rows \in SUBSET Req /\ IsFiniteSet(rows) /\ Numbers(Cost, rows)
        /\ \A r \in rows : recorded[r] # "none"
    BY CostType DEF RowsOf
  <1>2. \A g \in G : Part(rows, group, g) \in SUBSET rows
    BY DEF Part
  <1>3. IsFiniteSet(G) /\ Split(rows, group, G)
    <2>1. [r \in rows |-> group[r]] \in Surjection(rows, G)
      BY DEF Surjection
    <2> QED BY <1>1, <2>1, FS_Surjection DEF Split
  <1>4. /\ DOMAIN page = G
        /\ \A g \in G : /\ page[g].requests = counts[g]
                        /\ page[g].tokens = TokensIn(Part(rows, group, g))
    BY DEF Breakdown, Part
  <1>5. \A g \in G : page[g].tokens = costs[g]
    <2> SUFFICES ASSUME NEW g \in G
                 PROVE  TokensIn(Part(rows, group, g)) = SumOver(Cost, Part(rows, group, g))
      BY <1>4
    <2>1. Part(rows, group, g) \in SUBSET Req
          /\ \A r \in Part(rows, group, g) : recorded[r] # "none"
      BY <1>1, <1>2
    <2> QED BY <2>1, TokensAreCosts
  <1>6. Numbers(counts, G) /\ Numbers(costs, G)
    <2> SUFFICES ASSUME NEW g \in G PROVE counts[g] \in Nat /\ costs[g] \in Nat
      BY DEF Numbers
    <2>1. Part(rows, group, g) \in SUBSET Req
      BY <1>1, <1>2
    <2> QED BY <2>1, CostType, SetsAreFinite
  <1>7. AddsUp(costs, Cost, rows, group, G)
    BY DEF AddsUp
  <1>8. \A g \in G : counts[g] = Cardinality(Part(rows, group, g))
    OBVIOUS
  <1>9. TokensIn(rows) = SumOver(Cost, rows)
    BY <1>1, TokensAreCosts
  <1> HIDE DEF page, rows, G, counts, costs
  <1>10. SumOver(counts, G) = Cardinality(rows)
    BY <1>1, <1>3, <1>8, CountOfParts
  <1>11. SumOver(costs, G) = SumOver(Cost, rows)
    BY <1>1, <1>3, <1>7, SumOfParts
  <1>12. MapThenSumSet(LAMBDA g : page[g].requests, G) = SumOver(counts, G)
    BY <1>3, <1>4, <1>6, RequestsColumn
  <1>13. MapThenSumSet(LAMBDA g : page[g].tokens, G) = SumOver(costs, G)
    BY <1>3, <1>5, <1>6, TokensColumn
  <1> QED BY <1>4, <1>9, <1>10, <1>11, <1>12, <1>13 DEF page, rows

(* A page of a key, of a client or of all is the summary of their rows.    *)
LEMMA PagesShow ==
  /\ UsageOfAll = Summary(RowsOf(day))
  /\ \A k \in Key : UsageOfKey(k) = Summary(RowsOfKey(k, day))
  /\ \A c \in Client :
       UsageOfClient(c) = Summary({r \in RowsOf(day) : ClientOf[KeyOf[r]] = c})
  <1>1. {r \in RowsOf(day) : IF NULL # NULL THEN KeyOf[r] = NULL
                             ELSE NULL # NULL => ClientOf[KeyOf[r]] = NULL} = RowsOf(day)
    OBVIOUS
  <1>2. ASSUME NEW k \in Key
        PROVE  {r \in RowsOf(day) : IF k # NULL THEN KeyOf[r] = k
                                    ELSE NULL # NULL => ClientOf[KeyOf[r]] = NULL}
                 = RowsOfKey(k, day)
    BY UsageAssumption DEF RowsOfKey
  <1>3. ASSUME NEW c \in Client
        PROVE  {r \in RowsOf(day) : IF NULL # NULL THEN KeyOf[r] = NULL
                                    ELSE c # NULL => ClientOf[KeyOf[r]] = c}
                 = {r \in RowsOf(day) : ClientOf[KeyOf[r]] = c}
    BY UsageAssumption
  <1> QED BY <1>1, <1>2, <1>3 DEF UsageOfAll, UsageOfKey, UsageOfClient, Summarize

(* The pages agree with each other and with what the quotas count, and the *)
(* latencies are what they are called: it takes the types only, but for    *)
(* every set of records.                                                   *)
LEMMA TypesMakePagesAgree == ASSUME TypeOK PROVE PagesAgree
  <1> DEFINE all == UsageOfAll
             byClient == ClientBreakdown
             today == RowsOf(day)
  <1>1. today \in SUBSET Req /\ IsFiniteSet(today) /\ Cardinality(today) \in Nat
    BY SetsAreFinite DEF RowsOf
  <1>2. /\ all.requests = Cardinality(today) /\ all.tokens = TokensIn(today)
        /\ all.outcomes = [o \in Outcomes |-> Having(today, o)]
    BY PagesShow DEF Summary
  <1>3. ASSUME NEW k \in Key
        PROVE  /\ UsageOfKey(k).requests = CountRequestsToday(k)
               /\ UsageOfKey(k).tokens = SumTokensToday(k)
    <2>1. UsageOfKey(k) = Summary(RowsOfKey(k, day))
      BY PagesShow
    <2> QED BY <2>1 DEF Summary, CountRequestsToday, SumTokensToday
  <1>4. all.outcomes = ObservabilitySummary.requests
    BY <1>2 DEF ObservabilitySummary
  <1>5. all.requests = MapThenSumSet(LAMBDA o : all.outcomes[o], Outcomes)
    <2> DEFINE outcomes == all.outcomes
    <2>1. MapThenSumSet(LAMBDA o : outcomes[o], Outcomes) = SumOver(outcomes, Outcomes)
      BY DEF SumOver
    <2>2. IsFiniteSet(Outcomes)
      <3>1. IsFiniteSet({"completed"} \cup {"failed"} \cup {"cancelled"}
                          \cup {"timed_out"} \cup {"rejected"})
        BY FS_Singleton, FS_Union
      <3>2. Outcomes = {"completed"} \cup {"failed"} \cup {"cancelled"}
                         \cup {"timed_out"} \cup {"rejected"}
        BY DEF Outcomes
      <3> QED BY <3>1, <3>2
    <2>3. Split(today, recorded, Outcomes)
      BY DEF Split, TypeOK, RowsOf
    <2>4. \A o \in Outcomes : outcomes[o] = Cardinality(Part(today, recorded, o))
      BY <1>2 DEF Having, Part
    <2> HIDE DEF outcomes
    <2>5. SumOver(outcomes, Outcomes) = Cardinality(today)
      BY <1>1, <2>2, <2>3, <2>4, CountOfParts
    <2> QED BY <1>2, <2>1, <2>5 DEF outcomes
  <1>6. /\ AreStatsOf(LatencyOfToday, DurationsOf(today))
        /\ LatencyOfToday.count = all.requests
    <2>1. DurationsOf(today) \in Seq(Nat) /\ Len(DurationsOf(today)) = Cardinality(today)
      BY <1>1, DurationsListed
    <2>2. AreStatsOf(LatencyStats(DurationsOf(today)), DurationsOf(today))
      BY <2>1, LatencyIsRight
    <2>3. LatencyStats(DurationsOf(today)).count = Len(DurationsOf(today))
      BY <2>2 DEF AreStatsOf
    <2> QED BY <1>2, <2>1, <2>2, <2>3 DEF LatencyOfToday
  <1>7. ASSUME NEW c \in DOMAIN byClient
        PROVE  /\ byClient[c].requests = UsageOfClient(c).requests
               /\ byClient[c].completed = UsageOfClient(c).outcomes["completed"]
    <2> DEFINE group == [r \in Req |-> ClientOf[KeyOf[r]]]
               rows == {r \in today : ClientOf[KeyOf[r]] = c}
    <2>1. c \in Client
      <3>1. DOMAIN byClient = {group[r] : r \in today}
        BY DEF ClientBreakdown, Breakdown
      <3>2. PICK r \in today : c = group[r]
        BY <3>1
      <3>3. r \in Req
        BY <1>1
      <3> QED BY <3>2, <3>3, UsageAssumption
    <2>2. {r \in today : group[r] = c} = rows
      BY <1>1
    <2>3. /\ byClient[c].requests = Cardinality(rows)
          /\ byClient[c].completed = Having(rows, "completed")
      BY <2>2 DEF ClientBreakdown, Breakdown
    <2>4. UsageOfClient(c) = Summary(rows)
      BY <2>1, PagesShow
    <2> QED BY <2>3, <2>4 DEF Summary, Outcomes
  <1>8. ASSUME NEW page \in {byClient, ModelBreakdown, BackendBreakdown}
        PROVE  /\ all.requests = MapThenSumSet(LAMBDA g : page[g].requests, DOMAIN page)
               /\ all.tokens = MapThenSumSet(LAMBDA g : page[g].tokens, DOMAIN page)
    <2>1. PICK group : page = Breakdown(group)
      BY DEF ClientBreakdown, ModelBreakdown, BackendBreakdown
    <2>2. /\ MapThenSumSet(LAMBDA g : Breakdown(group)[g].requests, DOMAIN Breakdown(group))
               = Cardinality(today)
          /\ MapThenSumSet(LAMBDA g : Breakdown(group)[g].tokens, DOMAIN Breakdown(group))
               = TokensIn(today)
      BY BreakdownAddsUp
    <2> QED BY <1>2, <2>1, <2>2
  <1> QED BY <1>3, <1>4, <1>5, <1>6, <1>7, <1>8 DEF PagesAgree

-----------------------------------------------------------------------------
(* Theorems.                                                               *)

(* Windows, rows, records and the peaks keep their types.                  *)
THEOREM TypeCorrect == Spec => []TypeOK
  BY IndInvHolds, PTL DEF IndInv

(* The precheck charges the limiter for everyone it lets go on under a     *)
(* limit, those included that it then refuses for a quota or that are not  *)
(* routed, as the order of precheck and routing in the code has it.        *)
THEOREM LimiterIsPaid == Spec => []LimiterPaidByAll
  BY IndInvHolds, PTL DEF IndInv

(* The loosest quota of a set of requests is no less than that of any.     *)
LEMMA LoosestQuota ==
  ASSUME TypeOK, NEW field \in Fields, NEW rows \in SUBSET Req, rows # {}
  PROVE  LET quotas == {Effective(r, field) : r \in rows}
         IN  Max(quotas) \in Nat /\ \A r \in rows : Effective(r, field) <= Max(quotas)
  <1> DEFINE quota == [r \in Req |-> Effective(r, field)]
  <1>1. \A r \in Req : Effective(r, field) \in Nat
    BY EffectiveType DEF TypeOK
  <1>2. quota \in [Req -> Nat] /\ \A r \in rows : quota[r] = Effective(r, field)
    BY <1>1
  <1>3. {Effective(r, field) : r \in rows} = {quota[r] : r \in rows}
    BY <1>2
  <1> HIDE DEF quota
  <1>4. /\ Max({quota[r] : r \in rows}) \in Nat
        /\ \A r \in rows : quota[r] <= Max({quota[r1] : r1 \in rows})
    BY <1>2, SetsAreFinite, MaxOfValues
  <1> QED BY <1>2, <1>3, <1>4

(* The quotas are read at the precheck and the record is written at the    *)
(* end: a key gets beyond the requests and the tokens of a day by no more  *)
(* than it had under way at a time, less one, and what that many           *)
(* completions can cost, through crashes, changes of policy and days.      *)
THEOREM OvershootIsBounded == Spec => []OvershootBounded
  <1>1. ASSUME IndInv PROVE RequestsBounded
    <2>1. TypeOK /\ QuotaInv
      BY <1>1 DEF IndInv
    <2> SUFFICES ASSUME NEW k \in Key, NEW d \in 0 .. LastDay,
                        RowsOfKey(k, d) # {}, 0 \notin Quotas(k, d, "requests_per_day")
                 PROVE  Cardinality(RowsOfKey(k, d))
                          < Max(Quotas(k, d, "requests_per_day")) + peak[k]
      BY DEF RequestsBounded
    <2> DEFINE rows == RowsOfKey(k, d)
               quotas == Quotas(k, d, "requests_per_day")
    <2>2. rows \in SUBSET MayCount(k, d) /\ rows \in SUBSET Req
      BY DEF RowsOfKey, RowsOf, MayCount
    <2>3. PICK r \in rows : QuotaOf(r) = 0 \/ Cardinality(rows) < QuotaOf(r) + peak[k]
      BY <2>1, <2>2 DEF QuotaInv, LetThrough
    <2>4. Max(quotas) \in Nat /\ QuotaOf(r) <= Max(quotas)
      BY <2>1, <2>2, LoosestQuota DEF Quotas, QuotaOf, Fields
    <2>5. QuotaOf(r) # 0 /\ QuotaOf(r) \in Nat
      BY <2>1, <2>2, EffectiveType DEF TypeOK, Quotas, QuotaOf, Fields
    <2>6. Cardinality(rows) \in Nat /\ peak[k] \in Nat
      BY <2>1, <2>2, SetsAreFinite DEF TypeOK
    <2> HIDE DEF rows, quotas
    <2>7. Cardinality(rows) < Max(quotas) + peak[k]
      BY <2>3, <2>4, <2>5, <2>6
    <2> QED BY <2>7 DEF rows, quotas
  <1>2. ASSUME IndInv, TokenInv PROVE TokensBounded
    <2>1. TypeOK /\ TokenInv /\ MaxTokens \in Nat
      BY <1>2, UsageAssumption DEF IndInv
    <2> SUFFICES ASSUME NEW k \in Key, NEW d \in 0 .. LastDay,
                        RowsOfKey(k, d) # {}, 0 \notin Quotas(k, d, "tokens_per_day")
                 PROVE  TokensIn(RowsOfKey(k, d))
                          < Max(Quotas(k, d, "tokens_per_day")) + peak[k] * MaxTokens
      BY DEF TokensBounded
    <2> DEFINE rows == RowsOfKey(k, d)
               quotas == Quotas(k, d, "tokens_per_day")
    <2>2. /\ rows \in SUBSET MayCount(k, d) /\ rows \in SUBSET Req
          /\ \A r \in rows : recorded[r] # "none"
      BY DEF RowsOfKey, RowsOf, MayCount
    <2>3. PICK r \in rows : \/ TokenQuotaOf(r) = 0
                            \/ SumOver(Cost, rows) < TokenQuotaOf(r) + peak[k] * MaxTokens
      BY <2>1, <2>2 DEF TokenInv, TokensLetThrough
    <2>4. Max(quotas) \in Nat /\ TokenQuotaOf(r) <= Max(quotas)
      BY <2>1, <2>2, LoosestQuota DEF Quotas, TokenQuotaOf, Fields
    <2>5. TokenQuotaOf(r) # 0 /\ TokenQuotaOf(r) \in Nat
      BY <2>1, <2>2, EffectiveType DEF TypeOK, Quotas, TokenQuotaOf, Fields
    <2>6. SumOver(Cost, rows) \in Nat /\ peak[k] * MaxTokens \in Nat
      <3>1. peak[k] \in Nat
        BY <2>1 DEF TypeOK
      <3> QED BY <2>1, <2>2, <3>1, CostType
    <2> HIDE DEF rows, quotas
    <2>7. SumOver(Cost, rows) < Max(quotas) + peak[k] * MaxTokens
      BY <2>3, <2>4, <2>5, <2>6
    <2>8. TokensIn(rows) = SumOver(Cost, rows)
      BY <2>1, <2>2, TokensAreCosts
    <2> QED BY <2>7, <2>8 DEF rows, quotas
  <1>3. IndInv /\ TokenInv => OvershootBounded
    BY <1>1, <1>2 DEF OvershootBounded
  <1> QED BY <1>3, IndInvHolds, TokenInvHolds, PTL

(* The page of a key shows what its next precheck counts, every way to     *)
(* group the records of a day adds up to the whole of it, and the          *)
(* latencies are the median, the 95th percentile and the longest.          *)
THEOREM PagesStayInAgreement == Spec => []PagesAgree
  BY IndInvHolds, TypesMakePagesAgree, PTL DEF IndInv

(* Records are never taken back: what the counters count of a day only     *)
(* grows while it lasts.                                                   *)
LEMMA RecordsGrow ==
  ASSUME IndInv, IndInv', Next, recorded' # recorded, day' = day
  PROVE  /\ RowsOf(day) \in SUBSET Req /\ RowsOf(day)' \in SUBSET Req
         /\ RowsOf(day) \subseteq RowsOf(day)'
         /\ \A r \in RowsOf(day) : recorded'[r] = recorded[r] /\ tokens'[r] = tokens[r]
  <1>1. TypeOK /\ Endings
    BY DEF IndInv
  <1>2. PICK q \in Req : End(q)
    BY DEF Next, Authenticate, Precheck, PrecheckRateLimited, PrecheckOverQuota, PrecheckPass,
           RouteFail, Begin, EndUnrecorded, PutPolicy, Crash, Tick, NextDay, recordVars
  <1>3. recorded[q] = "none" /\ started' = started
    BY <1>1, <1>2 DEF End, Endings
  <1>4. \A r \in Req \ {q} : recorded'[r] = recorded[r] /\ tokens'[r] = tokens[r]
    <2>1. PICK outcome \in Fates : recorded' = [recorded EXCEPT ![q] = outcome]
      BY <1>2 DEF End
    <2>2. PICK total \in {NULL} \cup 0 .. MaxTokens : tokens' = [tokens EXCEPT ![q] = total]
      BY <1>2 DEF End
    <2> QED BY <1>1, <2>1, <2>2 DEF TypeOK
  <1> QED BY <1>3, <1>4 DEF RowsOf

LEMMA TokensInGrows ==
  ASSUME TypeOK, TypeOK', NEW R \in SUBSET Req, NEW S \in SUBSET Req, R \subseteq S,
         \A r \in R : tokens'[r] = tokens[r]
  PROVE  /\ TokensIn(R) \in Nat /\ TokensIn(S)' \in Nat
         /\ TokensIn(R) <= TokensIn(S)'
  <1> DEFINE A == {r \in R : tokens[r] # NULL}
             B == {r \in S : tokens'[r] # NULL}
  <1>1. TokensIn(R) = SumOver(tokens, A) /\ TokensIn(S)' = SumOver(tokens', B)
    <2>1. TokensIn(R) = SumOver(tokens, A)
      BY DEF TokensIn, SumOver
    <2>2. TokensIn(S)' = SumOver(tokens', B)
      BY DEF TokensIn, SumOver, MapThenSumSet, MapThenFoldSet
    <2> QED BY <2>1, <2>2
  <1>2. A \in SUBSET B /\ IsFiniteSet(A) /\ IsFiniteSet(B)
    BY SetsAreFinite
  <1>3. Numbers(tokens, A) /\ Numbers(tokens', A) /\ Numbers(tokens', B)
    BY UsageAssumption DEF Numbers, TypeOK
  <1>4. \A r \in A : tokens[r] = tokens'[r]
    OBVIOUS
  <1> HIDE DEF A, B
  <1>5. SumOver(tokens, A) = SumOver(tokens', A)
    BY <1>2, <1>3, <1>4, SumAgrees
  <1>6. SumOver(tokens', A) <= SumOver(tokens', B)
    BY <1>2, <1>3, SumSubset
  <1>7. SumOver(tokens, A) \in Nat /\ SumOver(tokens', B) \in Nat
    BY <1>2, <1>3, SumType
  <1> QED BY <1>1, <1>5, <1>6, <1>7

(* What /admin/metrics exports as counters falls at midnight only, when    *)
(* they start to count another day; no end of a request takes from them.   *)
THEOREM CountersFallRarely == Spec => CountersFallAtMidnightOnly
  <1> DEFINE Kept == recorded' # recorded /\ day' = day =>
                       LET before == Counters
                           after == Counters'
                       IN  \A c \in DOMAIN before : \A label \in DOMAIN before[c] :
                             after[c][label] >= before[c][label]
  <1>1. ASSUME IndInv, IndInv', Next, recorded' # recorded, day' = day,
               NEW c \in DOMAIN Counters, NEW label \in DOMAIN Counters[c]
        PROVE  Counters'[c][label] >= Counters[c][label]
    <2>s. PICK R, S : R = RowsOf(day) /\ S = RowsOf(day)'
      OBVIOUS
    <2>1. /\ R \in SUBSET Req /\ S \in SUBSET Req /\ R \subseteq S
          /\ \A r \in R : recorded'[r] = recorded[r] /\ tokens'[r] = tokens[r]
      BY <1>1, <2>s, RecordsGrow
    <2>2. /\ Counters["syn_requests_total"] = [o \in Outcomes |-> Having(R, o)]
          /\ Counters'["syn_requests_total"] = [o \in Outcomes |-> Having(S, o)']
          /\ Counters["syn_tokens_total"] = [type \in {"total"} |-> TokensIn(R)]
          /\ Counters'["syn_tokens_total"] = [type \in {"total"} |-> TokensIn(S)']
          /\ c \in {"syn_requests_total", "syn_tokens_total"}
      BY <1>1, <2>s DEF Counters, ObservabilitySummary, Having, TokensIn
    <2>3. CASE c = "syn_requests_total"
      <3>1. label \in Outcomes
        BY <1>1, <2>2, <2>3
      <3>2. Having(R, label) <= Having(S, label)'
        <4> DEFINE A == {r \in R : recorded[r] = label}
                   B == {r \in S : recorded'[r] = label}
        <4>1. A \in SUBSET B /\ IsFiniteSet(B)
          BY <2>1, SetsAreFinite
        <4>2. Cardinality(A) <= Cardinality(B)
          BY <4>1, FS_Subset
        <4> QED BY <4>2 DEF Having
      <3>3. Having(R, label) \in Nat /\ Having(S, label)' \in Nat
        BY <2>1, SetsAreFinite DEF Having
      <3> QED BY <2>2, <2>3, <3>1, <3>2, <3>3
    <2>4. CASE c = "syn_tokens_total"
      <3>1. /\ TokensIn(R) \in Nat /\ TokensIn(S)' \in Nat
            /\ TokensIn(R) <= TokensIn(S)'
        BY <1>1, <2>1, TokensInGrows DEF IndInv
      <3> QED BY <1>1, <2>2, <2>4, <3>1
    <2> QED BY <2>2, <2>3, <2>4
  <1>2. IndInv /\ IndInv' /\ [Next]_vars => [Kept]_vars
    BY <1>1
  <1> QED BY <1>2, IndInvHolds, PTL DEF Spec, CountersFallAtMidnightOnly
-----------------------------------------------------------------------------
(* The rate.                                                               *)

(* What RateLimiterProofs shows of logs and windows speaks of no limit.    *)
Rate == INSTANCE RateLimiterProofs WITH limit <- [k \in Key |-> 0], Limits <- Nat

LEMMA RateAssumption == Rate!LimiterAssumption
  BY UsageAssumption DEF Rate!LimiterAssumption

LEMMA SameWindows ==
  ASSUME NEW r, NEW t
  PROVE  Limiter(r)!WindowOf(t) = Rate!WindowOf(t)
  BY DEF Limiter!WindowOf, Limiter!Window, Rate!WindowOf, Rate!Window

(* Each key's window counts what was let through in it, whatever limits    *)
(* those requests had.                                                     *)
RateInv == \A k \in Key : Rate!Counted(log[k], windows[k], now)

(* Nothing was let through, and time stood still.                          *)
LEMMA RateKeptQuiet ==
  ASSUME RateInv, UNCHANGED <<now, windows, log>>
  PROVE  RateInv'
  BY DEF RateInv, Rate!Counted, Rate!Within, Rate!WindowOf, Rate!Window

(* A precheck the limiter lets through.                                    *)
LEMMA RateOfAdmitted ==
  ASSUME TypeOK, LogType, RateInv, NEW r \in Req, LimiterAdmits(r)
  PROVE  /\ RateInv'
         /\ Effective(r, "requests_per_minute") > 0 =>
              Rate!Used(log'[KeyOf[r]], now) <= Effective(r, "requests_per_minute")
  <1> DEFINE key == KeyOf[r]
             limit == Effective(r, "requests_per_minute")
             used == Rate!Used(log[key], now)
             w == [start |-> Rate!WindowOf(now), count |-> used + 1]
  <1>1. /\ key \in Key /\ limit \in Nat /\ now \in Nat
        /\ log[key] \in Seq(Nat) /\ windows[key] \in [start : Int, count : Nat]
        /\ Rate!Counted(log[key], windows[key], now)
    BY UsageAssumption, EffectiveType DEF TypeOK, LogType, Fields, RateInv
  <1>2. /\ used = IF windows[key].start = Rate!WindowOf(now) THEN windows[key].count ELSE 0
        /\ used \in Nat /\ Rate!Used(Append(log[key], now), now) = used + 1
        /\ Rate!Counted(Append(log[key], now), w, now)
    BY <1>1, RateAssumption, Rate!UsedIsOnRecord, Rate!OneMoreCounted
  <1>3. CASE Limiter(r)!CheckUnlimited(key)
    <2>1. limit = 0 /\ UNCHANGED <<now, windows, log>>
      BY <1>1, <1>3, LimitOfRequest DEF Limiter!CheckUnlimited
    <2> QED BY <1>1, <2>1, RateKeptQuiet
  <1>4. ASSUME used + 1 <= limit, Limiter(r)!Admit(key, w)
        PROVE  RateInv' /\ Rate!Used(log'[key], now) <= limit
    <2>1. /\ now' = now /\ windows' = [windows EXCEPT ![key] = w]
          /\ log' = [log EXCEPT ![key] = Append(@, now)]
      BY <1>4 DEF Limiter!Admit
    <2> HIDE DEF key, limit, used, w
    <2>2. ASSUME NEW k \in Key PROVE Rate!Counted(log'[k], windows'[k], now)
      BY <1>1, <1>2, <2>1 DEF TypeOK, LogType, RateInv
    <2>3. RateInv'
      BY <2>1, <2>2 DEF RateInv, Rate!Counted, Rate!Within, Rate!WindowOf, Rate!Window
    <2>4. log'[key] = Append(log[key], now)
      BY <1>1, <2>1 DEF LogType
    <2> QED BY <1>2, <1>4, <2>3, <2>4
  <1>5. CASE Limiter(r)!CheckNewWindow(key)
    <2>1. /\ limit > 0 /\ windows[key].start # Rate!WindowOf(now)
          /\ Limiter(r)!Admit(key, [start |-> Rate!WindowOf(now), count |-> 1])
      BY <1>1, <1>5, LimitOfRequest, SameWindows DEF Limiter!CheckNewWindow
    <2>2. used = 0
      BY <1>2, <2>1
    <2>3. w = [start |-> Rate!WindowOf(now), count |-> 1]
      BY <2>2
    <2>4. used + 1 <= limit
      BY <1>1, <2>1, <2>2
    <2>5. Limiter(r)!Admit(key, w)
      BY <2>1, <2>3
    <2> QED BY <1>4, <2>4, <2>5
  <1>6. CASE Limiter(r)!CheckCounted(key)
    <2>1. /\ windows[key].start = Rate!WindowOf(now) /\ windows[key].count < limit
          /\ Limiter(r)!Admit(key, [windows[key] EXCEPT !.count = @ + 1])
      BY <1>1, <1>6, LimitOfRequest, SameWindows DEF Limiter!CheckCounted
    <2>2. used = windows[key].count
      BY <1>2, <2>1
    <2>3. [windows[key] EXCEPT !.count = @ + 1] = w
      BY <1>1, <2>1, <2>2
    <2>4. used + 1 <= limit
      BY <1>1, <1>2, <2>1, <2>2
    <2>5. Limiter(r)!Admit(key, w)
      BY <2>1, <2>3
    <2> QED BY <1>4, <2>4, <2>5
  <1> QED BY <1>3, <1>4, <1>5, <1>6 DEF LimiterAdmits

LEMMA RateOfRefused ==
  ASSUME TypeOK, LogType, RateInv, NEW r \in Req, Limiter(r)!CheckRefuse(KeyOf[r])
  PROVE  /\ RateInv'
         /\ Effective(r, "requests_per_minute") > 0
         /\ Rate!Used(log[KeyOf[r]], now) >= Effective(r, "requests_per_minute")
  <1> DEFINE key == KeyOf[r]
             limit == Effective(r, "requests_per_minute")
             used == Rate!Used(log[key], now)
  <1>1. /\ key \in Key /\ limit \in Nat /\ now \in Nat
        /\ log[key] \in Seq(Nat) /\ windows[key] \in [start : Int, count : Nat]
        /\ Rate!Counted(log[key], windows[key], now)
    BY UsageAssumption, EffectiveType DEF TypeOK, LogType, Fields, RateInv
  <1>2. used = IF windows[key].start = Rate!WindowOf(now) THEN windows[key].count ELSE 0
    BY <1>1, RateAssumption, Rate!UsedIsOnRecord
  <1>3. /\ limit > 0 /\ UNCHANGED <<now, windows, log>>
        /\ windows[key].start = Rate!WindowOf(now) /\ windows[key].count >= limit
    BY <1>1, LimitOfRequest, SameWindows DEF Limiter!CheckRefuse
  <1>4. RateInv'
    BY <1>3, RateKeptQuiet
  <1> QED BY <1>2, <1>3, <1>4

LEMMA StepRateInv == IndInv /\ RateInv /\ [Next]_vars => RateInv'
  <1> SUFFICES ASSUME IndInv, RateInv, [Next]_vars PROVE RateInv'
    OBVIOUS
  <1>1. /\ TypeOK /\ LogType /\ now \in Nat
        /\ \A k \in Key : windows[k] \in [start : Int, count : Nat]
    BY DEF IndInv, TypeOK
  <1>2. ASSUME NEW r \in Req, PrecheckOverQuota(r) \/ PrecheckPass(r) PROVE RateInv'
    BY <1>1, <1>2, RateOfAdmitted DEF PrecheckOverQuota, PrecheckPass
  <1>3. ASSUME NEW r \in Req, PrecheckRateLimited(r) PROVE RateInv'
    BY <1>1, <1>3, RateOfRefused DEF PrecheckRateLimited
  <1>4. CASE Crash
    <2>1. \A k \in Key : Rate!Counted(<<>>, Rate!NoWindow, now)
      BY <1>1, RateAssumption, Rate!NoneCounted
    <2>2. /\ now' = now
          /\ \A k \in Key : log'[k] = <<>> /\ windows'[k] = Rate!NoWindow
      BY <1>4 DEF Crash, Rate!NoWindow
    <2> QED BY <2>1, <2>2 DEF RateInv, Rate!Counted, Rate!Within, Rate!WindowOf, Rate!Window
  <1>5. CASE Tick
    <2>1. \A k \in Key : Rate!Counted(log[k], windows[k], now + 1)
      BY <1>1, RateAssumption, Rate!CountedLater DEF RateInv
    <2>2. now' = now + 1 /\ log' = log /\ windows' = windows
      BY <1>5 DEF Tick
    <2> QED BY <2>1, <2>2 DEF RateInv, Rate!Counted, Rate!Within, Rate!WindowOf, Rate!Window
  <1>6. ASSUME UNCHANGED limiterVars PROVE RateInv'
    BY <1>6, RateKeptQuiet DEF limiterVars
  <1> QED BY <1>2, <1>3, <1>4, <1>5, <1>6
          DEF Next, Precheck, Authenticate, RouteFail, Begin, End, EndUnrecorded, PutPolicy,
              NextDay, vars

LEMMA RateInvHolds == Spec => []RateInv
  <1>1. Init => RateInv
    <2> SUFFICES ASSUME Init PROVE RateInv
      OBVIOUS
    <2>1. /\ now \in Nat
          /\ \A k \in Key : log[k] = <<>> /\ windows[k] = Rate!NoWindow
      BY DEF Init, Rate!NoWindow
    <2>2. Rate!Counted(<<>>, Rate!NoWindow, now)
      BY <2>1, RateAssumption, Rate!NoneCounted
    <2> QED BY <2>1, <2>2 DEF RateInv
  <1> QED BY <1>1, IndInvHolds, StepRateInv, PTL DEF Spec

(* The limit a request is held to is its own: who gets past the limiter is *)
(* within it, and who is refused for it found as many in its window, all   *)
(* requests of its key counted, whatever their limits were.                *)
HeldToOwnLimit(r) ==
  LET k == KeyOf[r]
      limit == Effective(r, "requests_per_minute")
  IN  IF answer'[r] = "rate_limit_exceeded"
      THEN limit > 0 /\ Rate!Used(log[k], now) >= limit
      ELSE limit > 0 => Rate!Used(log'[k], now) <= limit

RateKept ==
  [][\A r \in Req :
       stage[r] = "authenticated" /\ stage'[r] \in {"routing", "over"} =>
         HeldToOwnLimit(r)]_vars

(* The limiter keeps its word inside the precheck, where each request      *)
(* brings the limits of the policy it has read, and through crashes.       *)
THEOREM RateIsKept == Spec => RateKept
  <1>1. ASSUME IndInv, RateInv, Next, NEW r \in Req,
               stage[r] = "authenticated", stage'[r] \in {"routing", "over"}
        PROVE  HeldToOwnLimit(r)
    <2>1. TypeOK /\ LogType /\ Endings
      BY <1>1 DEF IndInv
    <2>2. PrecheckRateLimited(r) \/ PrecheckOverQuota(r) \/ PrecheckPass(r)
      <3>1. ASSUME NEW q \in Req, Precheck(q) PROVE q = r
        BY <1>1, <2>1, <3>1 DEF Precheck, PrecheckRateLimited, PrecheckOverQuota,
                               PrecheckPass, Refuse, TypeOK
      <3>2. ASSUME NEW q \in Req,
                   Authenticate(q) \/ RouteFail(q) \/ Begin(q) \/ End(q) \/ EndUnrecorded(q)
            PROVE  FALSE
        BY <1>1, <2>1, <3>2 DEF Authenticate, RouteFail, Begin, End, EndUnrecorded, TypeOK
      <3>3. ~(Crash \/ Tick \/ NextDay \/ \E c \in Client : PutPolicy(c))
        BY <1>1, <2>1 DEF Crash, Tick, NextDay, PutPolicy, TypeOK
      <3> QED BY <1>1, <3>1, <3>2, <3>3 DEF Next, Precheck
    <2>3. CASE PrecheckRateLimited(r)
      <3>1. answer'[r] = "rate_limit_exceeded" /\ Limiter(r)!CheckRefuse(KeyOf[r])
        BY <1>1, <2>1, <2>3 DEF PrecheckRateLimited, Refuse, TypeOK
      <3> QED BY <1>1, <2>1, <3>1, RateOfRefused DEF HeldToOwnLimit
    <2>4. CASE PrecheckOverQuota(r) \/ PrecheckPass(r)
      <3>1. answer[r] = "none"
        BY <1>1, <2>1 DEF Endings
      <3>2. answer'[r] # "rate_limit_exceeded" /\ LimiterAdmits(r)
        BY <1>1, <2>1, <2>4, <3>1 DEF PrecheckOverQuota, PrecheckPass, Refuse, TypeOK
      <3> QED BY <1>1, <2>1, <3>2, RateOfAdmitted DEF HeldToOwnLimit
    <2> QED BY <2>2, <2>3, <2>4
  <1>2. IndInv /\ RateInv /\ [Next]_vars =>
          [\A r \in Req :
             stage[r] = "authenticated" /\ stage'[r] \in {"routing", "over"} =>
               HeldToOwnLimit(r)]_vars
    BY <1>1
  <1> QED BY <1>2, IndInvHolds, RateInvHolds, PTL DEF Spec, RateKept
=============================================================================
