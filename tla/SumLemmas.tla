------------------------------ MODULE SumLemmas ------------------------------
(***************************************************************************)
(* Sums over finite sets.  SumFunctionOnSet of the community modules picks *)
(* the terms one after the other, in an order of its own; the lemmas at    *)
(* the end say that the order makes no difference.  They rest on induction *)
(* over the subsets of a finite set, with the set of those that have a     *)
(* property in place of the property (AllSubsets).                         *)
(***************************************************************************)
EXTENDS Integers, FiniteSets, Functions, FiniteSetTheorems, WellFoundedInduction, TLAPS

\* A set of numbers that has 0 and with each number the next has them all.
LEMMA AllNumbers ==
  ASSUME NEW X, 0 \in X, \A n \in Nat : n \in X => n + 1 \in X
  PROVE  Nat \subseteq X
<1>1. SUFFICES ASSUME Nat \ X # {} PROVE FALSE
  OBVIOUS
<1>2. PICK n \in Nat \ X : \A m \in Nat \ X : ~(<<m, n>> \in OpToRel(<, Nat))
  BY <1>1, NatLessThanWellFounded, WFMin
<1>3. \A m \in Nat : m < n => m \in X
  BY <1>2 DEF OpToRel
<1>4. n \in Nat /\ n \notin X
  BY <1>2
<1>5. n # 0
  BY <1>4
<1>6. n - 1 \in Nat /\ n - 1 < n /\ (n - 1) + 1 = n
  BY <1>4, <1>5
<1>7. n - 1 \in X
  BY <1>3, <1>6
<1> QED
  BY <1>4, <1>6, <1>7

\* The element a sum takes first.
Chosen(T) == CHOOSE x \in T : TRUE

\* g has the sum of f over each subset of S.
IsTable(f, S, g) ==
  g = [T \in SUBSET S |-> IF T = {} THEN 0 ELSE f[Chosen(T)] + g[T \ {Chosen(T)}]]

Table(f, S) == CHOOSE g : IsTable(f, S, g)

Small(S, n) == {T \in SUBSET S : Cardinality(T) <= n}

LEMMA SumByTable == \A f, S : SumFunctionOnSet(f, S) = Table(f, S)[S]
  BY DEF SumFunctionOnSet, FoldFunctionOnSet, MapThenFoldSet, Table, IsTable, Chosen

LEMMA ChosenIn == \A T : T # {} => Chosen(T) \in T
  BY DEF Chosen

LEMMA Less ==
  ASSUME NEW S, IsFiniteSet(S), NEW T \in SUBSET S, NEW x \in T
  PROVE  /\ IsFiniteSet(T) /\ T \ {x} \in SUBSET S /\ IsFiniteSet(T \ {x})
         /\ Cardinality(T) \in Nat \ {0} /\ Cardinality(T \ {x}) = Cardinality(T) - 1
<1>1. IsFiniteSet(T)
  BY FS_Subset
<1>2. IsFiniteSet(T \ {x}) /\ Cardinality(T \ {x}) = Cardinality(T) - 1
  BY <1>1, FS_RemoveElement
<1>3. Cardinality(T) \in Nat /\ Cardinality(T) # 0
  BY <1>1, FS_CardinalityType, FS_EmptySet
<1> QED
  BY <1>1, <1>2, <1>3

\* Whatever holds of {} and, once it holds of the smaller ones, of each subset, holds of all.
LEMMA AllSubsets ==
  ASSUME NEW S, IsFiniteSet(S), NEW Y,
         \A T \in SUBSET S : (\A x \in T : T \ {x} \in Y) => T \in Y
  PROVE  SUBSET S \subseteq Y
<1> DEFINE X == {n \in Nat : \A T \in SUBSET S : Cardinality(T) = n => T \in Y}
<1>1. 0 \in X
  <2>1. ASSUME NEW T \in SUBSET S, Cardinality(T) = 0 PROVE T \in Y
    <3>1. T = {}
      BY <2>1, FS_Subset, FS_EmptySet
    <3> QED
      BY <2>1, <3>1
  <2> QED
    BY <2>1
<1>2. ASSUME NEW n \in Nat, n \in X PROVE n + 1 \in X
  <2>1. ASSUME NEW T \in SUBSET S, Cardinality(T) = n + 1 PROVE T \in Y
    <3>1. ASSUME NEW x \in T PROVE T \ {x} \in Y
      <4>1. T \ {x} \in SUBSET S /\ Cardinality(T \ {x}) = n
        BY <1>2, <2>1, Less
      <4> QED
        BY <1>2, <4>1
    <3> QED
      BY <2>1, <3>1
  <2> QED
    BY <1>2, <2>1
<1>3. Nat \subseteq X
  <2> HIDE DEF X
  <2> QED
    BY <1>1, <1>2, AllNumbers
<1>4. ASSUME NEW T \in SUBSET S PROVE T \in Y
  <2>1. Cardinality(T) \in Nat
    BY FS_Subset, FS_CardinalityType
  <2> QED
    BY <1>3, <2>1
<1> QED
  BY <1>4

\* There is a table: by the size of the subsets it has.
LEMMA TableExists ==
  ASSUME NEW S, IsFiniteSet(S), NEW f
  PROVE  \E g : IsTable(f, S, g)
<1> DEFINE
      Step(g, T) == IF T = {} THEN 0 ELSE f[Chosen(T)] + g[T \ {Chosen(T)}]
      Upto(g, n) == \A T \in Small(S, n) : g[T] = Step(g, T)
      X == {n \in Nat : \E g : Upto(g, n)}
<1>1. 0 \in X
  <2>1. ASSUME NEW T \in Small(S, 0) PROVE T = {}
    <3>1. T \in SUBSET S /\ IsFiniteSet(T) /\ Cardinality(T) <= 0
      BY <2>1, FS_Subset DEF Small
    <3>2. Cardinality(T) \in Nat
      BY <3>1, FS_CardinalityType
    <3>3. Cardinality(T) = 0
      BY <3>1, <3>2
    <3> QED
      BY <3>1, <3>3, FS_EmptySet
  <2> DEFINE g == [T \in SUBSET S |-> 0]
  <2>2. \A T \in Small(S, 0) : g[T] = 0 /\ T = {}
    BY <2>1 DEF Small
  <2>3. Upto(g, 0)
    BY <2>2
  <2> QED
    BY <2>3
<1>2. ASSUME NEW n \in Nat, n \in X PROVE n + 1 \in X
  <2>1. PICK g : Upto(g, n)
    BY <1>2
  <2> DEFINE h == [T \in SUBSET S |-> Step(g, T)]
  <2>2. \A T \in Small(S, n) : h[T] = g[T]
    BY <2>1 DEF Small
  <2>3. ASSUME NEW T \in Small(S, n + 1), T # {} PROVE T \ {Chosen(T)} \in Small(S, n)
    <3>1. T \in SUBSET S /\ Cardinality(T) <= n + 1 /\ Chosen(T) \in T
      BY <2>3, ChosenIn DEF Small
    <3>2. /\ T \ {Chosen(T)} \in SUBSET S /\ Cardinality(T) \in Nat
          /\ Cardinality(T \ {Chosen(T)}) = Cardinality(T) - 1
      BY <3>1, Less
    <3> QED
      BY <1>2, <3>1, <3>2 DEF Small
  <2>4. ASSUME NEW T \in Small(S, n + 1) PROVE h[T] = Step(h, T)
    <3>1. T \in SUBSET S /\ h[T] = Step(g, T)
      BY <2>4 DEF Small
    <3> HIDE DEF h
    <3>2. T # {} => h[T \ {Chosen(T)}] = g[T \ {Chosen(T)}]
      BY <2>2, <2>3, <2>4
    <3> QED
      BY <3>1, <3>2
  <2>5. Upto(h, n + 1)
    BY <2>4
  <2> HIDE DEF h, Upto
  <2> QED
    BY <1>2, <2>5
<1>3. Nat \subseteq X
  <2> HIDE DEF X
  <2> QED
    BY <1>1, <1>2, AllNumbers
<1>4. Cardinality(S) \in Nat
  BY FS_CardinalityType
<1>5. PICK g : Upto(g, Cardinality(S))
  BY <1>3, <1>4
<1>6. ASSUME NEW T \in SUBSET S PROVE T \in Small(S, Cardinality(S))
  BY FS_Subset DEF Small
<1> DEFINE h == [T \in SUBSET S |-> g[T]]
<1>7. ASSUME NEW T \in SUBSET S PROVE h[T] = Step(h, T)
  <2>1. h[T] = Step(g, T)
    BY <1>5, <1>6
  <2>2. T \ {Chosen(T)} \in SUBSET S
    OBVIOUS
  <2> QED
    BY <2>1, <2>2
<1>8. h = [T \in SUBSET S |-> Step(h, T)]
  <2>1. h = [T \in SUBSET S |-> h[T]]
    OBVIOUS
  <2> HIDE DEF h
  <2> QED
    BY <1>7, <2>1
<1>9. IsTable(f, S, h)
  BY <1>8 DEF IsTable
<1> HIDE DEF h
<1> QED
  BY <1>9

LEMMA TableIs ==
  ASSUME NEW S, IsFiniteSet(S), NEW f
  PROVE  /\ Table(f, S)[{}] = 0
         /\ \A T \in SUBSET S : T # {} =>
              Table(f, S)[T] = f[Chosen(T)] + Table(f, S)[T \ {Chosen(T)}]
<1>1. \E g : IsTable(f, S, g)
  BY TableExists
<1>2. IsTable(f, S, Table(f, S))
  BY <1>1, Zenon DEF Table
<1> QED
  BY <1>2 DEF IsTable

LEMMA TableNat ==
  ASSUME NEW S, IsFiniteSet(S), NEW f, \A x \in S : f[x] \in Nat
  PROVE  \A T \in SUBSET S : Table(f, S)[T] \in Nat
<1> DEFINE Y == {T \in SUBSET S : Table(f, S)[T] \in Nat}
<1>1. ASSUME NEW T \in SUBSET S, \A x \in T : T \ {x} \in Y PROVE T \in Y
  <2>1. CASE T = {}
    BY <2>1, TableIs
  <2>2. CASE T # {}
    <3>1. Chosen(T) \in T
      BY <2>2, ChosenIn
    <3>2. Table(f, S)[T] = f[Chosen(T)] + Table(f, S)[T \ {Chosen(T)}]
      BY <2>2, TableIs
    <3>3. Table(f, S)[T \ {Chosen(T)}] \in Nat /\ f[Chosen(T)] \in Nat
      BY <1>1, <3>1
    <3> QED
      BY <3>2, <3>3
  <2> QED
    BY <2>1, <2>2
<1>2. SUBSET S \subseteq Y
  <2> HIDE DEF Y
  <2> QED
    BY <1>1, AllSubsets
<1> QED
  BY <1>2

\* The order makes no difference: any element may be taken first.
LEMMA AnyFirst ==
  ASSUME NEW S, IsFiniteSet(S), NEW f, \A x \in S : f[x] \in Nat
  PROVE  \A T \in SUBSET S : \A x \in T : Table(f, S)[T] = f[x] + Table(f, S)[T \ {x}]
<1> DEFINE Y == {T \in SUBSET S : \A x \in T : Table(f, S)[T] = f[x] + Table(f, S)[T \ {x}]}
<1>1. ASSUME NEW T \in SUBSET S, \A x \in T : T \ {x} \in Y PROVE T \in Y
  <2>1. SUFFICES ASSUME NEW x \in T PROVE Table(f, S)[T] = f[x] + Table(f, S)[T \ {x}]
    OBVIOUS
  <2>2. PICK y \in T : Table(f, S)[T] = f[y] + Table(f, S)[T \ {y}]
    <3>1. T # {} /\ Chosen(T) \in T
      BY <2>1, ChosenIn
    <3>2. Table(f, S)[T] = f[Chosen(T)] + Table(f, S)[T \ {Chosen(T)}]
      BY <3>1, TableIs
    <3> QED
      BY <3>1, <3>2
  <2>3. CASE x = y
    BY <2>2, <2>3
  <2>4. CASE x # y
    <3>1. /\ x \in T \ {y} /\ y \in T \ {x} /\ (T \ {y}) \ {x} = (T \ {x}) \ {y}
          /\ T \ {x} \in Y /\ T \ {y} \in Y
      BY <1>1, <2>4
    <3>2. /\ Table(f, S)[T \ {y}] = f[x] + Table(f, S)[(T \ {y}) \ {x}]
          /\ Table(f, S)[T \ {x}] = f[y] + Table(f, S)[(T \ {x}) \ {y}]
      BY <3>1
    <3>3. /\ f[x] \in Nat /\ f[y] \in Nat /\ Table(f, S)[(T \ {y}) \ {x}] \in Nat
          /\ Table(f, S)[(T \ {x}) \ {y}] = Table(f, S)[(T \ {y}) \ {x}]
      BY <3>1, TableNat
    <3> QED
      BY <2>2, <3>2, <3>3
  <2> QED
    BY <2>3, <2>4
<1>2. SUBSET S \subseteq Y
  <2> HIDE DEF Y
  <2> QED
    BY <1>1, AllSubsets
<1> QED
  BY <1>2

\* Nor does what else there is, or what f is elsewhere.
LEMMA TablesAgree ==
  ASSUME NEW S, IsFiniteSet(S), NEW R \in SUBSET S, NEW f, NEW g, \A x \in R : f[x] = g[x]
  PROVE  \A T \in SUBSET R : Table(f, S)[T] = Table(g, R)[T]
<1> DEFINE Y == {T \in SUBSET R : Table(f, S)[T] = Table(g, R)[T]}
<1>0. IsFiniteSet(R)
  BY FS_Subset
<1>1. ASSUME NEW T \in SUBSET R, \A x \in T : T \ {x} \in Y PROVE T \in Y
  <2>1. CASE T = {}
    BY <1>0, <2>1, TableIs
  <2>2. CASE T # {}
    <3>1. Chosen(T) \in T
      BY <2>2, ChosenIn
    <3>2. Table(f, S)[T] = f[Chosen(T)] + Table(f, S)[T \ {Chosen(T)}]
      BY <2>2, TableIs
    <3>3. Table(g, R)[T] = g[Chosen(T)] + Table(g, R)[T \ {Chosen(T)}]
      BY <1>0, <2>2, TableIs
    <3>4. Table(f, S)[T \ {Chosen(T)}] = Table(g, R)[T \ {Chosen(T)}]
      BY <1>1, <3>1
    <3>5. f[Chosen(T)] = g[Chosen(T)]
      BY <3>1
    <3> QED
      BY <3>2, <3>3, <3>4, <3>5
  <2> QED
    BY <2>1, <2>2
<1>2. SUBSET R \subseteq Y
  <2> HIDE DEF Y
  <2> QED
    BY <1>0, <1>1, AllSubsets
<1> QED
  BY <1>2

(***************************************************************************)
(* What a sum is: nothing over nothing, a number over numbers, the same    *)
(* over equal terms, and one term more with one element more.              *)
(***************************************************************************)
LEMMA SumEmpty == \A f : SumFunctionOnSet(f, {}) = 0
  BY SumByTable, TableIs, FS_EmptySet

LEMMA SumNat ==
  ASSUME NEW S, IsFiniteSet(S), NEW f, \A x \in S : f[x] \in Nat
  PROVE  SumFunctionOnSet(f, S) \in Nat
  BY SumByTable, TableNat

LEMMA SumSame ==
  ASSUME NEW S, IsFiniteSet(S), NEW f, NEW g, \A x \in S : f[x] = g[x]
  PROVE  SumFunctionOnSet(f, S) = SumFunctionOnSet(g, S)
  BY SumByTable, TablesAgree

LEMMA SumMore ==
  ASSUME NEW S, IsFiniteSet(S), NEW f, \A y \in S : f[y] \in Nat, NEW x \in S
  PROVE  SumFunctionOnSet(f, S) = f[x] + SumFunctionOnSet(f, S \ {x})
<1>1. S \ {x} \in SUBSET S /\ S \in SUBSET S
  OBVIOUS
<1>2. Table(f, S)[S] = f[x] + Table(f, S)[S \ {x}]
  BY <1>1, AnyFirst
<1>3. Table(f, S)[S \ {x}] = Table(f, S \ {x})[S \ {x}]
  BY <1>1, TablesAgree
<1> QED
  BY <1>2, <1>3, SumByTable

\* Two sets that share nothing are summed apart.
LEMMA SumUnion ==
  ASSUME NEW A, NEW B, IsFiniteSet(A), IsFiniteSet(B), A \cap B = {},
         NEW f, \A x \in A \cup B : f[x] \in Nat
  PROVE  SumFunctionOnSet(f, A \cup B) = SumFunctionOnSet(f, A) + SumFunctionOnSet(f, B)
<1> DEFINE Y == {T \in SUBSET B :
                   SumFunctionOnSet(f, A \cup T) = SumFunctionOnSet(f, A) + SumFunctionOnSet(f, T)}
<1>1. ASSUME NEW T \in SUBSET B, \A x \in T : T \ {x} \in Y PROVE T \in Y
  <2>1. IsFiniteSet(T) /\ IsFiniteSet(A \cup T)
    BY FS_Subset, FS_Union
  <2>2. SumFunctionOnSet(f, A) \in Nat
    BY SumNat
  <2>3. CASE T = {}
    <3>1. A \cup T = A /\ SumFunctionOnSet(f, T) = 0
      BY <2>3, SumEmpty
    <3> QED
      BY <2>2, <3>1
  <2>4. CASE T # {}
    <3>1. PICK x \in T : TRUE
      BY <2>4
    <3>2. x \in A \cup T /\ (A \cup T) \ {x} = A \cup (T \ {x}) /\ f[x] \in Nat
      BY <3>1
    <3>3. SumFunctionOnSet(f, A \cup T) = f[x] + SumFunctionOnSet(f, A \cup (T \ {x}))
      BY <2>1, <3>2, SumMore
    <3>4. SumFunctionOnSet(f, T) = f[x] + SumFunctionOnSet(f, T \ {x})
      BY <2>1, <3>1, SumMore
    <3>5. SumFunctionOnSet(f, A \cup (T \ {x}))
            = SumFunctionOnSet(f, A) + SumFunctionOnSet(f, T \ {x})
      BY <1>1, <3>1
    <3>6. IsFiniteSet(T \ {x}) /\ \A y \in T \ {x} : f[y] \in Nat
      BY <2>1, FS_Subset
    <3>7. SumFunctionOnSet(f, T \ {x}) \in Nat
      BY <3>6, SumNat
    <3> QED
      BY <2>2, <3>2, <3>3, <3>4, <3>5, <3>7
  <2> QED
    BY <2>3, <2>4
<1>2. SUBSET B \subseteq Y
  <2> HIDE DEF Y
  <2> QED
    BY <1>1, AllSubsets
<1> QED
  BY <1>2
=============================================================================
