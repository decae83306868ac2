------------------------------ MODULE SumTheorems ------------------------------
(***************************************************************************)
(* What the proofs need to know of sums over finite sets, in the form of   *)
(* SumFunctionOnSet of module Functions: the ledger and the tariff are     *)
(* stated with it.                                                         *)
(*                                                                         *)
(* A sum is a fold, whose recursive definition has to be justified first:  *)
(* the values exist for sets of up to n elements, for every n, and are     *)
(* determined by the summands.  Induction is over sets of sets instead of  *)
(* predicates: a collection of subsets that holds the empty one, and each  *)
(* other one with its predecessors, holds them all.                        *)
(***************************************************************************)
EXTENDS Functions, FiniteSetTheorems, TLAPS

--------------------------------------------------------------------------------
(* Induction. *)

(* A set of naturals has a least element. *)
LEMMA LeastNatural ==
  ASSUME NEW T \in SUBSET Nat, T # {}
  PROVE  \E m \in T : \A k \in T : m <= k
<1> DEFINE R == OpToRel(<, Nat)
<1>1. IsWellFoundedOn(R, Nat)
  BY NatLessThanWellFounded
<1>2. \E x \in T : \A y \in T : ~(<<y, x>> \in R)
  <2> HIDE DEF R
  <2> QED
    BY <1>1, WFMin
<1>3. \A x, y \in Nat : <<y, x>> \in R <=> y < x
  BY DEF OpToRel
<1> HIDE DEF R
<1>4. PICK m \in T : \A k \in T : ~(<<k, m>> \in R)
  BY <1>2
<1>5. ASSUME NEW k \in T PROVE m <= k
  <2>1. ~(<<k, m>> \in R)
    BY <1>4
  <2>2. k \in Nat /\ m \in Nat
    OBVIOUS
  <2>3. ~(k < m)
    BY <1>3, <2>1, <2>2
  <2> QED
    BY <2>2, <2>3
<1> QED
  BY <1>5

LEMMA NaturalsAreReached ==
  ASSUME NEW G \in SUBSET Nat, 0 \in G, \A n \in G : n + 1 \in G
  PROVE  G = Nat
<1> DEFINE T == Nat \ G
<1>1. SUFFICES ASSUME T # {} PROVE FALSE
  OBVIOUS
<1>2. PICK m \in T : \A k \in T : m <= k
  BY <1>1, LeastNatural
<1>3. m - 1 \in Nat /\ m - 1 \notin T
  BY <1>2, SMT
<1> QED
  BY <1>2, <1>3

(* A finite set is reached from the empty one, element by element. *)
LEMMA FiniteSetIsReached ==
  ASSUME NEW S, IsFiniteSet(S), NEW G \in SUBSET (SUBSET S),
         \A T \in SUBSET S : (\A x \in T : T \ {x} \in G) => T \in G
  PROVE  S \in G
<1> DEFINE N == {n \in Nat : \A T \in SUBSET S : Cardinality(T) = n => T \in G}
<1>1. \A T \in SUBSET S : IsFiniteSet(T) /\ Cardinality(T) \in Nat
  BY FS_Subset, FS_CardinalityType
<1>2. 0 \in N
  BY <1>1, FS_EmptySet
<1>3. ASSUME NEW n \in N PROVE n + 1 \in N
  <2> SUFFICES ASSUME NEW T \in SUBSET S, Cardinality(T) = n + 1 PROVE T \in G
    OBVIOUS
  <2>1. ASSUME NEW x \in T PROVE T \ {x} \in G
    <3>1. IsFiniteSet(T) /\ n \in Nat
      BY <1>1
    <3>2. Cardinality(T \ {x}) = Cardinality(T) - 1
      BY <3>1, FS_RemoveElement
    <3> QED
      BY <3>1, <3>2
  <2> QED
    BY <2>1
<1> HIDE DEF N
<1>4. N = Nat
  <2>1. N \in SUBSET Nat
    BY DEF N
  <2> QED
    BY <1>2, <1>3, <2>1, NaturalsAreReached
<1>5. Cardinality(S) \in N
  BY <1>1, <1>4
<1> QED
  BY <1>5 DEF N

--------------------------------------------------------------------------------
(* The recursive definition of a sum. *)

Chosen(s) == CHOOSE x \in s : TRUE

(* g sums f over each of the sets in D. *)
SumsOver(g, f, D) ==
  g = [s \in D |-> IF s = {} THEN 0 ELSE f[Chosen(s)] + g[s \ {Chosen(s)}]]

LEMMA ChosenIn ==
  ASSUME NEW s, s # {}
  PROVE  Chosen(s) \in s
BY DEF Chosen

LEMMA SumIsSummed ==
  ASSUME NEW f, NEW S
  PROVE  SumFunctionOnSet(f, S) = (CHOOSE g : SumsOver(g, f, SUBSET S))[S]
BY DEF SumFunctionOnSet, FoldFunctionOnSet, MapThenFoldSet, SumsOver, Chosen

LEMMA SumsExist ==
  ASSUME NEW f, NEW S, IsFiniteSet(S)
  PROVE  \E g : SumsOver(g, f, SUBSET S)
<1> DEFINE D(n) == {s \in SUBSET S : Cardinality(s) <= n}
           N == {n \in Nat : \E g : SumsOver(g, f, D(n))}
<1>1. \A s \in SUBSET S : IsFiniteSet(s) /\ Cardinality(s) \in Nat
  BY FS_Subset, FS_CardinalityType
<1>2. 0 \in N
  <2> DEFINE g == [s \in D(0) |-> 0]
  <2>1. \A s \in D(0) : s = {}
    BY <1>1, FS_EmptySet
  <2>2. g = [s \in D(0) |-> IF s = {} THEN 0 ELSE f[Chosen(s)] + g[s \ {Chosen(s)}]]
    BY <2>1
  <2> QED
    BY <2>2 DEF SumsOver
<1>3. ASSUME NEW n \in N PROVE n + 1 \in N
  <2>1. PICK g : SumsOver(g, f, D(n))
    OBVIOUS
  <2> DEFINE h == [s \in D(n + 1) |-> IF s = {} THEN 0 ELSE f[Chosen(s)] + g[s \ {Chosen(s)}]]
  <2>2. ASSUME NEW s \in D(n + 1), s # {}
        PROVE  s \ {Chosen(s)} \in D(n)
    <3>1. Chosen(s) \in s /\ IsFiniteSet(s)
      BY <1>1, <2>2, ChosenIn
    <3>2. Cardinality(s \ {Chosen(s)}) = Cardinality(s) - 1
      BY <3>1, FS_RemoveElement
    <3> QED
      BY <1>1, <3>2
  <2>3. \A s \in D(n) : s \in D(n + 1)
    BY <1>1
  <2>4. \A s \in D(n) : g[s] = IF s = {} THEN 0 ELSE f[Chosen(s)] + g[s \ {Chosen(s)}]
    BY <2>1 DEF SumsOver
  <2>5. \A s \in D(n) : h[s] = g[s]
    BY <2>3, <2>4
  <2> HIDE DEF D
  <2>6. h = [s \in D(n + 1) |-> IF s = {} THEN 0 ELSE f[Chosen(s)] + h[s \ {Chosen(s)}]]
    BY <2>2, <2>5
  <2>7. SumsOver(h, f, D(n + 1))
    BY <2>6 DEF SumsOver
  <2> QED
    BY <2>7
<1> HIDE DEF N
<1>4. Cardinality(S) \in N
  <2>1. N \in SUBSET Nat
    BY DEF N
  <2>2. N = Nat
    BY <1>2, <1>3, <2>1, NaturalsAreReached
  <2> QED
    BY <1>1, <2>2
<1>5. D(Cardinality(S)) = SUBSET S
  BY FS_Subset
<1> QED
  BY <1>4, <1>5 DEF N

(* There is one such function, whatever sets it sums over besides. *)
LEMMA SumsUnique ==
  ASSUME NEW S, IsFiniteSet(S), NEW f, NEW A, S \subseteq A,
         NEW g, SumsOver(g, f, SUBSET A), NEW k, SumsOver(k, f, SUBSET S)
  PROVE  g[S] = k[S]
<1> DEFINE G == {T \in SUBSET S : g[T] = k[T]}
<1>1. ASSUME NEW T \in SUBSET S, \A x \in T : T \ {x} \in G
      PROVE  T \in G
  <2>1. /\ g[T] = IF T = {} THEN 0 ELSE f[Chosen(T)] + g[T \ {Chosen(T)}]
        /\ k[T] = IF T = {} THEN 0 ELSE f[Chosen(T)] + k[T \ {Chosen(T)}]
    BY DEF SumsOver
  <2>2. CASE T = {}
    BY <2>1, <2>2
  <2>3. CASE T # {}
    <3>1. Chosen(T) \in T
      BY <2>3, ChosenIn
    <3>2. g[T \ {Chosen(T)}] = k[T \ {Chosen(T)}]
      BY <1>1, <3>1
    <3> QED
      BY <2>1, <2>3, <3>2
  <2> QED
    BY <2>2, <2>3
<1> HIDE DEF G
<1>2. S \in G
  <2>1. G \in SUBSET (SUBSET S)
    BY DEF G
  <2> QED
    BY <1>1, <2>1, FiniteSetIsReached
<1> QED
  BY <1>2 DEF G

LEMMA SumChosen ==
  ASSUME NEW f, NEW S, IsFiniteSet(S)
  PROVE  SumFunctionOnSet(f, S) =
           IF S = {} THEN 0 ELSE f[Chosen(S)] + SumFunctionOnSet(f, S \ {Chosen(S)})
<1> DEFINE g == CHOOSE g : SumsOver(g, f, SUBSET S)
           R == S \ {Chosen(S)}
           k == CHOOSE k : SumsOver(k, f, SUBSET R)
<1>1. IsFiniteSet(R)
  BY FS_RemoveElement
<1>2. SumsOver(g, f, SUBSET S)
  BY SumsExist
<1>3. SumsOver(k, f, SUBSET R)
  BY <1>1, SumsExist
<1>4. SumFunctionOnSet(f, S) = g[S] /\ SumFunctionOnSet(f, R) = k[R]
  BY SumIsSummed
<1> HIDE DEF g, k
<1>5. g[R] = k[R]
  <2>1. R \subseteq S
    OBVIOUS
  <2> HIDE DEF R
  <2> QED
    BY <1>1, <1>2, <1>3, <2>1, SumsUnique
<1>6. g[S] = IF S = {} THEN 0 ELSE f[Chosen(S)] + g[R]
  BY <1>2 DEF SumsOver
<1> QED
  BY <1>4, <1>5, <1>6

--------------------------------------------------------------------------------
(* What the proofs use. *)

(* Functions that agree on a set have one sum over it. *)
LEMMA SumSame ==
  ASSUME NEW S, IsFiniteSet(S), NEW f, NEW h, \A x \in S : f[x] = h[x]
  PROVE  SumFunctionOnSet(f, S) = SumFunctionOnSet(h, S)
<1> DEFINE g == CHOOSE g : SumsOver(g, f, SUBSET S)
           k == CHOOSE k : SumsOver(k, h, SUBSET S)
<1>1. SumsOver(g, f, SUBSET S) /\ SumsOver(k, h, SUBSET S)
  BY SumsExist
<1>2. SumFunctionOnSet(f, S) = g[S] /\ SumFunctionOnSet(h, S) = k[S]
  BY SumIsSummed
<1> HIDE DEF g, k
<1>3. SumsOver(g, h, SUBSET S)
  <2>1. \A s \in SUBSET S : s # {} => f[Chosen(s)] = h[Chosen(s)]
    BY ChosenIn
  <2> QED
    BY <1>1, <2>1 DEF SumsOver
<1>4. g[S] = k[S]
  <2>1. S \subseteq S
    OBVIOUS
  <2> QED
    BY <1>1, <1>3, <2>1, SumsUnique
<1> QED
  BY <1>2, <1>4

LEMMA SumEmpty == \A f : SumFunctionOnSet(f, {}) = 0
BY SumChosen, FS_EmptySet

LEMMA SumInt ==
  ASSUME NEW S, IsFiniteSet(S), NEW f, \A x \in S : f[x] \in Int
  PROVE  SumFunctionOnSet(f, S) \in Int
<1> DEFINE G == {T \in SUBSET S : SumFunctionOnSet(f, T) \in Int}
<1>1. ASSUME NEW T \in SUBSET S, \A x \in T : T \ {x} \in G
      PROVE  T \in G
  <2>1. IsFiniteSet(T)
    BY FS_Subset
  <2>2. CASE T = {}
    BY <2>2, SumEmpty
  <2>3. CASE T # {}
    <3>1. Chosen(T) \in T
      BY <2>3, ChosenIn
    <3>2. SumFunctionOnSet(f, T) = f[Chosen(T)] + SumFunctionOnSet(f, T \ {Chosen(T)})
      BY <2>1, <2>3, SumChosen
    <3> QED
      BY <1>1, <3>1, <3>2
  <2> QED
    BY <2>2, <2>3
<1> HIDE DEF G
<1>2. S \in G
  <2>1. G \in SUBSET (SUBSET S)
    BY DEF G
  <2> QED
    BY <1>1, <2>1, FiniteSetIsReached
<1> QED
  BY <1>2 DEF G

(* Any element may be taken out, not only the one the fold chooses. *)
LEMMA SumRemove ==
  ASSUME NEW S, IsFiniteSet(S), NEW f, \A x \in S : f[x] \in Int, NEW x \in S
  PROVE  SumFunctionOnSet(f, S) = f[x] + SumFunctionOnSet(f, S \ {x})
<1> DEFINE sum(T) == SumFunctionOnSet(f, T)
           G == {T \in SUBSET S : \A y \in T : sum(T) = f[y] + sum(T \ {y})}
<1>1. ASSUME NEW T \in SUBSET S, \A y \in T : T \ {y} \in G
      PROVE  T \in G
  <2> SUFFICES ASSUME NEW y \in T PROVE sum(T) = f[y] + sum(T \ {y})
    OBVIOUS
  <2> DEFINE c == Chosen(T)
             R == (T \ {c}) \ {y}
  <2>1. IsFiniteSet(T) /\ IsFiniteSet(R)
    BY FS_Subset
  <2>2. c \in T
    BY ChosenIn
  <2> HIDE DEF c
  <2>3. sum(T) = f[c] + sum(T \ {c})
    BY <2>1, SumChosen DEF c
  <2>4. CASE c = y
    BY <2>3, <2>4
  <2>5. CASE c # y
    <3>1. T \ {c} \in G /\ T \ {y} \in G
      BY <1>1, <2>2
    <3>2. sum(T \ {c}) = f[y] + sum(R)
      BY <2>5, <3>1
    <3>3. (T \ {y}) \ {c} = R
      OBVIOUS
    <3>4. sum(T \ {y}) = f[c] + sum(R)
      BY <2>2, <2>5, <3>1, <3>3
    <3>5. f[c] \in Int /\ f[y] \in Int
      BY <2>2
    <3>6. sum(R) \in Int
      BY <2>1, SumInt
    <3> HIDE DEF sum, R
    <3> QED
      BY <2>3, <3>2, <3>4, <3>5, <3>6
  <2> QED
    BY <2>4, <2>5
<1> HIDE DEF G
<1>2. S \in G
  <2>1. G \in SUBSET (SUBSET S)
    BY DEF G
  <2> QED
    BY <1>1, <2>1, FiniteSetIsReached
<1> QED
  BY <1>2 DEF G

(* One summand more. *)
LEMMA SumAdd ==
  ASSUME NEW S, IsFiniteSet(S), NEW x, x \notin S, NEW f, \A y \in S \cup {x} : f[y] \in Int
  PROVE  SumFunctionOnSet(f, S \cup {x}) = SumFunctionOnSet(f, S) + f[x]
<1>1. IsFiniteSet(S \cup {x}) /\ (S \cup {x}) \ {x} = S
  BY FS_AddElement
<1>2. SumFunctionOnSet(f, S \cup {x}) = f[x] + SumFunctionOnSet(f, (S \cup {x}) \ {x})
  BY <1>1, SumRemove
<1>3. SumFunctionOnSet(f, S) \in Int /\ f[x] \in Int
  BY SumInt
<1>4. SumFunctionOnSet(f, S \cup {x}) = f[x] + SumFunctionOnSet(f, S)
  BY <1>1, <1>2
<1> QED
  BY <1>3, <1>4

(* A sum of what is not negative is not negative. *)
LEMMA SumNat ==
  ASSUME NEW S, IsFiniteSet(S), NEW f, \A x \in S : f[x] \in Nat
  PROVE  SumFunctionOnSet(f, S) \in Nat
<1> DEFINE G == {T \in SUBSET S : SumFunctionOnSet(f, T) \in Nat}
<1>1. ASSUME NEW T \in SUBSET S, \A x \in T : T \ {x} \in G
      PROVE  T \in G
  <2>1. IsFiniteSet(T)
    BY FS_Subset
  <2>2. CASE T = {}
    BY <2>2, SumEmpty
  <2>3. CASE T # {}
    <3>1. Chosen(T) \in T
      BY <2>3, ChosenIn
    <3>2. SumFunctionOnSet(f, T) = f[Chosen(T)] + SumFunctionOnSet(f, T \ {Chosen(T)})
      BY <2>1, <2>3, SumChosen
    <3> QED
      BY <1>1, <3>1, <3>2
  <2> QED
    BY <2>2, <2>3
<1> HIDE DEF G
<1>2. S \in G
  <2>1. G \in SUBSET (SUBSET S)
    BY DEF G
  <2> QED
    BY <1>1, <2>1, FiniteSetIsReached
<1> QED
  BY <1>2 DEF G

(* A sum of lesser summands is no greater ... *)
LEMMA SumAtMost ==
  ASSUME NEW S, IsFiniteSet(S), NEW f, NEW h,
         \A x \in S : f[x] \in Int /\ h[x] \in Int /\ f[x] <= h[x]
  PROVE  SumFunctionOnSet(f, S) <= SumFunctionOnSet(h, S)
<1> DEFINE a(T) == SumFunctionOnSet(f, T)
           b(T) == SumFunctionOnSet(h, T)
           G == {T \in SUBSET S : a(T) <= b(T)}
<1>1. ASSUME NEW T \in SUBSET S, \A x \in T : T \ {x} \in G
      PROVE  T \in G
  <2>1. IsFiniteSet(T) /\ \A x \in T : IsFiniteSet(T \ {x})
    BY FS_Subset, FS_RemoveElement
  <2>2. CASE T = {}
    BY <2>2, SumEmpty
  <2>3. CASE T # {}
    <3>1. PICK x \in T : TRUE
      BY <2>3
    <3>2. a(T) = f[x] + a(T \ {x}) /\ b(T) = h[x] + b(T \ {x})
      BY <2>1, SumRemove
    <3>3. a(T \ {x}) \in Int /\ b(T \ {x}) \in Int
      <4>1. \A y \in T \ {x} : f[y] \in Int /\ h[y] \in Int
        OBVIOUS
      <4> QED
        BY <2>1, <4>1, SumInt
    <3>4. a(T \ {x}) <= b(T \ {x})
      BY <1>1
    <3>5. f[x] \in Int /\ h[x] \in Int /\ f[x] <= h[x]
      OBVIOUS
    <3> HIDE DEF a, b
    <3>6. a(T) <= b(T)
      BY <3>2, <3>3, <3>4, <3>5
    <3> QED
      BY <3>6
  <2> QED
    BY <2>2, <2>3
<1>2. G \in SUBSET (SUBSET S)
  OBVIOUS
<1> HIDE DEF G
<1>3. S \in G
  BY <1>1, <1>2, FiniteSetIsReached
<1> QED
  BY <1>3 DEF G

(* ... and less if one of them is. *)
LEMMA SumBelow ==
  ASSUME NEW S, IsFiniteSet(S), NEW f, NEW h,
         \A x \in S : f[x] \in Int /\ h[x] \in Int /\ f[x] <= h[x],
         NEW x \in S, f[x] < h[x]
  PROVE  SumFunctionOnSet(f, S) < SumFunctionOnSet(h, S)
<1>1. IsFiniteSet(S \ {x}) /\ \A y \in S \ {x} : f[y] \in Int /\ h[y] \in Int /\ f[y] <= h[y]
  BY FS_RemoveElement
<1>2. /\ SumFunctionOnSet(f, S) = f[x] + SumFunctionOnSet(f, S \ {x})
      /\ SumFunctionOnSet(h, S) = h[x] + SumFunctionOnSet(h, S \ {x})
  BY SumRemove
<1>3. SumFunctionOnSet(f, S \ {x}) \in Int /\ SumFunctionOnSet(h, S \ {x}) \in Int
  BY <1>1, SumInt
<1>4. SumFunctionOnSet(f, S \ {x}) <= SumFunctionOnSet(h, S \ {x})
  BY <1>1, SumAtMost
<1> QED
  BY <1>2, <1>3, <1>4

(* A sum of nothing but zeroes is zero. *)
LEMMA SumOfZeroes ==
  ASSUME NEW S, IsFiniteSet(S), NEW f, \A x \in S : f[x] = 0
  PROVE  SumFunctionOnSet(f, S) = 0
<1> DEFINE G == {T \in SUBSET S : SumFunctionOnSet(f, T) = 0}
<1>2. ASSUME NEW T \in SUBSET S, \A x \in T : T \ {x} \in G
      PROVE  T \in G
  <2>1. IsFiniteSet(T)
    BY FS_Subset
  <2>2. CASE T = {}
    BY <2>2, SumEmpty
  <2>3. CASE T # {}
    <3>1. Chosen(T) \in T
      BY <2>3, ChosenIn
    <3>2. SumFunctionOnSet(f, T) = f[Chosen(T)] + SumFunctionOnSet(f, T \ {Chosen(T)})
      BY <2>1, <2>3, SumChosen
    <3> QED
      BY <1>2, <3>1, <3>2
  <2> QED
    BY <2>2, <2>3
<1>3. G \in SUBSET (SUBSET S)
  OBVIOUS
<1> HIDE DEF G
<1>4. S \in G
  BY <1>2, <1>3, FiniteSetIsReached
<1> QED
  BY <1>4 DEF G

(* A sum in two parts. *)
LEMMA SumUnion ==
  ASSUME NEW S, NEW T, IsFiniteSet(S), IsFiniteSet(T), S \cap T = {},
         NEW f, \A x \in S \cup T : f[x] \in Int
  PROVE  SumFunctionOnSet(f, S \cup T) = SumFunctionOnSet(f, S) + SumFunctionOnSet(f, T)
<1> DEFINE sum(U) == SumFunctionOnSet(f, U)
           G == {U \in SUBSET T : sum(S \cup U) = sum(S) + sum(U)}
<1>1. ASSUME NEW U \in SUBSET T, \A x \in U : U \ {x} \in G
      PROVE  U \in G
  <2>1. IsFiniteSet(U) /\ sum(S) \in Int
    BY FS_Subset, SumInt
  <2>2. CASE U = {}
    <3>1. sum(U) = 0
      BY <2>2, SumEmpty
    <3>2. S \cup U = S
      BY <2>2
    <3>3. sum(S \cup U) = sum(S)
      BY <3>2
    <3> HIDE DEF sum
    <3> QED
      BY <2>1, <3>1, <3>3
  <2>3. CASE U # {}
    <3>1. PICK x \in U : TRUE
      BY <2>3
    <3> DEFINE R == U \ {x}
    <3>2. sum(S \cup R) = sum(S) + sum(R)
      BY <1>1
    <3>3. IsFiniteSet(R) /\ IsFiniteSet(S \cup R) /\ x \notin R /\ x \notin S \cup R
      BY <2>1, FS_Subset, FS_Union
    <3>4. sum(U) = sum(R) + f[x]
      <4>1. R \cup {x} = U /\ \A y \in R \cup {x} : f[y] \in Int
        OBVIOUS
      <4> QED
        BY <3>3, <4>1, SumAdd
    <3>5. sum(S \cup U) = sum(S \cup R) + f[x]
      <4>1. (S \cup R) \cup {x} = S \cup U /\ \A y \in (S \cup R) \cup {x} : f[y] \in Int
        OBVIOUS
      <4> QED
        BY <3>3, <4>1, SumAdd
    <3>6. sum(R) \in Int /\ f[x] \in Int
      BY <3>3, SumInt
    <3> HIDE DEF sum, R
    <3> QED
      BY <2>1, <3>2, <3>4, <3>5, <3>6
  <2> QED
    BY <2>2, <2>3
<1>2. G \in SUBSET (SUBSET T)
  OBVIOUS
<1>3. T \in G
  <2> HIDE DEF G
  <2> QED
    BY <1>1, <1>2, FiniteSetIsReached
<1> QED
  BY <1>3

(* The cells of a table, and one row of it. *)
Grid(R, N) == R \X N
RowOf(f, r, N) == [n \in N |-> f[<<r, n>>]]

(* One row of a table, summed along its columns. *)
LEMMA SumOfRow ==
  ASSUME NEW r, NEW N, IsFiniteSet(N), NEW f, \A x \in Grid({r}, N) : f[x] \in Int
  PROVE  SumFunctionOnSet(f, Grid({r}, N)) = SumFunctionOnSet(RowOf(f, r, N), N)
<1> USE DEF Grid
<1> DEFINE h == RowOf(f, r, N)
           row(U) == SumFunctionOnSet(f, {r} \X U)
           G == {U \in SUBSET N : row(U) = SumFunctionOnSet(h, U)}
<1>1. \A n \in N : f[<<r, n>>] \in Int /\ h[n] = f[<<r, n>>]
  <2>1. \A n \in N : <<r, n>> \in {r} \X N
    OBVIOUS
  <2> QED
    BY <2>1 DEF RowOf
<1> HIDE DEF h
<1>2. \A U \in SUBSET N : IsFiniteSet(U) /\ IsFiniteSet({r} \X U)
  BY FS_Subset, FS_Singleton, FS_Product
<1>3. ASSUME NEW U \in SUBSET N, \A x \in U : U \ {x} \in G
      PROVE  U \in G
  <2>1. CASE U = {}
    <3>1. {r} \X U = {}
      BY <2>1
    <3> QED
      BY <2>1, <3>1, SumEmpty
  <2>2. CASE U # {}
    <3>1. PICK n \in U : TRUE
      BY <2>2
    <3> DEFINE V == U \ {n}
    <3>2. row(V) = SumFunctionOnSet(h, V)
      BY <1>3
    <3>3. SumFunctionOnSet(h, U) = SumFunctionOnSet(h, V) + h[n]
      <4>1. V \cup {n} = U /\ n \notin V /\ \A y \in V \cup {n} : h[y] \in Int
        BY <1>1
      <4>2. IsFiniteSet(V)
        BY <1>2
      <4> QED
        BY <4>1, <4>2, SumAdd
    <3>4. row(U) = row(V) + f[<<r, n>>]
      <4> DEFINE A == {r} \X V
      <4>1. A \cup {<<r, n>>} = {r} \X U /\ <<r, n>> \notin A
        OBVIOUS
      <4>2. \A y \in A \cup {<<r, n>>} : f[y] \in Int
        BY <4>1
      <4>3. IsFiniteSet(A)
        BY <1>2
      <4> HIDE DEF A
      <4>4. SumFunctionOnSet(f, A \cup {<<r, n>>}) = SumFunctionOnSet(f, A) + f[<<r, n>>]
        BY <4>1, <4>2, <4>3, SumAdd
      <4> QED
        BY <4>1, <4>4 DEF A
    <3>5. h[n] = f[<<r, n>>]
      BY <1>1
    <3> HIDE DEF V, row
    <3> QED
      BY <3>2, <3>3, <3>4, <3>5 DEF row
  <2> QED
    BY <2>1, <2>2
<1>4. G \in SUBSET (SUBSET N)
  OBVIOUS
<1>5. N \in G
  <2> HIDE DEF G
  <2> QED
    BY <1>3, <1>4, FiniteSetIsReached
<1> QED
  BY <1>5 DEF h

(* A table, summed row by row. *)
LEMMA SumByRows ==
  ASSUME NEW R, NEW N, IsFiniteSet(R), IsFiniteSet(N),
         NEW f, \A x \in Grid(R, N) : f[x] \in Int,
         NEW k, \A r \in R : k[r] = SumFunctionOnSet(f, Grid({r}, N))
  PROVE  SumFunctionOnSet(f, Grid(R, N)) = SumFunctionOnSet(k, R)
<1> USE DEF Grid
<1> DEFINE all(U) == SumFunctionOnSet(f, U \X N)
           G == {U \in SUBSET R : all(U) = SumFunctionOnSet(k, U)}
<1>1. \A U \in SUBSET R : IsFiniteSet(U) /\ IsFiniteSet(U \X N)
  BY FS_Subset, FS_Product
<1>2. \A r \in R : k[r] \in Int
  <2> SUFFICES ASSUME NEW r \in R PROVE k[r] \in Int
    OBVIOUS
  <2>1. IsFiniteSet({r} \X N)
    BY <1>1
  <2>2. \A x \in {r} \X N : f[x] \in Int
    OBVIOUS
  <2> QED
    BY <2>1, <2>2, SumInt
<1>3. ASSUME NEW U \in SUBSET R, \A x \in U : U \ {x} \in G
      PROVE  U \in G
  <2>1. CASE U = {}
    <3>1. U \X N = {}
      BY <2>1
    <3> QED
      BY <2>1, <3>1, SumEmpty
  <2>2. CASE U # {}
    <3>1. PICK r \in U : TRUE
      BY <2>2
    <3> DEFINE V == U \ {r}
    <3>2. all(V) = SumFunctionOnSet(k, V)
      BY <1>3
    <3>3. SumFunctionOnSet(k, U) = SumFunctionOnSet(k, V) + k[r]
      <4>1. V \cup {r} = U /\ r \notin V /\ \A y \in V \cup {r} : k[y] \in Int
        BY <1>2
      <4>2. IsFiniteSet(V)
        BY <1>1
      <4> HIDE DEF V
      <4>3. SumFunctionOnSet(k, V \cup {r}) = SumFunctionOnSet(k, V) + k[r]
        BY <4>1, <4>2, SumAdd
      <4> QED
        BY <4>1, <4>3
    <3>4. all(U) = all(V) + k[r]
      <4> DEFINE A == V \X N
                 B == {r} \X N
      <4>1. A \cup B = U \X N /\ A \cap B = {}
        OBVIOUS
      <4>2. \A x \in A \cup B : f[x] \in Int
        BY <4>1
      <4>3. IsFiniteSet(A) /\ IsFiniteSet(B)
        BY <1>1
      <4>4. k[r] = SumFunctionOnSet(f, B)
        OBVIOUS
      <4> HIDE DEF A, B
      <4>5. SumFunctionOnSet(f, A \cup B) = SumFunctionOnSet(f, A) + SumFunctionOnSet(f, B)
        BY <4>1, <4>2, <4>3, SumUnion
      <4> QED
        BY <4>1, <4>4, <4>5 DEF A
    <3> HIDE DEF V, all
    <3> QED
      BY <3>2, <3>3, <3>4 DEF all
  <2> QED
    BY <2>1, <2>2
<1>4. G \in SUBSET (SUBSET R)
  OBVIOUS
<1>5. R \in G
  <2> HIDE DEF G
  <2> QED
    BY <1>3, <1>4, FiniteSetIsReached
<1> QED
  BY <1>5
================================================================================
