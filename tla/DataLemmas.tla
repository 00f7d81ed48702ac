----------------------------- MODULE DataLemmas -----------------------------
(***************************************************************************)
(* Facts about the data that the ledger, the reports and the lists of the  *)
(* pages are built from: numbers, and sums of any length. SumFunction of   *)
(* the community modules is a recursive function over the subsets of its   *)
(* domain; what it computes is proved here for every finite domain.        *)
(* Induction is by a minimal counterexample, a set and not an operator:    *)
(* the strict subsets of a finite set are well founded. Last, the part of  *)
(* a sequence at some of its places.                                       *)
(***************************************************************************)
EXTENDS Integers, Functions, Selections, FiniteSetTheorems, SequenceTheorems, WellFoundedInduction, TLAPS

\* A nonempty set of finite sets has one that contains no other.
LEMMA MinimalSet ==
  ASSUME NEW S, IsFiniteSet(S), NEW C \in SUBSET SUBSET S, C # {}
  PROVE  \E T \in C : \A U \in C : U \subseteq T => U = T
<1>1. C \subseteq FiniteSubsetsOf(S)
  BY FS_FiniteSubsetsOfFinite
<1>2. PICK T \in C : \A U \in C : <<U, T>> \notin StrictSubsetOrdering(S)
  BY ONLY <1>1, C # {}, WFMin, FS_StrictSubsetOrderingWellFounded
<1>3. ASSUME NEW U \in C, U \subseteq T PROVE U = T
  BY <1>2, <1>3 DEF StrictSubsetOrdering
<1> QED BY <1>3

LEMMA LargestNumber ==
  ASSUME NEW n \in Int, NEW S \in SUBSET (1 .. n), S # {}
  PROVE  \E x \in S : \A y \in S : y <= x
<1> DEFINE N == 1 .. n
           C == {x .. n : x \in S}
<1>1. PICK T \in C : \A U \in C : U \subseteq T => U = T
  <2>1. IsFiniteSet(N)
    BY FS_Interval
  <2>2. \A x \in S : x .. n \subseteq N
    OBVIOUS
  <2>3. C \in SUBSET SUBSET N
    <3> HIDE DEF N
    <3> QED BY <2>2
  <2>4. C # {}
    OBVIOUS
  <2> HIDE DEF C, N
  <2> QED BY <2>1, <2>3, <2>4, MinimalSet
<1>2. PICK x \in S : T = x .. n
  OBVIOUS
<1>3. ASSUME NEW y \in S PROVE y <= x
  <2>1. SUFFICES ASSUME x < y PROVE FALSE
    OBVIOUS
  <2>2. (y .. n) \subseteq T /\ x \in T /\ x \notin (y .. n)
    BY <1>2, <2>1
  <2> QED BY <1>1, <2>2
<1> QED BY <1>3

LEMMA SmallestNumber ==
  ASSUME NEW n \in Int, NEW S \in SUBSET (1 .. n), S # {}
  PROVE  \E x \in S : \A y \in S : x <= y
<1> DEFINE N == 1 .. n
           C == {1 .. x : x \in S}
<1>1. PICK T \in C : \A U \in C : U \subseteq T => U = T
  <2>1. IsFiniteSet(N)
    BY FS_Interval
  <2>2. \A x \in S : 1 .. x \subseteq N
    OBVIOUS
  <2>3. C \in SUBSET SUBSET N
    <3> HIDE DEF N
    <3> QED BY <2>2
  <2>4. C # {}
    OBVIOUS
  <2> HIDE DEF C, N
  <2> QED BY <2>1, <2>3, <2>4, MinimalSet
<1>2. PICK x \in S : T = 1 .. x
  OBVIOUS
<1>3. ASSUME NEW y \in S PROVE x <= y
  <2>1. SUFFICES ASSUME y < x PROVE FALSE
    OBVIOUS
  <2>2. (1 .. y) \subseteq T /\ x \in T /\ x \notin (1 .. y)
    BY <1>2, <2>1
  <2> QED BY <1>1, <2>2
<1> QED BY <1>3
-----------------------------------------------------------------------------
(* The recursion of sums *)

Pick(s) == CHOOSE x \in s : TRUE

\* What SumFunctionOnSet unfolds to: g adds f up, one element after the other.
AddsUp(g, f, S) ==
  g = [s \in SUBSET S |-> IF s = {} THEN 0 ELSE f[Pick(s)] + g[s \ {Pick(s)}]]

\* Two functions that add up the same amounts agree on every finite set.
LEMMA AddsUpAgree ==
  ASSUME NEW S, IsFiniteSet(S), NEW A, NEW B, S \subseteq A, S \subseteq B,
         NEW f, NEW f2, \A x \in S : f[x] = f2[x],
         NEW g, NEW h, AddsUp(g, f, A), AddsUp(h, f2, B)
  PROVE  g[S] = h[S]
<1> DEFINE C == {T \in SUBSET S : g[T] # h[T]}
<1> SUFFICES ASSUME C # {} PROVE FALSE
  OBVIOUS
<1>1. PICK T \in C : \A U \in C : U \subseteq T => U = T
  <2> C \in SUBSET SUBSET S
    OBVIOUS
  <2> HIDE DEF C
  <2> QED BY MinimalSet
<1>2. g[T] = IF T = {} THEN 0 ELSE f[Pick(T)] + g[T \ {Pick(T)}]
  BY DEF AddsUp
<1>3. h[T] = IF T = {} THEN 0 ELSE f2[Pick(T)] + h[T \ {Pick(T)}]
  BY DEF AddsUp
<1>4. CASE T = {}
  BY <1>2, <1>3, <1>4
<1>5. CASE T # {}
  <2>1. Pick(T) \in T
    BY <1>5 DEF Pick
  <2>2. T \ {Pick(T)} \in SUBSET S /\ T \ {Pick(T)} # T
    BY <2>1
  <2>3. g[T \ {Pick(T)}] = h[T \ {Pick(T)}]
    BY <2>2, <1>1
  <2> QED BY <1>2, <1>3, <1>5, <2>1, <2>3
<1> QED BY <1>4, <1>5

\* There is a function that adds the amounts up.
LEMMA AddsUpExists ==
  ASSUME NEW f, NEW S, IsFiniteSet(S)
  PROVE  \E g : AddsUp(g, f, S)
<1> DEFINE C == {T \in SUBSET S : ~ \E g : AddsUp(g, f, T)}
<1> SUFFICES ASSUME C # {} PROVE FALSE
  OBVIOUS
<1>1. PICK T \in C : \A U \in C : U \subseteq T => U = T
  <2> C \in SUBSET SUBSET S
    OBVIOUS
  <2> HIDE DEF C
  <2> QED BY MinimalSet
<1> DEFINE G(U) == CHOOSE g : AddsUp(g, f, U)
<1>2. \A U \in SUBSET T : U # T => AddsUp(G(U), f, U)
  BY <1>1
<1> DEFINE Value(s) == IF s = {} THEN 0
                       ELSE f[Pick(s)] + G(s \ {Pick(s)})[s \ {Pick(s)}]
           sums == [s \in SUBSET T |-> Value(s)]
<1>3. ASSUME NEW U \in SUBSET T, U # T PROVE sums[U] = G(U)[U]
  <2>1. AddsUp(G(U), f, U)
    BY <1>2, <1>3
  <2> HIDE DEF G
  <2>2. G(U)[U] = IF U = {} THEN 0 ELSE f[Pick(U)] + G(U)[U \ {Pick(U)}]
    BY <2>1 DEF AddsUp
  <2>3. CASE U = {}
    BY <2>2, <2>3
  <2>4. CASE U # {}
    <3> DEFINE V == U \ {Pick(U)}
    <3>1. V \in SUBSET U /\ V \in SUBSET T /\ V # T
      BY <2>4, <1>3 DEF Pick
    <3>2. AddsUp(G(V), f, V)
      BY <3>1, <1>2
    <3>3. IsFiniteSet(V)
      <4>1. V \in SUBSET S
        BY <3>1
      <4> QED BY <4>1, FS_Subset
    <3> HIDE DEF V
    <3>4. G(U)[V] = G(V)[V]
      BY <2>1, <3>1, <3>2, <3>3, AddsUpAgree
    <3> QED BY <2>2, <2>4, <3>4 DEF V
  <2> QED BY <2>3, <2>4
<1>4. ASSUME NEW s \in SUBSET T
      PROVE  sums[s] = IF s = {} THEN 0 ELSE f[Pick(s)] + sums[s \ {Pick(s)}]
  <2>1. CASE s = {}
    BY <2>1
  <2>2. CASE s # {}
    <3>1. s \ {Pick(s)} \in SUBSET T /\ s \ {Pick(s)} # T
      BY <2>2 DEF Pick
    <3>2. sums[s \ {Pick(s)}] = G(s \ {Pick(s)})[s \ {Pick(s)}]
      BY <3>1, <1>3
    <3> QED BY <2>2, <3>2
  <2> QED BY <2>1, <2>2
<1>5. AddsUp(sums, f, T)
  <2>1. sums = [s \in SUBSET T |-> sums[s]]
    OBVIOUS
  <2> HIDE DEF sums
  <2> QED BY <2>1, <1>4 DEF AddsUp
<1> QED BY <1>5, <1>1

\* The recursion of SumFunctionOnSet, at the set that is summed.
LEMMA SumUnfold ==
  ASSUME NEW f, NEW S, IsFiniteSet(S)
  PROVE  \E g : AddsUp(g, f, S) /\ SumFunctionOnSet(f, S) = g[S]
<1> DEFINE iter == CHOOSE g : AddsUp(g, f, S)
<1>1. AddsUp(iter, f, S)
  BY AddsUpExists
<1>2. SumFunctionOnSet(f, S) = iter[S]
  BY DEF SumFunctionOnSet, FoldFunctionOnSet, MapThenFoldSet, AddsUp, Pick
<1> QED BY <1>1, <1>2
-----------------------------------------------------------------------------
(* Sums over one set *)

LEMMA SumEmpty == ASSUME NEW f PROVE SumFunctionOnSet(f, {}) = 0
<1>1. IsFiniteSet({})
  BY FS_EmptySet
<1>2. PICK g : AddsUp(g, f, {}) /\ SumFunctionOnSet(f, {}) = g[{}]
  BY <1>1, SumUnfold
<1> QED BY <1>2 DEF AddsUp

\* A sum is that of the amounts, whatever else the function holds.
LEMMA SumSame ==
  ASSUME NEW S, IsFiniteSet(S), NEW f, NEW g, \A x \in S : f[x] = g[x]
  PROVE  SumFunctionOnSet(f, S) = SumFunctionOnSet(g, S)
<1>1. PICK a : AddsUp(a, f, S) /\ SumFunctionOnSet(f, S) = a[S]
  BY SumUnfold
<1>2. PICK b : AddsUp(b, g, S) /\ SumFunctionOnSet(g, S) = b[S]
  BY SumUnfold
<1>3. a[S] = b[S]
  BY <1>1, <1>2, AddsUpAgree
<1> QED BY <1>1, <1>2, <1>3

LEMMA SumPicked ==
  ASSUME NEW S, IsFiniteSet(S), S # {}, NEW f
  PROVE  SumFunctionOnSet(f, S) = f[Pick(S)] + SumFunctionOnSet(f, S \ {Pick(S)})
<1> DEFINE R == S \ {Pick(S)}
<1>1. IsFiniteSet(R) /\ R \in SUBSET S
  BY FS_Subset
<1>2. PICK a : AddsUp(a, f, S) /\ SumFunctionOnSet(f, S) = a[S]
  BY SumUnfold
<1>3. PICK b : AddsUp(b, f, R) /\ SumFunctionOnSet(f, R) = b[R]
  BY <1>1, SumUnfold
<1>4. a[R] = b[R]
  <2> HIDE DEF R
  <2> QED BY <1>1, <1>2, <1>3, AddsUpAgree
<1>5. a[S] = f[Pick(S)] + a[R]
  BY <1>2 DEF AddsUp
<1> QED BY <1>2, <1>3, <1>4, <1>5

LEMMA SumSingle ==
  ASSUME NEW f, NEW x, f[x] \in Int
  PROVE  SumFunctionOnSet(f, {x}) = f[x]
<1>1. IsFiniteSet({x}) /\ Pick({x}) = x /\ {x} \ {x} = {}
  BY FS_Singleton DEF Pick
<1>2. SumFunctionOnSet(f, {x}) = f[x] + SumFunctionOnSet(f, {})
  BY <1>1, SumPicked
<1> QED BY <1>2, SumEmpty

LEMMA SumInt ==
  ASSUME NEW S, IsFiniteSet(S), NEW f, \A x \in S : f[x] \in Int
  PROVE  SumFunctionOnSet(f, S) \in Int
<1> DEFINE C == {T \in SUBSET S : SumFunctionOnSet(f, T) \notin Int}
<1> SUFFICES ASSUME C # {} PROVE FALSE
  OBVIOUS
<1>1. PICK T \in C : \A U \in C : U \subseteq T => U = T
  <2> C \in SUBSET SUBSET S
    OBVIOUS
  <2> HIDE DEF C
  <2> QED BY MinimalSet
<1>2. T # {}
  BY SumEmpty
<1>3. IsFiniteSet(T)
  BY FS_Subset
<1>4. Pick(T) \in T
  BY <1>2 DEF Pick
<1>5. SumFunctionOnSet(f, T \ {Pick(T)}) \in Int
  BY <1>1, <1>4
<1>6. SumFunctionOnSet(f, T) = f[Pick(T)] + SumFunctionOnSet(f, T \ {Pick(T)})
  BY <1>2, <1>3, SumPicked
<1>7. f[Pick(T)] \in Int
  BY <1>4
<1> QED BY <1>5, <1>6, <1>7

\* Any element may be taken out first: the order of the lines is no matter.
LEMMA SumRemove ==
  ASSUME NEW S, IsFiniteSet(S), NEW f, \A x \in S : f[x] \in Int, NEW x \in S
  PROVE  SumFunctionOnSet(f, S) = f[x] + SumFunctionOnSet(f, S \ {x})
<1> DEFINE Sum(T) == SumFunctionOnSet(f, T)
           C == {T \in SUBSET S : \E y \in T : Sum(T) # f[y] + Sum(T \ {y})}
<1> SUFFICES ASSUME C # {} PROVE FALSE
  OBVIOUS
<1>1. PICK T \in C : \A U \in C : U \subseteq T => U = T
  <2> C \in SUBSET SUBSET S
    OBVIOUS
  <2> HIDE DEF C
  <2> QED BY MinimalSet
<1>2. PICK y \in T : Sum(T) # f[y] + Sum(T \ {y})
  OBVIOUS
<1>3. \A U \in SUBSET S : IsFiniteSet(U) /\ Sum(U) \in Int
  BY FS_Subset, SumInt
<1> DEFINE p == Pick(T)
<1>4. p \in T
  BY DEF Pick
<1>5. Sum(T) = f[p] + Sum(T \ {p})
  BY <1>3, <1>4, SumPicked
<1>6. p # y
  BY <1>2, <1>5
<1>7. Sum(T \ {p}) = f[y] + Sum((T \ {p}) \ {y})
  <2>1. T \ {p} \in SUBSET S /\ T \ {p} \notin C
    BY <1>1, <1>4
  <2> HIDE DEF Sum, p
  <2> QED BY <2>1, <1>6
<1>8. Sum(T \ {y}) = f[p] + Sum((T \ {y}) \ {p})
  <2>1. T \ {y} \in SUBSET S /\ T \ {y} \notin C
    BY <1>1
  <2> HIDE DEF Sum, p
  <2> QED BY <2>1, <1>4, <1>6
<1>9. (T \ {p}) \ {y} = (T \ {y}) \ {p}
  OBVIOUS
<1>10. f[p] \in Int /\ f[y] \in Int /\ Sum((T \ {y}) \ {p}) \in Int
  <2>1. (T \ {y}) \ {p} \in SUBSET S
    OBVIOUS
  <2> HIDE DEF Sum, p
  <2> QED BY <2>1, <1>3, <1>4
<1>11. Sum((T \ {p}) \ {y}) = Sum((T \ {y}) \ {p})
  BY <1>9
<1>12. Sum(T) = f[y] + Sum(T \ {y})
  <2> DEFINE q == Sum((T \ {y}) \ {p})
  <2>1. Sum(T) = f[p] + (f[y] + q) /\ Sum(T \ {y}) = f[p] + q
    BY <1>5, <1>7, <1>8, <1>11
  <2> HIDE DEF Sum, p, q
  <2>2. f[p] \in Int /\ f[y] \in Int /\ q \in Int
    BY <1>10 DEF q
  <2> QED BY <2>1, <2>2
<1> QED BY <1>2, <1>12
-----------------------------------------------------------------------------
(* Algebra of sums *)

\* The sum over a union of two sets without a common element.
LEMMA SumSplit ==
  ASSUME NEW A, IsFiniteSet(A), NEW B, IsFiniteSet(B), A \cap B = {},
         NEW f, \A x \in A \cup B : f[x] \in Int
  PROVE  SumFunctionOnSet(f, A \cup B) = SumFunctionOnSet(f, A) + SumFunctionOnSet(f, B)
<1> DEFINE Sum(T) == SumFunctionOnSet(f, T)
           C == {T \in SUBSET A : Sum(T \cup B) # Sum(T) + Sum(B)}
<1>0. \A U \in SUBSET (A \cup B) : IsFiniteSet(U) /\ Sum(U) \in Int
  <2>1. IsFiniteSet(A \cup B)
    BY FS_Union
  <2> QED BY <2>1, FS_Subset, SumInt
<1> SUFFICES ASSUME C # {} PROVE FALSE
  OBVIOUS
<1>1. PICK T \in C : \A U \in C : U \subseteq T => U = T
  <2> C \in SUBSET SUBSET A
    OBVIOUS
  <2> HIDE DEF C
  <2> QED BY MinimalSet
<1>2. T # {}
  <2>1. Sum({}) = 0 /\ {} \cup B = B
    BY SumEmpty
  <2>2. Sum(B) \in Int
    BY <1>0
  <2>3. SUFFICES ASSUME T = {} PROVE FALSE
    OBVIOUS
  <2>4. Sum(T \cup B) # Sum(T) + Sum(B)
    OBVIOUS
  <2> HIDE DEF Sum, C
  <2> QED BY <2>1, <2>2, <2>3, <2>4
<1>3. PICK x \in T : TRUE
  BY <1>2
<1>4. Sum(T \cup B) = f[x] + Sum((T \cup B) \ {x})
  <2>1. IsFiniteSet(T \cup B) /\ \A y \in T \cup B : f[y] \in Int
    BY <1>0
  <2> QED BY <2>1, SumRemove
<1>5. Sum(T) = f[x] + Sum(T \ {x})
  <2>1. IsFiniteSet(T) /\ \A y \in T : f[y] \in Int
    BY <1>0
  <2> QED BY <2>1, SumRemove
<1>6. Sum((T \ {x}) \cup B) = Sum(T \ {x}) + Sum(B)
  BY <1>1
<1>7. (T \cup B) \ {x} = (T \ {x}) \cup B
  BY <1>3
<1>8. Sum(T \cup B) # Sum(T) + Sum(B)
  OBVIOUS
<1>9. f[x] \in Int /\ Sum(T \ {x}) \in Int /\ Sum(B) \in Int
  BY <1>0
<1>10. Sum((T \cup B) \ {x}) = Sum((T \ {x}) \cup B)
  BY <1>7
<1> HIDE DEF Sum, C
<1> QED BY <1>4, <1>5, <1>6, <1>8, <1>9, <1>10

\* A sum of sums, or of differences: amounts that add up element by element.
LEMMA SumPlus ==
  ASSUME NEW S, IsFiniteSet(S), NEW f, NEW g, NEW h,
         \A x \in S : f[x] \in Int /\ g[x] \in Int /\ h[x] = f[x] + g[x]
  PROVE  SumFunctionOnSet(h, S) = SumFunctionOnSet(f, S) + SumFunctionOnSet(g, S)
<1> DEFINE F(T) == SumFunctionOnSet(f, T)
           G(T) == SumFunctionOnSet(g, T)
           H(T) == SumFunctionOnSet(h, T)
           C == {T \in SUBSET S : H(T) # F(T) + G(T)}
<1>0. \A U \in SUBSET S : IsFiniteSet(U) /\ F(U) \in Int /\ G(U) \in Int
  BY FS_Subset, SumInt
<1> SUFFICES ASSUME C # {} PROVE FALSE
  OBVIOUS
<1>1. PICK T \in C : \A U \in C : U \subseteq T => U = T
  <2> C \in SUBSET SUBSET S
    OBVIOUS
  <2> HIDE DEF C
  <2> QED BY MinimalSet
<1>2. T # {}
  <2>1. F({}) = 0 /\ G({}) = 0 /\ H({}) = 0
    BY SumEmpty
  <2>2. H(T) # F(T) + G(T)
    OBVIOUS
  <2> HIDE DEF F, G, H, C
  <2> QED BY <2>1, <2>2
<1>3. PICK x \in T : TRUE
  BY <1>2
<1>4. H(T) = h[x] + H(T \ {x}) /\ F(T) = f[x] + F(T \ {x}) /\ G(T) = g[x] + G(T \ {x})
  <2>1. IsFiniteSet(T)
    BY <1>0
  <2>2. \A y \in T : f[y] \in Int /\ g[y] \in Int /\ h[y] \in Int
    OBVIOUS
  <2> QED BY <2>1, <2>2, SumRemove
<1>5. H(T \ {x}) = F(T \ {x}) + G(T \ {x})
  BY <1>1
<1>6. H(T) # F(T) + G(T)
  OBVIOUS
<1>7. F(T \ {x}) \in Int /\ G(T \ {x}) \in Int
  BY <1>0
<1>8. f[x] \in Int /\ g[x] \in Int /\ h[x] = f[x] + g[x]
  BY <1>3
<1> HIDE DEF F, G, H, C
<1> QED BY <1>4, <1>5, <1>6, <1>7, <1>8

LEMMA SumZero ==
  ASSUME NEW S, IsFiniteSet(S), NEW f, \A x \in S : f[x] = 0
  PROVE  SumFunctionOnSet(f, S) = 0
<1> DEFINE s == SumFunctionOnSet(f, S)
<1>1. s \in Int
  BY SumInt
<1>2. s = s + s
  <2>1. \A x \in S : f[x] \in Int /\ f[x] = f[x] + f[x]
    OBVIOUS
  <2> QED BY <2>1, SumPlus
<1> HIDE DEF s
<1>3. s = 0
  BY <1>1, <1>2
<1> QED BY <1>3 DEF s

LEMMA SumNegated ==
  ASSUME NEW S, IsFiniteSet(S), NEW f, NEW g, \A x \in S : f[x] \in Int /\ g[x] = -f[x]
  PROVE  SumFunctionOnSet(g, S) = -SumFunctionOnSet(f, S)
<1> DEFINE zero == [x \in S |-> 0]
           a == SumFunctionOnSet(f, S)
           b == SumFunctionOnSet(g, S)
<1>1. SumFunctionOnSet(zero, S) = 0
  BY SumZero
<1>2. SumFunctionOnSet(zero, S) = a + b
  <2>1. \A x \in S : f[x] \in Int /\ g[x] \in Int /\ zero[x] = f[x] + g[x]
    OBVIOUS
  <2> HIDE DEF zero
  <2> QED BY <2>1, SumPlus
<1>3. a \in Int /\ b \in Int
  <2>1. \A x \in S : f[x] \in Int /\ g[x] \in Int
    OBVIOUS
  <2> QED BY <2>1, SumInt
<1> HIDE DEF a, b, zero
<1>4. b = -a
  BY <1>1, <1>2, <1>3
<1> QED BY <1>4 DEF a, b

LEMMA SumMinus ==
  ASSUME NEW S, IsFiniteSet(S), NEW f, NEW g, NEW h,
         \A x \in S : f[x] \in Int /\ g[x] \in Int /\ h[x] = f[x] - g[x]
  PROVE  SumFunctionOnSet(h, S) = SumFunctionOnSet(f, S) - SumFunctionOnSet(g, S)
<1> DEFINE a == SumFunctionOnSet(f, S)
           b == SumFunctionOnSet(g, S)
           c == SumFunctionOnSet(h, S)
<1>1. a = c + b
  <2>1. \A x \in S : h[x] \in Int /\ g[x] \in Int /\ f[x] = h[x] + g[x]
    OBVIOUS
  <2> QED BY <2>1, SumPlus
<1>2. a \in Int /\ b \in Int /\ c \in Int
  <2>1. \A x \in S : f[x] \in Int /\ g[x] \in Int /\ h[x] \in Int
    OBVIOUS
  <2> QED BY <2>1, SumInt
<1> HIDE DEF a, b, c
<1>3. c = a - b
  BY <1>1, <1>2
<1> QED BY <1>3 DEF a, b, c

\* What is zero may be left out.
LEMMA SumSupport ==
  ASSUME NEW S, IsFiniteSet(S), NEW T \in SUBSET S, NEW f,
         \A x \in T : f[x] \in Int, \A x \in S \ T : f[x] = 0
  PROVE  SumFunctionOnSet(f, S) = SumFunctionOnSet(f, T)
<1> DEFINE R == S \ T
           a == SumFunctionOnSet(f, T)
<1>1. IsFiniteSet(T) /\ IsFiniteSet(R) /\ R \cap T = {} /\ T \cup R = S
  BY FS_Subset
<1>2. SumFunctionOnSet(f, R) = 0
  BY <1>1, SumZero
<1>3. SumFunctionOnSet(f, T \cup R) = a + SumFunctionOnSet(f, R)
  <2>1. \A x \in T \cup R : f[x] \in Int
    OBVIOUS
  <2>2. T \cap R = {}
    OBVIOUS
  <2> HIDE DEF R
  <2> QED BY <1>1, <2>1, <2>2, SumSplit
<1>4. a \in Int
  BY <1>1, SumInt
<1> QED BY <1>1, <1>2, <1>3, <1>4
LEMMA SumNonNegative ==
  ASSUME NEW S, IsFiniteSet(S), NEW f, \A x \in S : f[x] \in Nat
  PROVE  /\ SumFunctionOnSet(f, S) \in Nat
         /\ \A x \in S : f[x] <= SumFunctionOnSet(f, S)
<1> DEFINE Sum(T) == SumFunctionOnSet(f, T)
           C == {T \in SUBSET S : Sum(T) \notin Nat}
<1>0. \A U \in SUBSET S : IsFiniteSet(U)
  BY FS_Subset
<1>1. ASSUME NEW U \in SUBSET S, NEW x \in U
      PROVE  Sum(U) = f[x] + Sum(U \ {x}) /\ f[x] \in Nat
  <2>1. \A y \in U : f[y] \in Int
    OBVIOUS
  <2> QED BY <2>1, <1>0, SumRemove
<1>2. C = {}
  <2> SUFFICES ASSUME C # {} PROVE FALSE
    OBVIOUS
  <2>1. PICK T \in C : \A U \in C : U \subseteq T => U = T
    <3> C \in SUBSET SUBSET S
      OBVIOUS
    <3> HIDE DEF C
    <3> QED BY MinimalSet
  <2>2. T # {}
    <3>1. Sum({}) = 0 /\ Sum(T) \notin Nat
      BY SumEmpty
    <3> HIDE DEF Sum, C
    <3> QED BY <3>1
  <2>3. PICK x \in T : TRUE
    BY <2>2
  <2>4. Sum(T \ {x}) \in Nat
    BY <2>1
  <2>5. Sum(T) = f[x] + Sum(T \ {x}) /\ f[x] \in Nat
    BY <1>1
  <2>6. Sum(T) \notin Nat
    OBVIOUS
  <2> HIDE DEF Sum, C
  <2> QED BY <2>4, <2>5, <2>6
<1>3. \A U \in SUBSET S : Sum(U) \in Nat
  BY <1>2
<1>4. ASSUME NEW x \in S PROVE f[x] <= Sum(S)
  <2>1. Sum(S) = f[x] + Sum(S \ {x}) /\ f[x] \in Nat
    BY <1>1
  <2>2. Sum(S \ {x}) \in Nat
    BY <1>3
  <2> HIDE DEF Sum, C
  <2> QED BY <2>1, <2>2
<1> QED BY <1>3, <1>4

\* The rows of a table of amounts add up to what its columns add up to.
LEMMA SumSwap ==
  ASSUME NEW S, IsFiniteSet(S), NEW T, IsFiniteSet(T), NEW m,
         \A x \in S, y \in T : m[x][y] \in Int
  PROVE  SumFunctionOnSet([x \in S |-> SumFunctionOnSet(m[x], T)], S)
       = SumFunctionOnSet([y \in T |-> SumFunctionOnSet([x \in S |-> m[x][y]], S)], T)
<1> DEFINE row == [x \in S |-> SumFunctionOnSet(m[x], T)]
           column(y) == [x \in S |-> m[x][y]]
           below(U) == [y \in T |-> SumFunctionOnSet(column(y), U)]
           Rows(U) == SumFunctionOnSet(row, U)
           Columns(U) == SumFunctionOnSet(below(U), T)
           C == {U \in SUBSET S : Rows(U) # Columns(U)}
<1>0. \A U \in SUBSET S : IsFiniteSet(U)
  BY FS_Subset
<1>1. \A x \in S : row[x] \in Int
  BY SumInt
<1>2. \A U \in SUBSET S, y \in T : SumFunctionOnSet(column(y), U) \in Int
  BY <1>0, SumInt
<1>3. ASSUME NEW U \in SUBSET S, NEW x \in U
      PROVE  Rows(U) = row[x] + Rows(U \ {x})
  <2>1. \A y \in U : row[y] \in Int
    BY <1>1
  <2> HIDE DEF row
  <2> QED BY <2>1, <1>0, SumRemove
<1>4. ASSUME NEW U \in SUBSET S, NEW x \in U
      PROVE  Columns(U) = row[x] + Columns(U \ {x})
  <2>1. ASSUME NEW y \in T
        PROVE  SumFunctionOnSet(column(y), U) = m[x][y] + SumFunctionOnSet(column(y), U \ {x})
    <3>1. \A z \in U : column(y)[z] \in Int
      OBVIOUS
    <3>2. column(y)[x] = m[x][y]
      OBVIOUS
    <3> HIDE DEF column
    <3> QED BY <3>1, <3>2, <1>0, SumRemove
  <2>2. \A y \in T : /\ m[x][y] \in Int /\ below(U \ {x})[y] \in Int
                     /\ below(U)[y] = m[x][y] + below(U \ {x})[y]
    BY <2>1, <1>2
  <2>3. SumFunctionOnSet(below(U), T)
          = SumFunctionOnSet(m[x], T) + SumFunctionOnSet(below(U \ {x}), T)
    <3> HIDE DEF below
    <3> QED BY <2>2, SumPlus
  <2> QED BY <2>3
<1>5. C = {}
  <2> SUFFICES ASSUME C # {} PROVE FALSE
    OBVIOUS
  <2>1. PICK U \in C : \A V \in C : V \subseteq U => V = U
    <3> C \in SUBSET SUBSET S
      OBVIOUS
    <3> HIDE DEF C
    <3> QED BY MinimalSet
  <2>2. Rows({}) = 0 /\ Columns({}) = 0
    <3>1. \A y \in T : below({})[y] = 0
      BY SumEmpty
    <3>2. Columns({}) = 0
      <4> HIDE DEF below
      <4> QED BY <3>1, SumZero
    <3> QED BY <3>2, SumEmpty
  <2>3. Rows(U) # Columns(U)
    OBVIOUS
  <2>4. PICK x \in U : TRUE
    <3> HIDE DEF Rows, Columns, C
    <3> QED BY <2>2, <2>3
  <2>5. Rows(U \ {x}) = Columns(U \ {x})
    <3> HIDE DEF Rows, Columns
    <3> QED BY <2>1
  <2>6. Rows(U) = row[x] + Rows(U \ {x}) /\ Columns(U) = row[x] + Columns(U \ {x})
    BY <1>3, <1>4
  <2> HIDE DEF Rows, Columns, row, C
  <2> QED BY <2>3, <2>5, <2>6
<1>6. Rows(S) = Columns(S)
  BY <1>5
<1> QED BY <1>6

\* Amounts sorted by a key: the sums of the groups add up to the whole.
LEMMA SumByKey ==
  ASSUME NEW S, IsFiniteSet(S), NEW K, IsFiniteSet(K), NEW key, NEW f,
         \A x \in S : key[x] \in K /\ f[x] \in Int
  PROVE  SumFunctionOnSet([k \in K |-> SumFunctionOnSet(f, {x \in S : key[x] = k})], K)
       = SumFunctionOnSet(f, S)
<1> DEFINE m == [x \in S |-> [k \in K |-> IF key[x] = k THEN f[x] ELSE 0]]
           column(k) == [x \in S |-> m[x][k]]
           group(k) == {x \in S : key[x] = k}
<1>1. \A x \in S, k \in K : m[x][k] \in Int
  OBVIOUS
<1>2. \A x \in S : SumFunctionOnSet(m[x], K) = f[x]
  <2> TAKE x \in S
  <2> DEFINE r == [k \in K |-> IF key[x] = k THEN f[x] ELSE 0]
             rest == K \ {key[x]}
  <2>1. IsFiniteSet(rest) /\ \A k \in rest : r[k] = 0
    BY FS_Subset
  <2>2. SumFunctionOnSet(r, rest) = 0
    <3> HIDE DEF r, rest
    <3> QED BY <2>1, SumZero
  <2>3. key[x] \in K /\ r[key[x]] = f[x] /\ f[x] \in Int /\ \A k \in K : r[k] \in Int
    OBVIOUS
  <2>4. SumFunctionOnSet(r, K) = r[key[x]] + SumFunctionOnSet(r, K \ {key[x]})
    <3> HIDE DEF r, rest
    <3> QED BY <2>3, SumRemove
  <2>5. m[x] = r
    OBVIOUS
  <2> HIDE DEF r, m
  <2> QED BY <2>2, <2>3, <2>4, <2>5
<1>3. \A k \in K : SumFunctionOnSet(column(k), S) = SumFunctionOnSet(f, group(k))
  <2> TAKE k \in K
  <2>1. group(k) \in SUBSET S /\ IsFiniteSet(group(k))
    <3>1. group(k) \in SUBSET S
      OBVIOUS
    <3> QED BY <3>1, FS_Subset
  <2>2. /\ \A x \in group(k) : column(k)[x] = f[x] /\ column(k)[x] \in Int
        /\ \A x \in S \ group(k) : column(k)[x] = 0
    OBVIOUS
  <2> HIDE DEF group, column
  <2>3. SumFunctionOnSet(column(k), S) = SumFunctionOnSet(column(k), group(k))
    BY <2>1, <2>2, SumSupport
  <2>4. SumFunctionOnSet(column(k), group(k)) = SumFunctionOnSet(f, group(k))
    BY <2>1, <2>2, SumSame
  <2> QED BY <2>3, <2>4
<1>4. SumFunctionOnSet([x \in S |-> SumFunctionOnSet(m[x], K)], S)
    = SumFunctionOnSet([k \in K |-> SumFunctionOnSet(column(k), S)], K)
  <2> HIDE DEF m
  <2> QED BY <1>1, SumSwap
<1>5. SumFunctionOnSet([x \in S |-> SumFunctionOnSet(m[x], K)], S) = SumFunctionOnSet(f, S)
  <2> DEFINE g == [x \in S |-> SumFunctionOnSet(m[x], K)]
  <2>1. \A x \in S : g[x] = f[x]
    BY <1>2
  <2> HIDE DEF g
  <2>2. SumFunctionOnSet(g, S) = SumFunctionOnSet(f, S)
    BY <2>1, SumSame
  <2> QED BY <2>2 DEF g
<1>6. [k \in K |-> SumFunctionOnSet(column(k), S)] = [k \in K |-> SumFunctionOnSet(f, group(k))]
  BY <1>3
<1> QED BY <1>4, <1>5, <1>6

\* A sum in which one summand changes.
LEMMA SumChange ==
  ASSUME NEW S, IsFiniteSet(S), NEW f, NEW g, NEW x \in S,
         \A y \in S : f[y] \in Int /\ g[y] \in Int,
         \A y \in S \ {x} : g[y] = f[y]
  PROVE  SumFunctionOnSet(g, S) = SumFunctionOnSet(f, S) - f[x] + g[x]
<1>1. IsFiniteSet(S \ {x})
  BY FS_Subset
<1>2. SumFunctionOnSet(g, S \ {x}) = SumFunctionOnSet(f, S \ {x})
  BY <1>1, SumSame
<1>3. SumFunctionOnSet(f, S \ {x}) \in Int
  BY <1>1, SumInt
<1>4. /\ SumFunctionOnSet(f, S) = f[x] + SumFunctionOnSet(f, S \ {x})
      /\ SumFunctionOnSet(g, S) = g[x] + SumFunctionOnSet(g, S \ {x})
  BY SumRemove
<1> QED BY <1>2, <1>3, <1>4

\* The keys of K are other names for the elements of S, with the same values.
Renames(key, f, S, g, K) ==
  /\ \A x \in S : key[x] \in K /\ f[x] \in Int
  /\ \A k \in K : \E x \in S : /\ key[x] = k /\ g[k] = f[x]
                                /\ \A y \in S : key[y] = k => y = x

\* A sum is the same over other names.
LEMMA SumRenamed ==
  ASSUME NEW S, IsFiniteSet(S), NEW K, IsFiniteSet(K), NEW key, NEW f, NEW g,
         Renames(key, f, S, g, K)
  PROVE  SumFunctionOnSet(g, K) = SumFunctionOnSet(f, S)
<1> USE DEF Renames
<1> DEFINE h == [k \in K |-> SumFunctionOnSet(f, {x \in S : key[x] = k})]
<1>1. SumFunctionOnSet(h, K) = SumFunctionOnSet(f, S)
  BY SumByKey
<1>2. \A k \in K : g[k] = h[k]
  <2> TAKE k \in K
  <2>1. PICK x \in S : /\ key[x] = k /\ g[k] = f[x]
                       /\ \A y \in S : key[y] = k => y = x
    OBVIOUS
  <2>2. SumFunctionOnSet(f, {x}) = f[x]
    BY SumSingle
  <2>3. {y \in S : key[y] = k} = {x}
    BY <2>1
  <2> QED BY <2>1, <2>2, <2>3
<1> HIDE DEF h
<1>3. SumFunctionOnSet(g, K) = SumFunctionOnSet(h, K)
  BY <1>2, SumSame
<1> QED BY <1>1, <1>3
-----------------------------------------------------------------------------
(* Selections: what filter and splice leave of a sequence *)

LEMMA RanksGrow ==
  ASSUME NEW n \in Int, NEW K \in SUBSET (1 .. n)
  PROVE  /\ IsFiniteSet(K) /\ Cardinality(K) \in Nat
         /\ \A p \in K : Rank(K, p) \in 1 .. Cardinality(K)
         /\ \A p, q \in K : p < q => Rank(K, p) < Rank(K, q)
<1> DEFINE L(p) == {q \in K : q <= p}
<1>1. IsFiniteSet(K) /\ Cardinality(K) \in Nat
  <2>1. PICK a, S : a \in Int /\ a = 1 /\ S = a .. n
    OBVIOUS
  <2>2. IsFiniteSet(S) /\ K \in SUBSET S
    BY <2>1, FS_Interval
  <2> QED BY <2>2, FS_Subset, FS_CardinalityType
<1>2. ASSUME NEW p \in K
      PROVE  /\ IsFiniteSet(L(p)) /\ Rank(K, p) = Cardinality(L(p))
             /\ Rank(K, p) \in 1 .. Cardinality(K)
  <2>1. L(p) \in SUBSET K /\ p \in L(p)
    OBVIOUS
  <2>2. IsFiniteSet(L(p)) /\ Cardinality(L(p)) <= Cardinality(K) /\ Cardinality(L(p)) \in Nat
    BY <1>1, <2>1, FS_Subset, FS_CardinalityType
  <2>3. Cardinality(L(p)) # 0
    BY <2>1, <2>2, FS_EmptySet
  <2> QED BY <1>1, <2>2, <2>3 DEF Rank
<1>3. ASSUME NEW p \in K, NEW q \in K, p < q
      PROVE  Rank(K, p) < Rank(K, q)
  <2>1. L(p) \in SUBSET L(q) /\ q \in L(q) /\ q \notin L(p)
    <3>1. p \in Int /\ q \in Int /\ \A k \in K : k \in Int
      OBVIOUS
    <3>2. \A k \in K : k <= p => k <= q
      BY <1>3, <3>1
    <3>3. q <= q /\ ~(q <= p)
      BY <1>3, <3>1
    <3>4. L(p) \in SUBSET L(q)
      BY <3>2, Zenon
    <3> QED BY <3>3, <3>4, Zenon
  <2>2. Cardinality(L(p)) <= Cardinality(L(q)) /\ Cardinality(L(p)) # Cardinality(L(q))
    BY <1>2, <2>1, FS_Subset
  <2> QED BY <1>1, <1>2, <2>2
<1> QED BY <1>1, <1>2, <1>3

\* Every place has its rank and every rank its place.
LEMMA NthPlace ==
  ASSUME NEW n \in Int, NEW K \in SUBSET (1 .. n)
  PROVE  /\ \A j \in 1 .. Cardinality(K) : Nth(K, j) \in K /\ Rank(K, Nth(K, j)) = j
         /\ \A p \in K : \E j \in 1 .. Cardinality(K) : Nth(K, j) = p
         /\ \A i, j \in 1 .. Cardinality(K) : i < j => Nth(K, i) < Nth(K, j)
<1> DEFINE f == [p \in K |-> Rank(K, p)]
           T == {Rank(K, p) : p \in K}
<1>1. /\ IsFiniteSet(K) /\ Cardinality(K) \in Nat
      /\ \A p \in K : Rank(K, p) \in 1 .. Cardinality(K)
      /\ \A p, q \in K : p < q => Rank(K, p) < Rank(K, q)
  BY RanksGrow
<1>2. \A p, q \in K : Rank(K, p) = Rank(K, q) => p = q
  <2> SUFFICES ASSUME NEW p \in K, NEW q \in K, Rank(K, p) = Rank(K, q), p # q
               PROVE  FALSE
    OBVIOUS
  <2>1. p < q \/ q < p
    OBVIOUS
  <2> QED BY <1>1, <2>1
<1>3. f \in Surjection(K, T) /\ f \in Injection(K, T)
  BY <1>2 DEF Surjection, Injection, IsInjective
<1>4. Cardinality(T) = Cardinality(K) /\ IsFiniteSet(T)
  BY <1>1, <1>3, FS_Surjection
<1>5. T = 1 .. Cardinality(K)
  <2>1. T \in SUBSET (1 .. Cardinality(K))
    BY <1>1
  <2>2. IsFiniteSet(1 .. Cardinality(K)) /\ Cardinality(1 .. Cardinality(K)) = Cardinality(K)
    BY <1>1, FS_Interval
  <2> QED BY <1>4, <2>1, <2>2, FS_Subset
<1>6. ASSUME NEW j \in 1 .. Cardinality(K)
      PROVE  Nth(K, j) \in K /\ Rank(K, Nth(K, j)) = j
  <2>1. \E p \in K : Rank(K, p) = j
    BY <1>5
  <2> QED BY <2>1 DEF Nth
<1>7. ASSUME NEW p \in K
      PROVE  \E j \in 1 .. Cardinality(K) : Nth(K, j) = p
  <2>1. Rank(K, p) \in 1 .. Cardinality(K)
    BY <1>1
  <2> QED BY <1>2, <1>6, <2>1
<1>8. ASSUME NEW i \in 1 .. Cardinality(K), NEW j \in 1 .. Cardinality(K), i < j
      PROVE  Nth(K, i) < Nth(K, j)
  <2>1. PICK p \in K, q \in K : p = Nth(K, i) /\ q = Nth(K, j) /\ Rank(K, p) = i /\ Rank(K, q) = j
    BY <1>6
  <2>2. p = q \/ p < q \/ q < p
    OBVIOUS
  <2> QED BY <1>1, <1>8, <2>1, <2>2
<1> QED BY <1>6, <1>7, <1>8

\* What is at some places of a sequence: those elements, in their order.
LEMMA AtPlacesIs ==
  ASSUME NEW A, NEW s \in Seq(A), NEW K \in SUBSET (DOMAIN s),
         NEW r, r = AtPlaces(s, K)
  PROVE  /\ r \in Seq(A) /\ Len(r) = Cardinality(K) /\ DOMAIN r = 1 .. Cardinality(K)
         /\ \A j \in DOMAIN r : Nth(K, j) \in K /\ r[j] = s[Nth(K, j)]
         /\ \A p \in K : \E j \in DOMAIN r : Nth(K, j) = p /\ r[j] = s[p]
         /\ \A i, j \in DOMAIN r : i < j => Nth(K, i) < Nth(K, j)
<1>1. PICK n \in Nat : n = Len(s) /\ DOMAIN s = 1 .. n
  BY LenProperties
<1>2. K \in SUBSET (1 .. n) /\ n \in Int
  BY <1>1
<1>3. PICK m \in Nat : m = Cardinality(K)
  BY <1>2, RanksGrow
<1>4. /\ \A j \in 1 .. m : Nth(K, j) \in K
      /\ \A p \in K : \E j \in 1 .. m : Nth(K, j) = p
      /\ \A i, j \in 1 .. m : i < j => Nth(K, i) < Nth(K, j)
  BY <1>2, <1>3, NthPlace
<1>5. r = [j \in 1 .. m |-> s[Nth(K, j)]]
  BY <1>3 DEF AtPlaces
<1>6. \A j \in 1 .. m : s[Nth(K, j)] \in A
  BY <1>1, <1>4
<1>7. r \in [1 .. m -> A] /\ DOMAIN r = 1 .. m
  BY <1>5, <1>6
<1>8. r \in Seq(A)
  BY <1>5, <1>6
<1>9. Len(r) = m
  BY <1>5
<1> QED BY <1>3, <1>4, <1>5, <1>7, <1>8, <1>9

\* One element less.
LEMMA OneFewer ==
  ASSUME NEW A, NEW s \in Seq(A), NEW i \in DOMAIN s,
         NEW r, r = AtPlaces(s, (DOMAIN s) \ {i})
  PROVE  Len(r) = Len(s) - 1 /\ Len(s) >= 1
<1>1. PICK n \in Nat : n = Len(s) /\ DOMAIN s = 1 .. n
  BY LenProperties
<1>2. IsFiniteSet(1 .. n) /\ Cardinality(1 .. n) = n
  <2>1. PICK a \in Int : a = 1
    OBVIOUS
  <2>2. IsFiniteSet(a .. n) /\ Cardinality(a .. n) = IF a > n THEN 0 ELSE n - a + 1
    <3>1. n \in Int
      BY <1>1
    <3> QED BY <2>1, <3>1, FS_Interval
  <2> QED BY <1>1, <2>1, <2>2
<1>3. Cardinality((1 .. n) \ {i}) = n - 1
  BY <1>1, <1>2, FS_RemoveElement
<1>4. Len(r) = Cardinality((1 .. n) \ {i})
  BY <1>1, AtPlacesIs
<1> QED BY <1>1, <1>3, <1>4
-----------------------------------------------------------------------------
(* Lists, whatever they are of *)

\* s is a sequence.
IsList(s) == s \in Seq({s[k] : k \in DOMAIN s})

LEMMA ListIs ==
  ASSUME NEW A, NEW s \in Seq(A)
  PROVE  /\ IsList(s) /\ Len(s) \in Nat /\ DOMAIN s = 1 .. Len(s) /\ IsFiniteSet(DOMAIN s)
         /\ \A k \in DOMAIN s : s[k] \in A
<1>1. PICK n \in Nat : n = Len(s) /\ DOMAIN s = 1 .. n /\ s \in [1 .. n -> A]
  BY LenProperties
<1>2. PICK R : R = {s[k] : k \in DOMAIN s}
  OBVIOUS
<1>3. s \in [1 .. n -> R]
  BY <1>1, <1>2
<1>4. s \in Seq(R)
  <2>1. s = [k \in 1 .. n |-> s[k]] /\ \A k \in 1 .. n : s[k] \in R
    BY <1>3
  <2> QED BY <2>1
<1>5. IsFiniteSet(1 .. n)
  <2>1. PICK a \in Int : a = 1
    OBVIOUS
  <2>2. n \in Int
    BY <1>1
  <2> QED BY <2>1, <2>2, FS_Interval
<1> QED BY <1>1, <1>2, <1>4, <1>5 DEF IsList

\* A list that is made of another, element by element.
LEMMA ListMade ==
  ASSUME NEW n \in Nat, NEW s, s = [k \in 1 .. n |-> s[k]]
  PROVE  IsList(s) /\ Len(s) = n /\ DOMAIN s = 1 .. n
<1>1. PICK R : R = {s[k] : k \in 1 .. n}
  OBVIOUS
<1>2. \A k \in 1 .. n : s[k] \in R
  BY <1>1
<1>3. s \in Seq(R) /\ DOMAIN s = 1 .. n
  BY <1>2
<1>4. Len(s) = n
  BY <1>3, LenProperties
<1> QED BY <1>1, <1>3, <1>4 DEF IsList

\* Every element of r is one of s or of t.
ComesFrom(r, s, t) ==
  \A k \in DOMAIN r : (\E i \in DOMAIN s : r[k] = s[i]) \/ (\E i \in DOMAIN t : r[k] = t[i])

LEMMA ListsJoined ==
  ASSUME NEW s, IsList(s), NEW t, IsList(t), NEW r, r = s \o t
  PROVE  /\ IsList(r) /\ Len(r) = Len(s) + Len(t) /\ Len(s) \in Nat /\ Len(t) \in Nat
         /\ \A k \in DOMAIN s : k \in DOMAIN r /\ r[k] = s[k]
         /\ ComesFrom(r, s, t)
<1>1. PICK A : A = {s[k] : k \in DOMAIN s} \cup {t[k] : k \in DOMAIN t}
  OBVIOUS
<1>2. PICK n \in Nat, m \in Nat : n = Len(s) /\ DOMAIN s = 1 .. n /\ m = Len(t) /\ DOMAIN t = 1 .. m
                                  /\ s = [k \in 1 .. n |-> s[k]] /\ t = [k \in 1 .. m |-> t[k]]
  <2>1. Len(s) \in Nat /\ DOMAIN s = 1 .. Len(s) /\ s \in [1 .. Len(s) -> {s[k] : k \in DOMAIN s}]
    BY LenProperties DEF IsList
  <2>2. Len(t) \in Nat /\ DOMAIN t = 1 .. Len(t) /\ t \in [1 .. Len(t) -> {t[k] : k \in DOMAIN t}]
    BY LenProperties DEF IsList
  <2> QED BY <2>1, <2>2
<1>3. s \in Seq(A) /\ t \in Seq(A)
  <2>1. (\A k \in 1 .. n : s[k] \in A) /\ (\A k \in 1 .. m : t[k] \in A)
    BY <1>1, <1>2
  <2>2. s \in [1 .. n -> A]
    BY <1>2, <2>1
  <2>3. t \in [1 .. m -> A]
    BY <1>2, <2>1
  <2> QED BY <2>2, <2>3
<1>4. /\ r \in Seq(A) /\ Len(r) = n + m
      /\ \A k \in 1 .. n + m : r[k] = IF k <= n THEN s[k] ELSE t[k - n]
  BY <1>2, <1>3, ConcatProperties
<1>5. IsList(r) /\ DOMAIN r = 1 .. n + m
  BY <1>4, ListIs
<1>6. \A k \in 1 .. n : k \in 1 .. n + m /\ k <= n
  BY <1>2
<1>7. \A k \in 1 .. n + m : k <= n => k \in 1 .. n
  BY <1>2
<1>8. \A k \in 1 .. n + m : ~(k <= n) => k - n \in 1 .. m
  BY <1>2
<1>9. ComesFrom(r, s, t)
  BY <1>2, <1>4, <1>5, <1>7, <1>8 DEF ComesFrom
<1> QED BY <1>2, <1>4, <1>5, <1>6, <1>9

\* Nothing is left out at all the places.
LEMMA AtAllPlaces ==
  ASSUME NEW A, NEW s \in Seq(A), NEW r, r = AtPlaces(s, DOMAIN s)
  PROVE  r = s
<1>1. PICK n \in Nat : n = Len(s) /\ DOMAIN s = 1 .. n
  BY LenProperties
<1>2. PICK K : K = 1 .. n
  OBVIOUS
<1>3. ASSUME NEW p \in K
      PROVE  Rank(K, p) = p
  <2>1. PICK a \in Int : a = 1
    OBVIOUS
  <2>2. {q \in K : q <= p} = a .. p /\ p \in Int /\ p >= a
    BY <1>1, <1>2, <2>1
  <2>3. Cardinality(a .. p) = IF a > p THEN 0 ELSE p - a + 1
    BY <2>2, FS_Interval
  <2>4. ~(a > p) /\ p - a + 1 = p
    BY <2>1, <2>2
  <2>5. Rank(K, p) = Cardinality(a .. p)
    BY <2>2 DEF Rank
  <2> QED BY <2>3, <2>4, <2>5
<1>4. Cardinality(K) = n
  <2>1. PICK a \in Int : a = 1
    OBVIOUS
  <2>2. n \in Int
    BY <1>1
  <2>3. Cardinality(a .. n) = IF a > n THEN 0 ELSE n - a + 1
    BY <2>1, <2>2, FS_Interval
  <2> QED BY <1>1, <1>2, <2>1, <2>3
<1>5. \A j \in 1 .. n : Nth(K, j) = j
  <2>1. \A j \in 1 .. n : Nth(K, j) \in K /\ Rank(K, Nth(K, j)) = j
    <3>1. n \in Int /\ K \in SUBSET (1 .. n)
      BY <1>1, <1>2
    <3> QED BY <1>4, <3>1, NthPlace
  <2> QED BY <1>3, <2>1
<1>6. r \in Seq(A) /\ Len(r) = n /\ DOMAIN r = 1 .. n /\ \A j \in 1 .. n : r[j] = s[j]
  <2>1. K \in SUBSET (DOMAIN s) /\ r = AtPlaces(s, K)
    BY <1>1, <1>2
  <2> QED BY <1>4, <1>5, <2>1, AtPlacesIs
<1> QED BY <1>1, <1>6, SeqEqual
=============================================================================
