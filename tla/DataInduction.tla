----------------------------- MODULE DataInduction -----------------------------
(***************************************************************************)
(* Induction over the data of a model, for the provers at hand.  The       *)
(* induction theorems of the library are about predicates; here they are   *)
(* about sets, which a proof builds from the formula it is inducting over, *)
(* and the recursion equation of a sum is derived from them.               *)
(***************************************************************************)
EXTENDS Integers, Sequences, FiniteSets, FiniteSetTheorems, TLAPS

\* A set of natural numbers that is not empty has a least member.  The intervals
\* below its members are finite sets, of which one is minimal.
LEMMA LeastMember ==
  ASSUME NEW T \in SUBSET Nat, T # {}
  PROVE  \E m \in T : \A n \in T : m <= n
<1> DEFINE R == StrictSubsetOrdering(Nat)
           S == FiniteSubsetsOf(Nat)
           B == {0..(n-1) : n \in T}
<1>1. IsWellFoundedOn(R, S)
  BY FS_StrictSubsetOrderingWellFounded
<1>2. ASSUME NEW n \in T PROVE 0..(n-1) \in S
  <2>1. IsFiniteSet(0..(n-1))
    BY FS_Interval
  <2>2. QED
    BY <2>1 DEF FiniteSubsetsOf
<1>3. B \subseteq S /\ B # {}
  BY <1>2
<1>4. PICK b \in B : \A c \in B : <<c, b>> \notin R
  <2> HIDE DEF R, S, B
  <2>1. QED
    BY <1>1, <1>3, WFMin
<1>5. PICK m \in T : b = 0..(m-1)
  BY <1>4
<1>6. ASSUME NEW n \in T, n < m PROVE FALSE
  <2>1. 0..(n-1) \in B
    OBVIOUS
  <2>2. 0..(n-1) \subseteq 0..(m-1) /\ n \in 0..(m-1) /\ n \notin 0..(n-1)
    BY <1>6
  <2>3. <<0..(n-1), 0..(m-1)>> \in R
    BY <2>2 DEF StrictSubsetOrdering
  <2>4. QED
    BY <1>4, <1>5, <2>1, <2>3
<1>7. QED
  BY <1>6

\* What holds of 0, and of n + 1 when it holds of n, holds of every number.
LEMMA SetInduction ==
  ASSUME NEW T, 0 \in T, \A n \in Nat : n \in T => n + 1 \in T
  PROVE  \A n \in Nat : n \in T
<1> DEFINE U == {n \in Nat : n \notin T}
<1>1. SUFFICES ASSUME U # {} PROVE FALSE
  OBVIOUS
<1>2. PICK m \in U : \A n \in U : m <= n
  BY <1>1, LeastMember
<1>3. m # 0
  OBVIOUS
<1>4. m - 1 \in Nat /\ m - 1 \notin U
  BY <1>2, <1>3
<1>5. QED
  BY <1>4

\* What holds of n when it holds of every smaller number holds of every number.
LEMMA StrongInduction ==
  ASSUME NEW T, \A n \in Nat : (\A m \in 0..(n-1) : m \in T) => n \in T
  PROVE  \A n \in Nat : n \in T
<1> DEFINE U == {n \in Nat : n \notin T}
<1>1. SUFFICES ASSUME U # {} PROVE FALSE
  OBVIOUS
<1>2. PICK m \in U : \A n \in U : m <= n
  BY <1>1, LeastMember
<1>3. QED
  BY <1>2

-----------------------------------------------------------------------------
(***************************************************************************)
(* Sums over finite sets.  g gives every subset of S the sum of v over it, *)
(* by the recursion of the community modules: one element, whichever       *)
(* CHOOSE takes, and the rest.                                             *)
(***************************************************************************)
Some(s) == CHOOSE x \in s : TRUE

IsSum(g, v, S) ==
  g = [s \in SUBSET S |-> IF s = {} THEN 0 ELSE v[Some(s)] + g[s \ {Some(s)}]]

SumOf(v, S) == (CHOOSE g : IsSum(g, v, S))[S]

LEMMA SomeMember == ASSUME NEW s, s # {} PROVE Some(s) \in s
  BY DEF Some

\* The recursion has a solution, found one cardinality at a time.
LEMMA SumExists ==
  ASSUME NEW S, IsFiniteSet(S), NEW v
  PROVE  \E g : IsSum(g, v, S)
<1> DEFINE Upto(k) == {s \in SUBSET S : Cardinality(s) <= k}
           Sums(g, k) == g = [s \in Upto(k) |->
                                IF s = {} THEN 0 ELSE v[Some(s)] + g[s \ {Some(s)}]]
           T == {k \in Nat : \E g : Sums(g, k)}
<1>1. \A s \in SUBSET S : IsFiniteSet(s) /\ Cardinality(s) \in Nat
  BY FS_Subset, FS_CardinalityType
<1>2. ASSUME NEW s \in SUBSET S, s # {}
      PROVE  /\ s \ {Some(s)} \in SUBSET S
             /\ Cardinality(s \ {Some(s)}) = Cardinality(s) - 1
  BY <1>1, <1>2, SomeMember, FS_RemoveElement
<1>3. 0 \in T
  <2> DEFINE g == [s \in Upto(0) |-> 0]
  <2>1. \A s \in Upto(0) : s = {}
    BY <1>1, FS_EmptySet
  <2>2. Sums(g, 0)
    BY <2>1
  <2>3. QED
    BY <2>2
<1>4. ASSUME NEW k \in Nat, k \in T PROVE k + 1 \in T
  <2>1. PICK g : Sums(g, k)
    BY <1>4
  <2> DEFINE h == [s \in Upto(k + 1) |->
                     IF s = {} THEN 0 ELSE v[Some(s)] + g[s \ {Some(s)}]]
  <2>2. ASSUME NEW s \in Upto(k + 1), s # {}
        PROVE  h[s \ {Some(s)}] = g[s \ {Some(s)}]
    <3>1. s \ {Some(s)} \in Upto(k)
      BY <1>1, <1>2, <2>2
    <3>2. s \ {Some(s)} \in Upto(k + 1)
      BY <1>1, <3>1
    <3>3. QED
      BY <2>1, <3>1, <3>2
  <2>3. Sums(h, k + 1)
    BY <2>2
  <2> HIDE DEF h, Sums
  <2>4. QED
    BY <2>3
<1>5. \A k \in Nat : k \in T
  <2> HIDE DEF T
  <2>1. QED
    BY <1>3, <1>4, SetInduction
<1>6. PICK g : Sums(g, Cardinality(S))
  BY <1>1, <1>5
<1>7. Upto(Cardinality(S)) = SUBSET S
  BY <1>1, FS_Subset
<1>8. QED
  BY <1>6, <1>7 DEF IsSum

\* It has one solution, also for values that differ outside the set, so that
\* the sum over a subset is the same within any set.
LEMMA SumUnique ==
  ASSUME NEW S, IsFiniteSet(S), NEW T \in SUBSET S, NEW v, NEW w,
         \A x \in T : v[x] = w[x],
         NEW g, IsSum(g, v, S), NEW h, IsSum(h, w, T)
  PROVE  \A s \in SUBSET T : g[s] = h[s]
<1> DEFINE N == {k \in Nat : \A s \in SUBSET T : Cardinality(s) = k => g[s] = h[s]}
<1>1. \A s \in SUBSET T : IsFiniteSet(s) /\ Cardinality(s) \in Nat
  BY FS_Subset, FS_CardinalityType
<1>2. 0 \in N
  BY <1>1, FS_EmptySet DEF IsSum
<1>3. ASSUME NEW k \in Nat, k \in N PROVE k + 1 \in N
  <2>1. SUFFICES ASSUME NEW s \in SUBSET T, Cardinality(s) = k + 1 PROVE g[s] = h[s]
    OBVIOUS
  <2>2. s # {}
    BY <2>1, FS_EmptySet
  <2> DEFINE r == s \ {Some(s)}
  <2>3. Some(s) \in s /\ r \in SUBSET T /\ Cardinality(r) = k
    <3>1. Some(s) \in s /\ IsFiniteSet(s)
      BY <1>1, <2>2, SomeMember
    <3>2. Cardinality(r) = Cardinality(s) - 1
      BY <3>1, FS_RemoveElement
    <3>3. QED
      BY <2>1, <3>1, <3>2
  <2>4. g[r] = h[r]
    BY <1>3, <2>3
  <2>5. g[s] = v[Some(s)] + g[r]
    BY <2>2 DEF IsSum
  <2>6. h[s] = w[Some(s)] + h[r]
    BY <2>2 DEF IsSum
  <2>7. QED
    BY <2>3, <2>4, <2>5, <2>6
<1>4. \A k \in Nat : k \in N
  <2> HIDE DEF N
  <2>1. QED
    BY <1>2, <1>3, SetInduction
<1>5. QED
  BY <1>1, <1>4

\* Any solution of the recursion is the sum.
LEMMA SumIs ==
  ASSUME NEW S, IsFiniteSet(S), NEW T \in SUBSET S, NEW v, NEW w,
         \A x \in T : v[x] = w[x], NEW g, IsSum(g, v, S)
  PROVE  g[T] = SumOf(w, T)
<1>1. IsFiniteSet(T)
  BY FS_Subset
<1> DEFINE h == CHOOSE h : IsSum(h, w, T)
<1>2. IsSum(h, w, T)
  BY <1>1, SumExists
<1> HIDE DEF h
<1>3. g[T] = h[T]
  BY <1>2, SumUnique
<1>4. QED
  BY <1>3 DEF SumOf, h

LEMMA SumEmpty == ASSUME NEW v PROVE SumOf(v, {}) = 0
<1> DEFINE g == CHOOSE g : IsSum(g, v, {})
<1>1. IsSum(g, v, {})
  BY FS_EmptySet, SumExists
<1> HIDE DEF g
<1>2. g[{}] = 0
  BY <1>1 DEF IsSum
<1>3. QED
  BY <1>2 DEF SumOf, g

\* The sum over a set is that of any of its elements and of the rest.
LEMMA SumExchange ==
  ASSUME NEW S, IsFiniteSet(S), NEW v, \A x \in S : v[x] \in Int,
         NEW g, IsSum(g, v, S)
  PROVE  \A s \in SUBSET S : g[s] \in Int /\ \A x \in s : g[s] = v[x] + g[s \ {x}]
<1> DEFINE Exchange(s) == g[s] \in Int /\ \A x \in s : g[s] = v[x] + g[s \ {x}]
           N == {k \in Nat : \A s \in SUBSET S : Cardinality(s) = k => Exchange(s)}
<1>1. \A s \in SUBSET S : IsFiniteSet(s) /\ Cardinality(s) \in Nat
  BY FS_Subset, FS_CardinalityType
<1>2. 0 \in N
  <2>1. SUFFICES ASSUME NEW s \in SUBSET S, Cardinality(s) = 0 PROVE Exchange(s)
    OBVIOUS
  <2>2. s = {}
    BY <1>1, <2>1, FS_EmptySet
  <2>3. g[s] = 0
    BY <2>2 DEF IsSum
  <2>4. QED
    BY <2>2, <2>3
<1>3. ASSUME NEW k \in Nat, \A m \in 0..k : m \in N PROVE k + 1 \in N
  <2>1. SUFFICES ASSUME NEW s \in SUBSET S, Cardinality(s) = k + 1 PROVE Exchange(s)
    OBVIOUS
  <2>2. s # {}
    BY <2>1, FS_EmptySet
  <2> DEFINE y == Some(s)
  <2>3. y \in s
    BY <2>2, SomeMember
  <2>4. g[s] = v[y] + g[s \ {y}]
    BY <2>2 DEF IsSum
  <2> HIDE DEF y
  <2>5. ASSUME NEW z \in s
        PROVE  s \ {z} \in SUBSET S /\ Cardinality(s \ {z}) = k
    <3>1. Cardinality(s \ {z}) = Cardinality(s) - 1
      BY <1>1, FS_RemoveElement
    <3>2. QED
      BY <2>1, <3>1
  <2>6. \A z \in s : Exchange(s \ {z})
    BY <1>3, <2>5
  <2>7. g[s] \in Int
    <3>1. g[s \ {y}] \in Int /\ v[y] \in Int
      BY <2>3, <2>6
    <3>2. QED
      BY <2>4, <3>1
  <2>8. ASSUME NEW x \in s PROVE g[s] = v[x] + g[s \ {x}]
    <3>1. CASE x = y
      BY <2>4, <3>1
    <3>2. CASE x # y
      <4> DEFINE r == s \ {x, y}
      <4>1. (s \ {y}) \ {x} = r /\ (s \ {x}) \ {y} = r /\ x \in s \ {y} /\ y \in s \ {x}
        BY <2>3, <3>2
      <4>2. g[s \ {y}] = v[x] + g[r] /\ g[s \ {x}] = v[y] + g[r]
        BY <2>3, <2>6, <4>1
      <4>3. r \in SUBSET S /\ Cardinality(r) \in 0..k
        <5>1. Cardinality(r) <= Cardinality(s \ {x})
          BY <1>1, <2>5, FS_Subset
        <5>2. QED
          BY <1>1, <2>5, <5>1
      <4>4. g[r] \in Int
        BY <1>3, <4>3
      <4>5. v[x] \in Int /\ v[y] \in Int
        BY <2>3
      <4> HIDE DEF r
      <4>6. QED
        BY <2>4, <4>2, <4>4, <4>5
    <3>3. QED
      BY <3>1, <3>2
  <2>9. QED
    BY <2>7, <2>8
<1>4. \A k \in Nat : k \in N
  <2>1. ASSUME NEW n \in Nat, \A m \in 0..(n-1) : m \in N PROVE n \in N
    <3>1. CASE n = 0
      BY <1>2, <3>1
    <3>2. CASE n # 0
      <4>1. n - 1 \in Nat /\ n = (n - 1) + 1
        BY <3>2
      <4> HIDE DEF N
      <4>2. (n - 1) + 1 \in N
        BY <1>3, <2>1, <4>1
      <4>3. QED
        BY <4>1, <4>2
    <3>3. QED
      BY <3>1, <3>2
  <2> HIDE DEF N
  <2>2. QED
    BY <2>1, StrongInduction
<1>5. QED
  BY <1>1, <1>4

LEMMA SumAdd ==
  ASSUME NEW S, IsFiniteSet(S), NEW x, x \notin S, NEW v,
         \A y \in S \cup {x} : v[y] \in Int
  PROVE  /\ SumOf(v, S) \in Int
         /\ SumOf(v, S \cup {x}) = SumOf(v, S) + v[x]
<1> DEFINE X == S \cup {x}
           g == CHOOSE g : IsSum(g, v, X)
<1>1. IsFiniteSet(X)
  BY FS_AddElement
<1>2. IsSum(g, v, X)
  BY <1>1, SumExists
<1>3. X \ {x} = S /\ S \in SUBSET X /\ X \in SUBSET X /\ x \in X
  OBVIOUS
<1> HIDE DEF X, g
<1>4. g[X] = SumOf(v, X) /\ g[S] = SumOf(v, S)
  BY <1>1, <1>2, <1>3, SumIs
<1>5. \A y \in X : v[y] \in Int
  BY DEF X
<1>6. g[S] \in Int /\ g[X] = v[x] + g[S]
  BY <1>1, <1>2, <1>3, <1>5, SumExchange
<1>7. v[x] \in Int
  BY <1>3, <1>5
<1>8. QED
  BY <1>4, <1>6, <1>7 DEF X

\* A sum depends on the values over its set only.
LEMMA SumSame ==
  ASSUME NEW S, IsFiniteSet(S), NEW v, NEW w, \A x \in S : v[x] = w[x]
  PROVE  SumOf(v, S) = SumOf(w, S)
<1> DEFINE g == CHOOSE g : IsSum(g, v, S)
<1>1. IsSum(g, v, S)
  BY SumExists
<1> HIDE DEF g
<1>2. g[S] = SumOf(v, S) /\ g[S] = SumOf(w, S)
  BY <1>1, SumIs
<1>3. QED
  BY <1>2

\* What holds of the empty set, and of a subset with one more element when it
\* holds of the subset, holds of a finite set.
LEMMA FiniteSetInduction ==
  ASSUME NEW S, IsFiniteSet(S), NEW C, {} \in C,
         \A T \in SUBSET S : \A x \in S \ T : T \in C => T \cup {x} \in C
  PROVE  S \in C
<1> DEFINE N == {k \in Nat : \A T \in SUBSET S : Cardinality(T) = k => T \in C}
<1>1. \A T \in SUBSET S : IsFiniteSet(T) /\ Cardinality(T) \in Nat
  BY FS_Subset, FS_CardinalityType
<1>2. 0 \in N
  BY <1>1, FS_EmptySet
<1>3. ASSUME NEW k \in Nat, k \in N PROVE k + 1 \in N
  <2>1. SUFFICES ASSUME NEW T \in SUBSET S, Cardinality(T) = k + 1 PROVE T \in C
    OBVIOUS
  <2>2. T # {}
    <3>1. Cardinality({}) = 0
      BY FS_EmptySet
    <3>2. SUFFICES ASSUME T = {} PROVE FALSE
      OBVIOUS
    <3>3. Cardinality(T) = 0
      BY ONLY <3>1, <3>2
    <3>4. QED
      BY <2>1, <3>3
  <2> DEFINE x == Some(T)
             U == T \ {x}
  <2>3. x \in T
    BY <2>2, SomeMember
  <2> HIDE DEF x
  <2>4. U \in SUBSET S /\ x \in S \ U /\ U \cup {x} = T
    BY <2>3
  <2>5. Cardinality(U) = k
    <3>1. Cardinality(U) = Cardinality(T) - 1
      BY <1>1, <2>3, FS_RemoveElement
    <3>2. QED
      BY <2>1, <3>1
  <2> HIDE DEF U
  <2>6. U \in C
    BY <1>3, <2>4, <2>5
  <2>7. QED
    BY <2>4, <2>6
<1>4. \A k \in Nat : k \in N
  <2> HIDE DEF N
  <2>1. QED
    BY <1>2, <1>3, SetInduction
<1>5. S \in SUBSET S /\ Cardinality(S) \in N
  BY <1>1, <1>4
<1>6. QED
  BY <1>5

\* A sum of integers is one, and of numbers that are not negative neither is it.
LEMMA SumInt ==
  ASSUME NEW S, IsFiniteSet(S), NEW v, \A x \in S : v[x] \in Int
  PROVE  SumOf(v, S) \in Int
<1> DEFINE C == {T \in SUBSET S : SumOf(v, T) \in Int}
<1>1. {} \in C
  BY SumEmpty
<1>2. ASSUME NEW T \in SUBSET S, NEW x \in S \ T, T \in C PROVE T \cup {x} \in C
  <2>1. IsFiniteSet(T)
    BY FS_Subset
  <2>2. SumOf(v, T \cup {x}) = SumOf(v, T) + v[x] /\ SumOf(v, T) \in Int
    BY <2>1, SumAdd
  <2>3. QED
    BY <2>2
<1> HIDE DEF C
<1>3. S \in C
  BY <1>1, <1>2, FiniteSetInduction
<1>4. QED
  BY <1>3 DEF C

LEMMA SumNat ==
  ASSUME NEW S, IsFiniteSet(S), NEW v, \A x \in S : v[x] \in Nat
  PROVE  SumOf(v, S) \in Nat
<1> DEFINE C == {T \in SUBSET S : SumOf(v, T) \in Nat}
<1>1. {} \in C
  BY SumEmpty
<1>2. ASSUME NEW T \in SUBSET S, NEW x \in S \ T, T \in C PROVE T \cup {x} \in C
  <2>1. IsFiniteSet(T)
    BY FS_Subset
  <2>2. SumOf(v, T \cup {x}) = SumOf(v, T) + v[x]
    BY <2>1, SumAdd
  <2>3. QED
    BY <1>2, <2>2
<1> HIDE DEF C
<1>3. S \in C
  BY <1>1, <1>2, FiniteSetInduction
<1>4. QED
  BY <1>3 DEF C

\* f names each element of T once by an element of S.
Renames(f, S, T) ==
  /\ \A x \in S : f[x] \in T
  /\ \A x, y \in S : f[x] = f[y] => x = y
  /\ \A z \in T : \E x \in S : f[x] = z

\* The sum over a set is that over any set that names its elements.
LEMMA SumRenamed ==
  ASSUME NEW S, IsFiniteSet(S), NEW T, NEW f, Renames(f, S, T),
         NEW v, \A z \in T : v[z] \in Int,
         NEW w, \A x \in S : w[x] = v[f[x]]
  PROVE  IsFiniteSet(T) /\ SumOf(w, S) = SumOf(v, T)
<1> DEFINE Image(U) == {f[x] : x \in U}
           C == {U \in SUBSET S : IsFiniteSet(Image(U)) /\ SumOf(w, U) = SumOf(v, Image(U))}
<1>1. {} \in C
  <2>1. Image({}) = {}
    OBVIOUS
  <2> HIDE DEF Image
  <2>2. QED
    BY <2>1, SumEmpty, FS_EmptySet
<1>2. ASSUME NEW U \in SUBSET S, NEW x \in S \ U, U \in C PROVE U \cup {x} \in C
  <2>1. IsFiniteSet(U) /\ IsFiniteSet(Image(U)) /\ SumOf(w, U) = SumOf(v, Image(U))
    BY <1>2, FS_Subset
  <2>2. Image(U \cup {x}) = Image(U) \cup {f[x]}
    OBVIOUS
  <2>3. f[x] \notin Image(U) /\ Image(U \cup {x}) \subseteq T
    BY DEF Renames
  <2>4. f[x] \in T /\ w[x] = v[f[x]]
    BY DEF Renames
  <2>5. \A y \in U \cup {x} : w[y] \in Int
    BY DEF Renames
  <2> HIDE DEF Image
  <2>6. SumOf(w, U \cup {x}) = SumOf(w, U) + w[x]
    BY <2>1, <2>5, SumAdd
  <2>7. \A z \in Image(U) \cup {f[x]} : v[z] \in Int
    BY <2>2, <2>3
  <2>8. SumOf(v, Image(U) \cup {f[x]}) = SumOf(v, Image(U)) + v[f[x]]
    BY <2>1, <2>3, <2>7, SumAdd
  <2>9. IsFiniteSet(Image(U) \cup {f[x]})
    BY <2>1, FS_AddElement
  <2>10. QED
    BY <2>1, <2>2, <2>4, <2>6, <2>8, <2>9
<1>3. S \in C
  <2> HIDE DEF C
  <2>1. QED
    BY <1>1, <1>2, FiniteSetInduction
<1>4. Image(S) = T
  BY DEF Renames
<1>5. QED
  BY <1>3, <1>4

\* Elements of value 0 add nothing.
LEMMA SumZeros ==
  ASSUME NEW T, IsFiniteSet(T), NEW S \in SUBSET T,
         NEW v, \A x \in T : v[x] \in Int, \A x \in T \ S : v[x] = 0
  PROVE  SumOf(v, T) = SumOf(v, S)
<1> DEFINE R == T \ S
           C == {U \in SUBSET R : SumOf(v, S \cup U) = SumOf(v, S)}
<1>1. {} \in C
  <2>1. S \cup {} = S
    OBVIOUS
  <2>2. QED
    BY <2>1
<1>2. ASSUME NEW U \in SUBSET R, NEW x \in R \ U, U \in C PROVE U \cup {x} \in C
  <2> DEFINE V == S \cup U
  <2>1. V \subseteq T /\ x \notin V /\ x \in T /\ v[x] = 0 /\ S \cup (U \cup {x}) = V \cup {x}
    OBVIOUS
  <2>2. SumOf(v, V) = SumOf(v, S)
    BY <1>2
  <2> HIDE DEF V
  <2>3. IsFiniteSet(V)
    BY <2>1, FS_Subset
  <2>4. SumOf(v, V) \in Int /\ SumOf(v, V \cup {x}) = SumOf(v, V) + v[x]
    BY <2>1, <2>3, SumAdd
  <2>5. SumOf(v, V \cup {x}) = SumOf(v, S)
    BY <2>1, <2>2, <2>4
  <2>6. SumOf(v, S \cup (U \cup {x})) = SumOf(v, V \cup {x})
    BY ONLY <2>1, Zenon
  <2>7. SumOf(v, S \cup (U \cup {x})) = SumOf(v, S)
    BY <2>5, <2>6, Zenon
  <2>8. QED
    BY <2>7
<1>3. IsFiniteSet(R) /\ S \cup R = T
  BY FS_Subset
<1>4. R \in C
  <2> HIDE DEF C, R
  <2>1. QED
    BY <1>1, <1>2, <1>3, FiniteSetInduction
<1>5. QED
  BY <1>3, <1>4

\* Sums are subtracted element by element.
LEMMA SumMinus ==
  ASSUME NEW S, IsFiniteSet(S), NEW v, NEW w, NEW d,
         \A x \in S : v[x] \in Int /\ w[x] \in Int /\ d[x] = v[x] - w[x]
  PROVE  SumOf(d, S) = SumOf(v, S) - SumOf(w, S)
<1> DEFINE C == {T \in SUBSET S : SumOf(d, T) = SumOf(v, T) - SumOf(w, T)}
<1>1. {} \in C
  BY SumEmpty
<1>2. ASSUME NEW T \in SUBSET S, NEW x \in S \ T, T \in C PROVE T \cup {x} \in C
  <2>1. IsFiniteSet(T)
    BY FS_Subset
  <2>2. \A y \in T \cup {x} : v[y] \in Int /\ w[y] \in Int /\ d[y] \in Int
    OBVIOUS
  <2>3. SumOf(v, T) \in Int /\ SumOf(v, T \cup {x}) = SumOf(v, T) + v[x]
    BY <2>1, <2>2, SumAdd
  <2>4. SumOf(w, T) \in Int /\ SumOf(w, T \cup {x}) = SumOf(w, T) + w[x]
    BY <2>1, <2>2, SumAdd
  <2>5. SumOf(d, T) \in Int /\ SumOf(d, T \cup {x}) = SumOf(d, T) + d[x]
    BY <2>1, <2>2, SumAdd
  <2>6. v[x] \in Int /\ w[x] \in Int /\ d[x] = v[x] - w[x]
    OBVIOUS
  <2>7. QED
    BY <1>2, <2>3, <2>4, <2>5, <2>6
<1> HIDE DEF C
<1>3. S \in C
  BY <1>1, <1>2, FiniteSetInduction
<1>4. QED
  BY <1>3 DEF C

-----------------------------------------------------------------------------
\* The loop of FlattenSeq.
FlattenRow(before, seqs, i) == IF i = 1 THEN seqs[i] ELSE before \o seqs[i]
IsFlatten(flat, seqs, k) ==
  flat = [i \in 1..k |-> FlattenRow(flat[i - 1], seqs, i)]

LEMMA FlattenExists ==
  ASSUME NEW seqs
  PROVE  \A k \in Nat : \E flat : IsFlatten(flat, seqs, k)
<1> DEFINE T == {k \in Nat : \E flat : IsFlatten(flat, seqs, k)}
<1>1. 0 \in T
  <2> DEFINE flat == [i \in 1..0 |-> seqs[i]]
  <2>1. IsFlatten(flat, seqs, 0)
    BY DEF IsFlatten
  <2> HIDE DEF flat
  <2>2. QED
    BY <2>1
<1>2. ASSUME NEW k \in Nat, k \in T PROVE k + 1 \in T
  <2>1. PICK flat : IsFlatten(flat, seqs, k)
    BY <1>2
  <2> DEFINE next == [i \in 1..(k + 1) |-> FlattenRow(flat[i - 1], seqs, i)]
  <2>2. \A i \in 1..k : next[i] = flat[i]
    BY <2>1 DEF IsFlatten
  <2>3. ASSUME NEW i \in 1..(k + 1)
        PROVE  FlattenRow(next[i - 1], seqs, i) = FlattenRow(flat[i - 1], seqs, i)
    <3>1. CASE i = 1
      BY <3>1 DEF FlattenRow
    <3>2. CASE i # 1
      <4>1. i - 1 \in 1..k
        BY <3>2
      <4>2. next[i - 1] = flat[i - 1]
        BY <2>2, <4>1
      <4>3. QED
        BY <4>2
    <3>3. QED
      BY <3>1, <3>2
  <2>4. IsFlatten(next, seqs, k + 1)
    BY <2>3 DEF IsFlatten
  <2> HIDE DEF next
  <2>5. QED
    BY <2>4
<1>3. \A k \in Nat : k \in T
  <2> HIDE DEF T
  <2>1. QED
    BY <1>1, <1>2, SetInduction
<1>4. QED
  BY <1>3
=============================================================================
