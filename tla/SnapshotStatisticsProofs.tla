------------------------ MODULE SnapshotStatisticsProofs ------------------------
(***************************************************************************)
(* The statistics of mprofile/__init__.py are right for any tracebacks,    *)
(* sizes and filters and any number of traces.                             *)
(*                                                                         *)
(* The loops are recursive functions, so each is first shown to exist.     *)
(* Sorting lists every group once because the keys are distinct and their  *)
(* order is total; grouping is characterised by the places, the frames of  *)
(* the traces, that stand in each group, and from that the four properties *)
(* follow by reasoning about sums over finite sets.                        *)
(***************************************************************************)
EXTENDS SnapshotStatistics, DataInduction

LEMMA SequencesEqual ==
  ASSUME NEW S, NEW s \in Seq(S), NEW t \in Seq(S), Len(s) = Len(t),
         \A i \in 1..Len(s) : s[i] = t[i]
  PROVE  s = t
  OBVIOUS

Joins(u, s, t) ==
  /\ Len(u) = Len(s) + Len(t)
  /\ \A i \in 1..Len(s) : u[i] = s[i]
  /\ \A i \in 1..Len(t) : u[Len(s) + i] = t[i]

LEMMA ConcatIs ==
  ASSUME NEW S, NEW s \in Seq(S), NEW t \in Seq(S)
  PROVE  s \o t \in Seq(S) /\ Joins(s \o t, s, t)
<1>1. s \o t \in Seq(S)
  OBVIOUS
<1>2. Len(s \o t) = Len(s) + Len(t)
  OBVIOUS
<1>3. ASSUME NEW i \in 1..Len(s) PROVE (s \o t)[i] = s[i]
  OBVIOUS
<1>4. ASSUME NEW i \in 1..Len(t) PROVE (s \o t)[Len(s) + i] = t[i]
  <2> DEFINE k == Len(s) + i
  <2>1. k \in 1..(Len(s) + Len(t)) /\ ~(k <= Len(s)) /\ k - Len(s) = i
    OBVIOUS
  <2> HIDE DEF k
  <2>2. (s \o t)[k] = t[k - Len(s)]
    BY <2>1
  <2>3. QED
    BY <2>1, <2>2 DEF k
<1>5. QED
  BY <1>1, <1>2, <1>3, <1>4 DEF Joins

-----------------------------------------------------------------------------
\* Python's order of tuples.

LEMMA TupleIrreflexive == ASSUME NEW s \in Seq(Int) PROVE ~TupleLess(s, s)
  BY DEF TupleLess

LEMMA TupleTransitive ==
  ASSUME NEW s \in Seq(Int), NEW t \in Seq(Int), NEW u \in Seq(Int),
         TupleLess(s, t), TupleLess(t, u)
  PROVE  TupleLess(s, u)
<1>1. PICK i \in 1..Len(t) : /\ \A j \in 1..i-1 : j <= Len(s) /\ s[j] = t[j]
                             /\ i > Len(s) \/ s[i] < t[i]
  BY DEF TupleLess
<1>2. PICK k \in 1..Len(u) : /\ \A j \in 1..k-1 : j <= Len(t) /\ t[j] = u[j]
                             /\ k > Len(t) \/ t[k] < u[k]
  BY DEF TupleLess
<1>3. CASE i < k
  <2>1. \A j \in 1..i-1 : j <= Len(s) /\ s[j] = u[j]
    BY <1>1, <1>2, <1>3
  <2>2. i \in 1..Len(u) /\ t[i] = u[i]
    BY <1>2, <1>3
  <2>3. QED
    BY <1>1, <2>1, <2>2 DEF TupleLess
<1>4. CASE i = k
  <2>1. \A j \in 1..i-1 : j <= Len(s) /\ s[j] = u[j]
    BY <1>1, <1>2, <1>4
  <2>2. i > Len(s) \/ s[i] < u[i]
    <3>1. t[i] < u[i] /\ t[i] \in Int /\ u[i] \in Int
      BY <1>2, <1>4
    <3>2. CASE i <= Len(s)
      <4>1. s[i] < t[i] /\ s[i] \in Int
        BY <1>1, <3>2
      <4>2. QED
        BY <3>1, <4>1
    <3>3. QED
      BY <3>2
  <2>3. QED
    BY <1>2, <1>4, <2>1, <2>2 DEF TupleLess
<1>5. CASE k < i
  <2>1. \A j \in 1..k-1 : j <= Len(s) /\ s[j] = u[j]
    BY <1>1, <1>2, <1>5
  <2>2. k <= Len(s) /\ s[k] = t[k] /\ k <= Len(t)
    BY <1>1, <1>5
  <2>3. s[k] < u[k]
    BY <1>2, <2>2
  <2>4. QED
    BY <2>1, <2>3 DEF TupleLess
<1>6. QED
  BY <1>3, <1>4, <1>5

LEMMA TupleTotal ==
  ASSUME NEW s \in Seq(Int), NEW t \in Seq(Int), s # t
  PROVE  TupleLess(s, t) \/ TupleLess(t, s)
<1> DEFINE Differ == {i \in Nat : i > 0 /\ (i > Len(s) \/ i > Len(t) \/ s[i] # t[i])}
<1>1. Len(s) + 1 \in Differ
  OBVIOUS
<1>2. PICK m \in Differ : \A i \in Differ : m <= i
  <2>1. Differ \in SUBSET Nat /\ Differ # {}
    BY <1>1
  <2> HIDE DEF Differ
  <2>2. QED
    BY <2>1, LeastMember
<1>3. \A j \in 1..m-1 : j <= Len(s) /\ j <= Len(t) /\ s[j] = t[j]
  <2>1. SUFFICES ASSUME NEW j \in 1..m-1 PROVE j \notin Differ
    OBVIOUS
  <2>2. QED
    BY <1>2
<1>4. CASE m > Len(s) /\ m > Len(t)
  <2>1. Len(s) = m - 1 /\ Len(t) = m - 1
    <3>1. Len(s) >= m - 1
      <4>1. CASE m = 1
        BY <4>1
      <4>2. CASE m # 1
        <5>1. m - 1 \in 1..m-1
          BY <4>2
        <5>2. QED
          BY <1>3, <5>1
      <4>3. QED
        BY <4>1, <4>2
    <3>2. Len(t) >= m - 1
      <4>1. CASE m = 1
        BY <4>1
      <4>2. CASE m # 1
        <5>1. m - 1 \in 1..m-1
          BY <4>2
        <5>2. QED
          BY <1>3, <5>1
      <4>3. QED
        BY <4>1, <4>2
    <3>3. QED
      BY <1>4, <3>1, <3>2
  <2>2. s = t
    BY <1>3, <2>1
  <2>3. QED
    BY <2>2
<1>5. CASE m > Len(s) /\ m <= Len(t)
  BY <1>3, <1>5 DEF TupleLess
<1>6. CASE m <= Len(s) /\ m > Len(t)
  BY <1>3, <1>6 DEF TupleLess
<1>7. CASE m <= Len(s) /\ m <= Len(t)
  <2>1. s[m] \in Int /\ t[m] \in Int /\ s[m] # t[m]
    BY <1>7
  <2>2. CASE s[m] < t[m]
    BY <1>3, <1>7, <2>2 DEF TupleLess
  <2>3. CASE t[m] < s[m]
    <3>1. m \in 1..Len(s) /\ \A j \in 1..m-1 : j <= Len(t) /\ t[j] = s[j]
      BY <1>3, <1>7
    <3>2. QED
      BY <2>3, <3>1 DEF TupleLess
  <2>4. QED
    BY <2>1, <2>2, <2>3
<1>8. QED
  BY <1>4, <1>5, <1>6, <1>7

-----------------------------------------------------------------------------
\* list.sort: elements with distinct keys are listed once each, since as many
\* have a greater key as the list has places before them.

Above(S, key, x) == {y \in S : TupleLess(key[x], key[y])}

DistinctKeys(S, key) ==
  /\ \A x \in S : key[x] \in Seq(Int)
  /\ \A x, y \in S : key[x] = key[y] => x = y

LEMMA AboveOrdered ==
  ASSUME NEW S, IsFiniteSet(S), NEW key, DistinctKeys(S, key),
         NEW x \in S, NEW y \in S, TupleLess(key[x], key[y])
  PROVE  Cardinality(Above(S, key, y)) < Cardinality(Above(S, key, x))
<1>1. Above(S, key, y) \subseteq Above(S, key, x)
  BY TupleTransitive DEF Above, DistinctKeys
<1>2. y \in Above(S, key, x) /\ y \notin Above(S, key, y)
  BY TupleIrreflexive DEF Above, DistinctKeys
<1>3. IsFiniteSet(Above(S, key, x)) /\ IsFiniteSet(Above(S, key, y))
  BY FS_Subset DEF Above
<1> DEFINE A == Above(S, key, x)
           B == Above(S, key, y)
<1>4. B \in SUBSET A /\ B # A /\ IsFiniteSet(A) /\ IsFiniteSet(B)
  BY <1>1, <1>2, <1>3
<1> HIDE DEF A, B
<1>5. Cardinality(B) <= Cardinality(A) /\ (Cardinality(A) = Cardinality(B) => A = B)
  BY <1>4, FS_Subset
<1>6. Cardinality(A) \in Nat /\ Cardinality(B) \in Nat
  BY <1>4, FS_CardinalityType
<1>7. Cardinality(B) < Cardinality(A)
  BY <1>4, <1>5, <1>6
<1>8. QED
  BY <1>7 DEF A, B

LEMMA RanksDiffer ==
  ASSUME NEW S, IsFiniteSet(S), NEW key, DistinctKeys(S, key),
         NEW x \in S, NEW y \in S,
         Cardinality(Above(S, key, x)) = Cardinality(Above(S, key, y))
  PROVE  x = y
<1>1. SUFFICES ASSUME x # y PROVE FALSE
  OBVIOUS
<1>2. TupleLess(key[x], key[y]) \/ TupleLess(key[y], key[x])
  BY <1>1, TupleTotal DEF DistinctKeys
<1>3. Cardinality(Above(S, key, x)) \in Nat
  <2>1. IsFiniteSet(Above(S, key, x))
    BY FS_Subset DEF Above
  <2>2. QED
    BY <2>1, FS_CardinalityType
<1>4. QED
  BY <1>2, <1>3, AboveOrdered

LEMMA RankIn ==
  ASSUME NEW S, IsFiniteSet(S), NEW key, DistinctKeys(S, key), NEW x \in S
  PROVE  Cardinality(Above(S, key, x)) \in 0..(Cardinality(S) - 1)
<1> DEFINE A == Above(S, key, x)
<1>1. A \subseteq S \ {x}
  BY TupleIrreflexive DEF Above, DistinctKeys
<1>2. IsFiniteSet(S \ {x}) /\ Cardinality(S \ {x}) = Cardinality(S) - 1
  BY FS_RemoveElement
<1> HIDE DEF A
<1>3. IsFiniteSet(A) /\ Cardinality(A) <= Cardinality(S \ {x})
  BY <1>1, <1>2, FS_Subset
<1>4. Cardinality(A) \in Nat /\ Cardinality(S) \in Nat
  BY <1>3, FS_CardinalityType
<1>5. QED
  BY <1>2, <1>3, <1>4 DEF A

LEMMA RankTaken ==
  ASSUME NEW S, IsFiniteSet(S), NEW key, DistinctKeys(S, key),
         NEW n \in 1..Cardinality(S)
  PROVE  \E x \in S : Cardinality(Above(S, key, x)) = n - 1
<1> DEFINE T == 0..(Cardinality(S) - 1)
           f == [x \in S |-> Cardinality(Above(S, key, x))]
<1>1. Cardinality(S) \in Nat
  BY FS_CardinalityType
<1>2. IsFiniteSet(T) /\ Cardinality(T) = Cardinality(S)
  <2> DEFINE last == Cardinality(S) - 1
  <2>1. last \in Int /\ last + 1 = Cardinality(S) /\ ~(0 > last + 1)
    BY <1>1
  <2> HIDE DEF last
  <2>2. IsFiniteSet(0..last) /\ Cardinality(0..last) = last + 1
    BY <2>1, FS_Interval
  <2>3. QED
    BY <2>1, <2>2 DEF last
<1>3. f \in [S -> T] /\ \A x, y \in S : f[x] = f[y] => x = y
  BY RankIn, RanksDiffer
<1> HIDE DEF T, f
<1>4. f \in Injection(S, T)
  BY <1>3 DEF Injection, IsInjective
<1>5. f \in Surjection(S, T)
  BY <1>2, <1>4, FS_Injection
<1>6. \A z \in T : \E x \in S : f[x] = z
  BY <1>5 DEF Surjection
<1>7. n - 1 \in T
  BY <1>1 DEF T
<1>8. QED
  BY <1>6, <1>7 DEF f

LEMMA SortedLists ==
  ASSUME NEW S, IsFiniteSet(S), NEW key, DistinctKeys(S, key)
  PROVE  /\ DOMAIN Sorted(S, key) = 1..Cardinality(S)
         /\ Len(Sorted(S, key)) = Cardinality(S)
         /\ Renames(Sorted(S, key), 1..Cardinality(S), S)
<1> DEFINE f == Sorted(S, key)
           Ranked(n) == CHOOSE x \in S : Cardinality(Above(S, key, x)) = n - 1
<1>1. Cardinality(S) \in Nat
  BY FS_CardinalityType
<1>2. f = [n \in 1..Cardinality(S) |-> Ranked(n)]
  BY DEF Sorted, Above
<1>3. ASSUME NEW n \in 1..Cardinality(S)
      PROVE  Ranked(n) \in S /\ Cardinality(Above(S, key, Ranked(n))) = n - 1
  BY RankTaken
<1> HIDE DEF f, Ranked
<1>4. DOMAIN f = 1..Cardinality(S) /\ \A n \in 1..Cardinality(S) : f[n] = Ranked(n)
  BY <1>2
<1>5. \A n, m \in 1..Cardinality(S) : f[n] = f[m] => n = m
  BY <1>1, <1>3, <1>4
<1>6. ASSUME NEW x \in S PROVE \E n \in 1..Cardinality(S) : f[n] = x
  <2> DEFINE n == Cardinality(Above(S, key, x)) + 1
  <2>1. n \in 1..Cardinality(S) /\ Cardinality(Above(S, key, x)) = n - 1
    BY <1>1, RankIn
  <2> HIDE DEF n
  <2>2. f[n] \in S /\ Cardinality(Above(S, key, f[n])) = Cardinality(Above(S, key, x))
    BY <1>3, <1>4, <2>1
  <2>3. f[n] = x
    BY <2>2, RanksDiffer
  <2>4. QED
    BY <2>1, <2>3
<1>7. Renames(f, 1..Cardinality(S), S)
  BY <1>3, <1>4, <1>5, <1>6 DEF Renames
<1>8. Len(f) = Cardinality(S)
  BY <1>1, <1>2
<1>9. QED
  BY <1>4, <1>7, <1>8 DEF f

-----------------------------------------------------------------------------
\* Grouping.  K names the group of each place of P and Z its size: stats
\* accounts for P when it has the groups of its places, with their sums.

At(P, K, key) == {p \in P : K[p] = key}

GroupOf(P, K, Z, key) ==
  [size |-> SumOf(Z, At(P, K, key)), count |-> Cardinality(At(P, K, key))]

KeysOf(P, K) == {K[p] : p \in P}

Accounts(stats, P, K, Z) ==
  /\ IsFiniteSet(P)
  /\ stats = [key \in KeysOf(P, K) |-> GroupOf(P, K, Z, key)]

LEMMA NoneAccounts == ASSUME NEW K, NEW Z PROVE Accounts(<<>>, {}, K, Z)
<1>1. KeysOf({}, K) = {}
  BY DEF KeysOf
<1>2. <<>> = [key \in {} |-> GroupOf({}, K, Z, key)]
  OBVIOUS
<1>3. QED
  BY <1>1, <1>2, FS_EmptySet DEF Accounts

\* A group that stats lacks is one without places.
LEMMA StatisticIs ==
  ASSUME NEW stats, NEW P, NEW K, NEW Z, Accounts(stats, P, K, Z), NEW key
  PROVE  StatisticOf(stats, key) = GroupOf(P, K, Z, key)
<1>1. CASE key \in KeysOf(P, K)
  BY <1>1 DEF Accounts, StatisticOf
<1>2. CASE key \notin KeysOf(P, K)
  <2>1. At(P, K, key) = {}
    BY <1>2 DEF At, KeysOf
  <2>2. SumOf(Z, {}) = 0 /\ Cardinality({}) = 0
    BY SumEmpty, FS_EmptySet
  <2>3. GroupOf(P, K, Z, key) = NoStatistic
    BY <2>1, <2>2 DEF GroupOf, NoStatistic
  <2>4. QED
    BY <1>2, <2>3 DEF Accounts, StatisticOf
<1>3. QED
  BY <1>1, <1>2

LEMMA AddAccounts ==
  ASSUME NEW stats, NEW P, NEW K, NEW Z, Accounts(stats, P, K, Z),
         NEW p, p \notin P, \A q \in P \cup {p} : Z[q] \in Int,
         NEW item, item.key = K[p], item.size = Z[p]
  PROVE  Accounts(AddToGroup(stats, item), P \cup {p}, K, Z)
<1> DEFINE Q == P \cup {p}
           group == [size |-> StatisticOf(stats, item.key).size + item.size,
                     count |-> StatisticOf(stats, item.key).count + 1]
<1>1. IsFiniteSet(P) /\ stats = [key \in KeysOf(P, K) |-> GroupOf(P, K, Z, key)]
  BY DEF Accounts
<1>2. IsFiniteSet(Q)
  BY <1>1, FS_AddElement
<1>3. DOMAIN stats = KeysOf(P, K)
  BY <1>1
<1>4. KeysOf(Q, K) = DOMAIN stats \cup {item.key}
  BY <1>3 DEF KeysOf
<1>5. GroupOf(Q, K, Z, item.key) = group
  <2> DEFINE A == At(P, K, item.key)
  <2>1. At(Q, K, item.key) = A \cup {p} /\ p \notin A
    BY DEF At
  <2>2. IsFiniteSet(A)
    BY <1>1, FS_Subset DEF At
  <2>3. \A q \in A \cup {p} : Z[q] \in Int
    BY DEF At
  <2>4. StatisticOf(stats, item.key) = [size |-> SumOf(Z, A), count |-> Cardinality(A)]
    BY StatisticIs DEF GroupOf
  <2> HIDE DEF A
  <2>5. SumOf(Z, A \cup {p}) = SumOf(Z, A) + Z[p]
    BY <2>1, <2>2, <2>3, SumAdd
  <2>6. Cardinality(A \cup {p}) = Cardinality(A) + 1
    BY <2>1, <2>2, FS_AddElement
  <2>7. GroupOf(Q, K, Z, item.key)
          = [size |-> SumOf(Z, A \cup {p}), count |-> Cardinality(A \cup {p})]
    BY <2>1, Zenon DEF GroupOf
  <2>8. group = [size |-> SumOf(Z, A) + Z[p], count |-> Cardinality(A) + 1]
    BY <2>4
  <2> HIDE DEF group
  <2>9. QED
    BY <2>5, <2>6, <2>7, <2>8
<1>6. ASSUME NEW key \in DOMAIN stats, key # item.key
      PROVE  stats[key] = GroupOf(Q, K, Z, key)
  <2>1. At(Q, K, key) = At(P, K, key)
    BY <1>6 DEF At
  <2>2. GroupOf(Q, K, Z, key) = GroupOf(P, K, Z, key)
    BY <2>1, Zenon DEF GroupOf
  <2>3. QED
    BY <1>1, <1>3, <2>2
<1>7. AddToGroup(stats, item)
        = [key \in DOMAIN stats \cup {item.key} |->
             IF key = item.key THEN group ELSE stats[key]]
  BY DEF AddToGroup
<1> HIDE DEF Q, group
<1>8. AddToGroup(stats, item) = [key \in KeysOf(Q, K) |-> GroupOf(Q, K, Z, key)]
  BY <1>4, <1>5, <1>6, <1>7
<1>9. Accounts(AddToGroup(stats, item), Q, K, Z)
  BY <1>2, <1>8 DEF Accounts
<1>10. QED
  BY <1>9 DEF Q

\* The loop over the frames of a trace.
AddedRow(before, stats, items, i) == IF i = 0 THEN stats ELSE AddToGroup(before, items[i])
IsAdded(after, stats, items, n) ==
  after = [i \in 0..n |-> AddedRow(after[i-1], stats, items, i)]

LEMMA AddedExists ==
  ASSUME NEW stats, NEW items
  PROVE  \A n \in Nat : \E after : IsAdded(after, stats, items, n)
<1> DEFINE T == {n \in Nat : \E after : IsAdded(after, stats, items, n)}
<1>1. 0 \in T
  <2> DEFINE after == [i \in 0..0 |-> stats]
  <2>1. IsAdded(after, stats, items, 0)
    BY DEF IsAdded, AddedRow
  <2> HIDE DEF after
  <2>2. QED
    BY <2>1
<1>2. ASSUME NEW n \in Nat, n \in T PROVE n + 1 \in T
  <2>1. PICK after : IsAdded(after, stats, items, n)
    BY <1>2
  <2> DEFINE next == [i \in 0..(n + 1) |-> AddedRow(after[i-1], stats, items, i)]
  <2>2. \A i \in 0..n : next[i] = after[i]
    BY <2>1 DEF IsAdded
  <2>3. ASSUME NEW i \in 0..(n + 1)
        PROVE  AddedRow(next[i-1], stats, items, i) = AddedRow(after[i-1], stats, items, i)
    <3>1. CASE i = 0
      BY <3>1 DEF AddedRow
    <3>2. CASE i # 0
      <4>1. i - 1 \in 0..n
        BY <3>2
      <4>2. next[i-1] = after[i-1]
        BY <2>2, <4>1
      <4>3. QED
        BY <4>2
    <3>3. QED
      BY <3>1, <3>2
  <2>4. IsAdded(next, stats, items, n + 1)
    BY <2>3 DEF IsAdded
  <2> HIDE DEF next
  <2>5. QED
    BY <2>4
<1>3. \A n \in Nat : n \in T
  <2> HIDE DEF T
  <2>1. QED
    BY <1>1, <1>2, SetInduction
<1>4. QED
  BY <1>3

LEMMA AddItemsAccounts ==
  ASSUME NEW stats, NEW P, NEW K, NEW Z, Accounts(stats, P, K, Z),
         NEW n, NEW items, Len(items) \in Nat,
         \A i \in 1..Len(items) :
           <<n, i>> \notin P /\ items[i].key = K[<<n, i>>] /\ items[i].size = Z[<<n, i>>],
         \A p \in P \cup ({n} \X (1..Len(items))) : Z[p] \in Int
  PROVE  Accounts(AddItems(stats, items), P \cup ({n} \X (1..Len(items))), K, Z)
<1> DEFINE w == Len(items)
           after == CHOOSE after : IsAdded(after, stats, items, w)
           Upto(i) == P \cup ({n} \X (1..i))
           T == {i \in Nat : i \in 0..w => Accounts(after[i], Upto(i), K, Z)}
<1>1. IsAdded(after, stats, items, w)
  BY AddedExists
<1>2. AddItems(stats, items) = after[w]
  BY DEF AddItems, IsAdded, AddedRow
<1> HIDE DEF after
<1>3. \A i \in 0..w : after[i] = AddedRow(after[i-1], stats, items, i)
  BY <1>1 DEF IsAdded
<1>4. 0 \in T
  <2>1. Upto(0) = P
    OBVIOUS
  <2>2. after[0] = stats
    BY <1>3 DEF AddedRow
  <2> HIDE DEF Upto
  <2>3. QED
    BY <2>1, <2>2
<1>5. ASSUME NEW i \in Nat, i \in T PROVE i + 1 \in T
  <2>1. SUFFICES ASSUME i + 1 \in 0..w PROVE Accounts(after[i + 1], Upto(i + 1), K, Z)
    OBVIOUS
  <2> DEFINE p == <<n, i + 1>>
             U == Upto(i)
             item == items[i + 1]
  <2>2. Accounts(after[i], U, K, Z)
    BY <1>5, <2>1
  <2>3. after[i + 1] = AddToGroup(after[i], item)
    <3>1. i + 1 # 0 /\ (i + 1) - 1 = i
      OBVIOUS
    <3>2. QED
      BY <1>3, <2>1, <3>1 DEF AddedRow
  <2>4. Upto(i + 1) = U \cup {p}
    <3>1. 1..(i + 1) = (1..i) \cup {i + 1}
      OBVIOUS
    <3>2. {n} \X (1..(i + 1)) = ({n} \X (1..i)) \cup {<<n, i + 1>>}
      BY <3>1
    <3>3. QED
      BY <3>2
  <2>5. p \notin U /\ item.key = K[p] /\ item.size = Z[p]
    <3>1. i + 1 \in 1..w /\ i + 1 \notin 1..i
      BY <2>1
    <3>2. QED
      BY <3>1
  <2>6. \A q \in U \cup {p} : Z[q] \in Int
    <3>1. U \cup {p} \subseteq P \cup ({n} \X (1..w))
      BY <2>1
    <3>2. QED
      BY <3>1
  <2> HIDE DEF p, U, Upto, item
  <2>7. Accounts(AddToGroup(after[i], item), U \cup {p}, K, Z)
    BY <2>2, <2>5, <2>6, AddAccounts
  <2>8. QED
    BY <2>3, <2>4, <2>7
<1>6. w \in T
  <2> HIDE DEF T
  <2>1. QED
    BY <1>4, <1>5, SetInduction
<1>7. QED
  BY <1>2, <1>6

-----------------------------------------------------------------------------
\* The places of a snapshot's traces.

LEMMA TracebackTyped ==
  ASSUME NEW tb \in Tracebacks
  PROVE  tb \in Seq(Frame) /\ Len(tb) \in Nat \ {0}
  BY StatisticsAssumption

LEMMA TraceTyped ==
  ASSUME NEW trace \in Trace
  PROVE  /\ trace.size \in Nat /\ trace.traceback \in Tracebacks
         /\ trace.traceback \in Seq(Frame)
<1>1. trace.size \in Sizes /\ trace.traceback \in Tracebacks
  BY DEF Trace
<1>2. QED
  BY <1>1, StatisticsAssumption

Width(trace, cumulative) == IF cumulative THEN Len(trace.traceback) ELSE 1

\* The traces up to n have these places.
PlacesUpto(traces, cumulative, n) ==
  UNION {{m} \X (1..Width(traces[m], cumulative)) : m \in 1..n}

ItemAt(traces, key_type, cumulative, p) == Items(traces[p[1]], key_type, cumulative)[p[2]]

KeyAt(traces, key_type, cumulative) ==
  [p \in Places(traces, cumulative) |-> ItemAt(traces, key_type, cumulative, p).key]
SizeAt(traces, cumulative) == [p \in Places(traces, cumulative) |-> traces[p[1]].size]

\* Integers at least, and the first frame of every trace is a place.
LEMMA PlacesAre ==
  ASSUME NEW traces \in Seq(Trace), NEW cumulative \in BOOLEAN
  PROVE  /\ Places(traces, cumulative) = PlacesUpto(traces, cumulative, Len(traces))
         /\ \A p \in Places(traces, cumulative) :
              /\ p[1] \in 1..Len(traces) /\ p[2] \in 1..Width(traces[p[1]], cumulative)
              /\ p = <<p[1], p[2]>>
         /\ \A n \in 1..Len(traces) : \A i \in 1..Width(traces[n], cumulative) :
              <<n, i>> \in Places(traces, cumulative)
         /\ \A n \in 1..Len(traces) :
              /\ Width(traces[n], cumulative) \in Nat \ {0}
              /\ Width(traces[n], cumulative) <= Len(traces[n].traceback)
<1>1. DOMAIN traces = 1..Len(traces)
  OBVIOUS
<1>2. Places(traces, cumulative) = PlacesUpto(traces, cumulative, Len(traces))
  BY <1>1 DEF Places, PlacesUpto, Width
<1>3. ASSUME NEW n \in 1..Len(traces)
      PROVE  /\ Width(traces[n], cumulative) \in Nat \ {0}
             /\ Width(traces[n], cumulative) <= Len(traces[n].traceback)
  <2>1. traces[n] \in Trace
    OBVIOUS
  <2>2. traces[n].traceback \in Tracebacks
    BY <2>1 DEF Trace
  <2>3. QED
    BY <2>2, TracebackTyped DEF Width
<1>4. ASSUME NEW p \in PlacesUpto(traces, cumulative, Len(traces))
      PROVE  /\ p[1] \in 1..Len(traces) /\ p[2] \in 1..Width(traces[p[1]], cumulative)
             /\ p = <<p[1], p[2]>>
  <2>1. PICK n \in 1..Len(traces) : p \in {n} \X (1..Width(traces[n], cumulative))
    BY DEF PlacesUpto
  <2>2. QED
    BY <2>1
<1>5. ASSUME NEW n \in 1..Len(traces), NEW i \in 1..Width(traces[n], cumulative)
      PROVE  <<n, i>> \in PlacesUpto(traces, cumulative, Len(traces))
  BY DEF PlacesUpto
<1>6. QED
  BY <1>2, <1>3, <1>4, <1>5

\* What the items of a trace are.
LEMMA ItemCount ==
  ASSUME NEW trace, NEW key_type, NEW cumulative \in BOOLEAN, trace.traceback \in Seq(Frame)
  PROVE  Len(Items(trace, key_type, cumulative)) = Width(trace, cumulative)
<1>1. CASE cumulative
  <2> DEFINE item == [i \in 1..Len(trace.traceback) |->
                        [key |-> GroupKey(key_type, <<trace.traceback[i]>>),
                         size |-> trace.size]]
  <2>1. Items(trace, key_type, cumulative) = item
    BY <1>1 DEF Items
  <2>2. Len(item) = Len(trace.traceback)
    OBVIOUS
  <2>3. QED
    BY <1>1, <2>1, <2>2 DEF Width
<1>2. CASE ~cumulative
  BY <1>2 DEF Width, Items
<1>3. QED
  BY <1>1, <1>2

LEMMA ItemSize ==
  ASSUME NEW trace, NEW key_type, NEW cumulative \in BOOLEAN, NEW i \in 1..Width(trace, cumulative)
  PROVE  Items(trace, key_type, cumulative)[i].size = trace.size
<1>1. CASE cumulative
  BY <1>1 DEF Items, Width
<1>2. CASE ~cumulative
  BY <1>2 DEF Items, Width
<1>3. QED
  BY <1>1, <1>2

LEMMA ItemKeyCumulative ==
  ASSUME NEW trace, NEW key_type, NEW i \in 1..Len(trace.traceback)
  PROVE  Items(trace, key_type, TRUE)[i].key = GroupKey(key_type, <<trace.traceback[i]>>)
  BY DEF Items

LEMMA ItemKeyOnce ==
  ASSUME NEW trace, NEW key_type
  PROVE  Items(trace, key_type, FALSE)[1].key = GroupKey(key_type, trace.traceback)
  BY DEF Items

\* The loop over the traces.
GroupRow(before, traces, key_type, cumulative, n) ==
  IF n = 0 THEN <<>> ELSE AddItems(before, Items(traces[n], key_type, cumulative))
IsGrouped(after, traces, key_type, cumulative, n) ==
  after = [k \in 0..n |-> GroupRow(after[k-1], traces, key_type, cumulative, k)]

LEMMA GroupedExists ==
  ASSUME NEW traces, NEW key_type, NEW cumulative
  PROVE  \A n \in Nat : \E after : IsGrouped(after, traces, key_type, cumulative, n)
<1> DEFINE Row(before, k) == GroupRow(before, traces, key_type, cumulative, k)
           Grouped(after, n) == IsGrouped(after, traces, key_type, cumulative, n)
           T == {n \in Nat : \E after : Grouped(after, n)}
<1>1. 0 \in T
  <2> DEFINE after == [k \in 0..0 |-> <<>>]
  <2>1. Grouped(after, 0)
    BY DEF IsGrouped, GroupRow
  <2> HIDE DEF after
  <2>2. QED
    BY <2>1
<1>2. ASSUME NEW n \in Nat, n \in T PROVE n + 1 \in T
  <2>1. PICK after : Grouped(after, n)
    BY <1>2
  <2> DEFINE next == [k \in 0..(n + 1) |-> Row(after[k-1], k)]
  <2>2. \A k \in 0..n : next[k] = after[k]
    BY <2>1 DEF IsGrouped
  <2>3. ASSUME NEW k \in 0..(n + 1)
        PROVE  Row(next[k-1], k) = Row(after[k-1], k)
    <3>1. CASE k = 0
      BY <3>1 DEF GroupRow
    <3>2. CASE k # 0
      <4>1. k - 1 \in 0..n
        BY <3>2
      <4>2. next[k-1] = after[k-1]
        BY <2>2, <4>1
      <4>3. QED
        BY <4>2
    <3>3. QED
      BY <3>1, <3>2
  <2>4. Grouped(next, n + 1)
    BY <2>3 DEF IsGrouped
  <2> HIDE DEF next, Grouped
  <2>5. QED
    BY <2>4
<1>3. \A n \in Nat : n \in T
  <2> HIDE DEF T
  <2>1. QED
    BY <1>1, <1>2, SetInduction
<1>4. QED
  BY <1>3

LEMMA GroupsAccount ==
  ASSUME NEW traces \in Seq(Trace), NEW key_type, NEW cumulative \in BOOLEAN
  PROVE  Accounts(RawGroups(traces, key_type, cumulative), Places(traces, cumulative),
                  KeyAt(traces, key_type, cumulative), SizeAt(traces, cumulative))
<1> DEFINE N == Len(traces)
           K == KeyAt(traces, key_type, cumulative)
           Z == SizeAt(traces, cumulative)
           after == CHOOSE after : IsGrouped(after, traces, key_type, cumulative, N)
           T == {n \in Nat : n \in 0..N => Accounts(after[n], PlacesUpto(traces, cumulative, n), K, Z)}
<1>1. N \in Nat
  OBVIOUS
<1>2. IsGrouped(after, traces, key_type, cumulative, N)
  BY <1>1, GroupedExists
<1>3. RawGroups(traces, key_type, cumulative) = after[N]
  BY DEF RawGroups, IsGrouped, GroupRow
<1> HIDE DEF after
<1>4. \A n \in 0..N : after[n] = GroupRow(after[n-1], traces, key_type, cumulative, n)
  BY <1>2 DEF IsGrouped
<1>5. 0 \in T
  <2>1. PlacesUpto(traces, cumulative, 0) = {}
    BY DEF PlacesUpto
  <2>2. after[0] = <<>>
    BY <1>1, <1>4 DEF GroupRow
  <2> HIDE DEF K, Z
  <2>3. QED
    BY <2>1, <2>2, NoneAccounts
<1>6. ASSUME NEW n \in Nat, n \in T PROVE n + 1 \in T
  <2>1. SUFFICES ASSUME n + 1 \in 0..N
                 PROVE  Accounts(after[n + 1], PlacesUpto(traces, cumulative, n + 1), K, Z)
    OBVIOUS
  <2> DEFINE m == n + 1
             P == PlacesUpto(traces, cumulative, n)
             trace == traces[m]
             items == Items(trace, key_type, cumulative)
             w == Width(trace, cumulative)
  <2>2. Accounts(after[n], P, K, Z)
    BY <1>6, <2>1
  <2>3. after[m] = AddItems(after[n], items)
    <3>1. m # 0 /\ m - 1 = n
      OBVIOUS
    <3>2. QED
      BY <1>4, <2>1, <3>1 DEF GroupRow
  <2>4. m \in 1..N /\ m \notin 1..n /\ 1..m = (1..n) \cup {m}
    BY <2>1
  <2>5. PlacesUpto(traces, cumulative, m) = P \cup ({m} \X (1..w))
    BY <2>4 DEF PlacesUpto
  <2>6. trace \in Trace /\ trace.size \in Nat /\ trace.traceback \in Seq(Frame)
    <3>1. trace \in Trace
      BY <2>4
    <3>2. QED
      BY <3>1, TraceTyped
  <2>7. Len(items) = w /\ \A i \in 1..w : items[i].size = trace.size
    <3>1. trace.traceback \in Seq(Frame)
      BY <2>6
    <3> HIDE DEF trace
    <3>2. Len(items) = w
      BY <3>1, ItemCount
    <3>3. ASSUME NEW i \in 1..w PROVE items[i].size = trace.size
      BY <3>3, ItemSize
    <3>4. QED
      BY <3>2, <3>3
  <2>8. w \in Nat /\ \A i \in 1..w : <<m, i>> \in Places(traces, cumulative)
    BY <2>4, PlacesAre
  <2>9. ASSUME NEW i \in 1..w
        PROVE  <<m, i>> \notin P /\ items[i].key = K[<<m, i>>] /\ items[i].size = Z[<<m, i>>]
    <3>1. <<m, i>> \notin P
      <4>1. SUFFICES ASSUME NEW k \in 1..n,
                            <<m, i>> \in {k} \X (1..Width(traces[k], cumulative))
                     PROVE  FALSE
        BY DEF PlacesUpto
      <4>2. QED
        BY <2>4, <4>1
    <3>2. K[<<m, i>>] = items[i].key
      BY <2>8 DEF KeyAt, ItemAt
    <3>3. Z[<<m, i>>] = trace.size
      BY <2>8 DEF SizeAt
    <3>4. QED
      BY <2>7, <3>1, <3>2, <3>3
  <2>10. ASSUME NEW p \in P \cup ({m} \X (1..w)) PROVE Z[p] \in Int
    <3>1. p \in Places(traces, cumulative)
      <4>1. CASE p \in P
        <5>1. PICK k \in 1..n : p \in {k} \X (1..Width(traces[k], cumulative))
          BY <4>1 DEF PlacesUpto
        <5>2. k \in 1..N
          BY <2>4
        <5>3. QED
          BY <5>1, <5>2, PlacesAre
      <4>2. CASE p \in {m} \X (1..w)
        BY <2>8, <4>2
      <4>3. QED
        BY <4>1, <4>2
    <3>2. p[1] \in 1..N
      BY <3>1, PlacesAre
    <3>3. traces[p[1]].size \in Int
      <4>1. traces[p[1]] \in Trace
        BY <3>2
      <4>2. traces[p[1]].size \in Nat
        BY <4>1, TraceTyped
      <4>3. QED
        BY <4>2
    <3>4. QED
      BY <3>1, <3>3 DEF SizeAt
  <2> HIDE DEF P, trace, items, w, K, Z, m
  <2>11. Accounts(AddItems(after[n], items), P \cup ({m} \X (1..w)), K, Z)
    <3>1. Len(items) \in Nat
      BY <2>7, <2>8
    <3>2. /\ \A i \in 1..Len(items) :
               <<m, i>> \notin P /\ items[i].key = K[<<m, i>>] /\ items[i].size = Z[<<m, i>>]
          /\ \A p \in P \cup ({m} \X (1..Len(items))) : Z[p] \in Int
      BY <2>7, <2>9, <2>10
    <3>3. Accounts(AddItems(after[n], items), P \cup ({m} \X (1..Len(items))), K, Z)
      BY <2>2, <3>1, <3>2, AddItemsAccounts
    <3>4. QED
      BY <2>7, <3>3
  <2>12. QED
    BY <2>3, <2>5, <2>11 DEF m
<1>7. N \in T
  <2> HIDE DEF T
  <2>1. QED
    BY <1>1, <1>5, <1>6, SetInduction
<1>8. QED
  BY <1>1, <1>3, <1>7, PlacesAre

-----------------------------------------------------------------------------
\* What a place is grouped under.

KeyFor(key_type, tb, frame) ==
  CASE key_type = "traceback" -> Reverse(tb)
    [] key_type = "lineno"    -> <<frame>>
    [] key_type = "filename"  -> << <<0, Filename(frame), 0>> >>

KeyTypes == {"traceback", "lineno", "filename"}

LEMMA CallTyped ==
  ASSUME NEW call \in GroupCalls
  PROVE  call[1] \in KeyTypes /\ call[2] \in BOOLEAN /\ (call[1] = "traceback" => call[2] = FALSE)
<1>1. CASE call = <<"traceback", FALSE>>
  <2>1. call[1] = "traceback" /\ call[2] = FALSE
    BY <1>1
  <2>2. QED
    BY <2>1 DEF KeyTypes
<1>2. CASE call \in {"lineno", "filename"} \X BOOLEAN
  <2>1. call[1] \in {"lineno", "filename"} /\ call[2] \in BOOLEAN
    BY <1>2
  <2>2. call[1] # "traceback"
    BY <2>1
  <2>3. QED
    BY <2>1, <2>2 DEF KeyTypes
<1>3. QED
  BY <1>1, <1>2 DEF GroupCalls

LEMMA FrameKey ==
  ASSUME NEW key_type \in {"lineno", "filename"}, NEW tb \in Seq(Frame), Len(tb) > 0
  PROVE  GroupKey(key_type, tb) = KeyFor(key_type, tb, tb[1])
<1>1. ASSUME NEW x PROVE Reverse(<<x>>) = <<x>>
  BY DEF Reverse
<1>2. CASE key_type = "lineno"
  BY <1>1, <1>2 DEF GroupKey, KeyFor, Traceback
<1>3. CASE key_type = "filename"
  BY <1>1, <1>3 DEF GroupKey, KeyFor, Traceback
<1>4. QED
  BY <1>2, <1>3

\* The frame of a lone frame's key is that frame, whatever the traceback.
LEMMA LoneFrameKey ==
  ASSUME NEW key_type \in {"lineno", "filename"}, NEW tb, NEW frame \in Frame
  PROVE  GroupKey(key_type, <<frame>>) = KeyFor(key_type, tb, frame)
<1>1. <<frame>> \in Seq(Frame) /\ Len(<<frame>>) > 0 /\ <<frame>>[1] = frame
  OBVIOUS
<1>2. GroupKey(key_type, <<frame>>) = KeyFor(key_type, <<frame>>, frame)
  BY <1>1, FrameKey
<1>3. QED
  BY <1>2 DEF KeyFor

FrameAt(traces, p) == traces[p[1]].traceback[p[2]]

LEMMA PlaceTyped ==
  ASSUME NEW traces \in Seq(Trace), NEW cumulative \in BOOLEAN,
         NEW p \in Places(traces, cumulative)
  PROVE  /\ traces[p[1]] \in Trace
         /\ traces[p[1]].traceback \in Seq(Frame)
         /\ Len(traces[p[1]].traceback) > 0
         /\ p[2] \in 1..Len(traces[p[1]].traceback)
         /\ FrameAt(traces, p) \in Frame
         /\ ~cumulative => p[2] = 1
<1>1. p[1] \in 1..Len(traces) /\ p[2] \in 1..Width(traces[p[1]], cumulative)
  BY PlacesAre
<1>2. /\ Width(traces[p[1]], cumulative) \in Nat
      /\ Width(traces[p[1]], cumulative) <= Len(traces[p[1]].traceback)
  BY <1>1, PlacesAre
<1>3. traces[p[1]] \in Trace
  BY <1>1
<1>4. traces[p[1]].traceback \in Tracebacks
  BY <1>3, TraceTyped
<1>5. traces[p[1]].traceback \in Seq(Frame) /\ Len(traces[p[1]].traceback) \in Nat \ {0}
  BY <1>4, TracebackTyped
<1>6. p[2] \in 1..Len(traces[p[1]].traceback)
  BY <1>1, <1>2, <1>5
<1>7. FrameAt(traces, p) \in Frame
  BY <1>5, <1>6 DEF FrameAt
<1>8. ~cumulative => p[2] = 1
  BY <1>1 DEF Width
<1>9. QED
  BY <1>3, <1>5, <1>6, <1>7, <1>8

LEMMA KeyIs ==
  ASSUME NEW traces \in Seq(Trace), NEW call \in GroupCalls,
         NEW p \in Places(traces, call[2])
  PROVE  KeyAt(traces, call[1], call[2])[p]
           = KeyFor(call[1], traces[p[1]].traceback, FrameAt(traces, p))
<1> DEFINE trace == traces[p[1]]
           tb == trace.traceback
<1>1. call[1] \in KeyTypes /\ call[2] \in BOOLEAN /\ (call[1] = "traceback" => call[2] = FALSE)
  BY CallTyped
<1>2. tb \in Seq(Frame) /\ Len(tb) > 0 /\ p[2] \in 1..Len(tb) /\ FrameAt(traces, p) \in Frame
  BY <1>1, PlaceTyped
<1>3. call[2] = FALSE => p[2] = 1
  BY <1>1, PlaceTyped
<1>4. FrameAt(traces, p) = tb[p[2]]
  BY DEF FrameAt
<1>5. KeyAt(traces, call[1], call[2])[p] = Items(trace, call[1], call[2])[p[2]].key
  BY DEF KeyAt, ItemAt
<1> HIDE DEF trace
<1>6. CASE call[2] = TRUE
  <2>1. Items(trace, call[1], TRUE)[p[2]].key = GroupKey(call[1], <<tb[p[2]]>>)
    BY <1>2, ItemKeyCumulative
  <2>2. call[1] \in {"lineno", "filename"}
    BY <1>1, <1>6 DEF KeyTypes
  <2>3. GroupKey(call[1], <<tb[p[2]]>>) = KeyFor(call[1], tb, tb[p[2]])
    BY <1>2, <1>4, <2>2, LoneFrameKey
  <2>4. QED
    BY <1>4, <1>5, <1>6, <2>1, <2>3 DEF trace
<1>7. CASE call[2] = FALSE
  <2>1. Items(trace, call[1], FALSE)[1].key = GroupKey(call[1], tb)
    BY ItemKeyOnce
  <2>2. GroupKey(call[1], tb) = KeyFor(call[1], tb, tb[1])
    <3>1. CASE call[1] = "traceback"
      BY <3>1 DEF GroupKey, KeyFor, Traceback
    <3>2. CASE call[1] \in {"lineno", "filename"}
      BY <1>2, <3>2, FrameKey
    <3>3. QED
      BY <1>1, <3>1, <3>2 DEF KeyTypes
  <2>3. QED
    BY <1>3, <1>4, <1>5, <1>7, <2>1, <2>2 DEF trace
<1>8. QED
  BY <1>1, <1>6, <1>7

LEMMA KeyForTyped ==
  ASSUME NEW key_type \in KeyTypes, NEW tb \in Seq(Frame), NEW frame \in Frame
  PROVE  KeyFor(key_type, tb, frame) \in Seq(Frame)
<1>1. CASE key_type = "traceback"
  <2>1. Reverse(tb) \in Seq(Frame)
    BY DEF Reverse
  <2>2. QED
    BY <1>1, <2>1 DEF KeyFor
<1>2. CASE key_type = "lineno"
  BY <1>2 DEF KeyFor
<1>3. CASE key_type = "filename"
  <2>1. <<0, Filename(frame), 0>> \in Frame
    BY DEF Frame, Filename
  <2>2. QED
    BY <1>3, <2>1 DEF KeyFor
<1>4. QED
  BY <1>1, <1>2, <1>3 DEF KeyTypes

\* A key stands for the places that have it.
LEMMA StandsIff ==
  ASSUME NEW key_type \in KeyTypes, NEW tb \in Seq(Frame), NEW frame \in Frame,
         NEW tb2 \in Seq(Frame), NEW frame2 \in Frame
  PROVE  Stands(KeyFor(key_type, tb2, frame2), key_type, tb, frame)
           <=> KeyFor(key_type, tb, frame) = KeyFor(key_type, tb2, frame2)
<1>1. CASE key_type = "traceback"
  <2> DEFINE key == Reverse(tb2)
             own == Reverse(tb)
  <2>1. KeyFor(key_type, tb2, frame2) = key /\ KeyFor(key_type, tb, frame) = own
    BY <1>1 DEF KeyFor
  <2>2. Stands(key, key_type, tb, frame)
          <=> Len(key) = Len(tb) /\ \A i \in DOMAIN tb : key[i] = tb[Len(tb) + 1 - i]
    BY <1>1 DEF Stands
  <2>3. /\ own \in Seq(Frame) /\ Len(own) = Len(tb)
        /\ \A i \in 1..Len(tb) : own[i] = tb[Len(tb) + 1 - i]
    <3>1. \A i \in 1..Len(tb) : (Len(tb) - i) + 1 = Len(tb) + 1 - i
      OBVIOUS
    <3>2. QED
      BY <3>1 DEF Reverse
  <2>4. key \in Seq(Frame) /\ DOMAIN tb = 1..Len(tb)
    BY DEF Reverse
  <2> HIDE DEF key, own
  <2>5. (Len(key) = Len(tb) /\ \A i \in DOMAIN tb : key[i] = tb[Len(tb) + 1 - i])
          <=> own = key
    <3>1. ASSUME own = key
          PROVE  Len(key) = Len(tb) /\ \A i \in DOMAIN tb : key[i] = tb[Len(tb) + 1 - i]
      <4>1. Len(own) = Len(tb) /\ \A i \in DOMAIN tb : own[i] = tb[Len(tb) + 1 - i]
        BY <2>3, <2>4
      <4>2. QED
        BY <3>1, <4>1, Zenon
    <3>2. ASSUME Len(key) = Len(tb), \A i \in DOMAIN tb : key[i] = tb[Len(tb) + 1 - i]
          PROVE  own = key
      <4>1. \A i \in 1..Len(tb) : own[i] = key[i]
        BY <2>3, <2>4, <3>2
      <4>2. QED
        BY <2>3, <2>4, <3>2, <4>1, SequencesEqual
    <3>3. QED
      BY <3>1, <3>2
  <2>6. QED
    BY <2>1, <2>2, <2>5
<1>2. CASE key_type = "lineno"
  BY <1>2 DEF Stands, KeyFor
<1>3. CASE key_type = "filename"
  BY <1>3 DEF Stands, KeyFor, Filename
<1>4. QED
  BY <1>1, <1>2, <1>3 DEF KeyTypes

-----------------------------------------------------------------------------
\* The keys of list.sort: a traceback can be read off its numbers.

Spells(f, tb, n) ==
  /\ f \in Seq(Int) /\ Len(f) = 3 * n
  /\ \A i \in 1..n : f[3*i - 2] = tb[i][1] /\ f[3*i - 1] = tb[i][2] /\ f[3*i] = tb[i][3]

LEMMA FrameSpells ==
  ASSUME NEW frame \in Frame
  PROVE  /\ frame \in Seq(Int) /\ Len(frame) = 3
         /\ frame[1] \in Int /\ frame[2] \in Int /\ frame[3] \in Int
         /\ frame = <<frame[1], frame[2], frame[3]>>
<1>1. /\ frame[1] \in Int /\ frame[2] \in Int /\ frame[3] \in Int
      /\ frame = <<frame[1], frame[2], frame[3]>>
  BY DEF Frame
<1>2. <<frame[1], frame[2], frame[3]>> \in Seq(Int) /\ Len(<<frame[1], frame[2], frame[3]>>) = 3
  BY <1>1
<1>3. QED
  BY <1>1, <1>2

LEMMA SpellsOne == ASSUME NEW tb, tb[1] \in Frame PROVE Spells(tb[1], tb, 1)
<1>1. tb[1] \in Seq(Int) /\ Len(tb[1]) = 3
  BY FrameSpells
<1>2. ASSUME NEW i \in 1..1 PROVE i = 1 /\ 3*i - 2 = 1 /\ 3*i - 1 = 2 /\ 3*i = 3
  OBVIOUS
<1>3. QED
  BY <1>1, <1>2 DEF Spells

LEMMA SpellsMore ==
  ASSUME NEW tb, NEW n \in Nat, NEW f, Spells(f, tb, n), tb[n + 1] \in Frame
  PROVE  Spells(f \o tb[n + 1], tb, n + 1)
<1> DEFINE frame == tb[n + 1]
           g == f \o frame
<1>1. frame \in Seq(Int) /\ Len(frame) = 3
  BY FrameSpells
<1>2. f \in Seq(Int) /\ Len(f) = 3 * n
  BY DEF Spells
<1> HIDE DEF frame
<1>3. g \in Seq(Int) /\ Joins(g, f, frame)
  BY <1>1, <1>2, ConcatIs
<1> HIDE DEF g
<1>4. Len(g) = 3 * (n + 1) /\ \A j \in 1..(3 * n) : g[j] = f[j]
  BY <1>1, <1>2, <1>3 DEF Joins
<1>5. g[3*n + 1] = frame[1] /\ g[3*n + 2] = frame[2] /\ g[3*n + 3] = frame[3]
  <2>1. \A j \in 1..3 : g[3*n + j] = frame[j]
    BY <1>1, <1>2, <1>3 DEF Joins
  <2>2. 1 \in 1..3 /\ 2 \in 1..3 /\ 3 \in 1..3
    OBVIOUS
  <2>3. QED
    BY <2>1, <2>2
<1>6. ASSUME NEW i \in 1..(n + 1)
      PROVE  g[3*i - 2] = tb[i][1] /\ g[3*i - 1] = tb[i][2] /\ g[3*i] = tb[i][3]
  <2>1. CASE i = n + 1
    <3>1. 3*i - 2 = 3*n + 1 /\ 3*i - 1 = 3*n + 2 /\ 3*i = 3*n + 3
      BY <2>1
    <3>2. QED
      BY <1>5, <2>1, <3>1 DEF frame
  <2>2. CASE i # n + 1
    <3>1. i \in 1..n /\ 3*i - 2 \in 1..(3*n) /\ 3*i - 1 \in 1..(3*n) /\ 3*i \in 1..(3*n)
      BY <2>2
    <3>2. f[3*i - 2] = tb[i][1] /\ f[3*i - 1] = tb[i][2] /\ f[3*i] = tb[i][3]
      BY <3>1 DEF Spells
    <3>3. QED
      BY <1>4, <3>1, <3>2
  <2>3. QED
    BY <2>1, <2>2
<1>7. Spells(g, tb, n + 1)
  BY <1>3, <1>4, <1>6 DEF Spells
<1>8. QED
  BY <1>7 DEF g, frame

LEMMA FlattenSpells ==
  ASSUME NEW tb \in Seq(Frame)
  PROVE  Spells(FlattenSeq(tb), tb, Len(tb))
<1> DEFINE n == Len(tb)
<1>1. CASE n = 0
  <2>1. tb = <<>> /\ FlattenSeq(tb) = tb
    BY <1>1 DEF FlattenSeq
  <2>2. Spells(<<>>, tb, 0)
    BY DEF Spells
  <2>3. QED
    BY <1>1, <2>1, <2>2, Zenon
<1>2. CASE n # 0
  <2> DEFINE flat == CHOOSE flat : IsFlatten(flat, tb, n)
             T == {k \in Nat : k + 1 \in 1..n => Spells(flat[k + 1], tb, k + 1)}
  <2>1. IsFlatten(flat, tb, n)
    BY FlattenExists
  <2>2. FlattenSeq(tb) = flat[n]
    BY <1>2 DEF FlattenSeq, IsFlatten, FlattenRow
  <2> HIDE DEF flat
  <2>3. \A i \in 1..n : flat[i] = FlattenRow(flat[i - 1], tb, i)
    BY <2>1 DEF IsFlatten
  <2>4. 0 \in T
    <3>1. 1 \in 1..n /\ tb[1] \in Frame
      BY <1>2
    <3>2. flat[1] = tb[1]
      BY <2>3, <3>1 DEF FlattenRow
    <3>3. Spells(flat[1], tb, 1)
      BY <3>1, <3>2, SpellsOne
    <3>4. 0 + 1 = 1
      OBVIOUS
    <3>5. QED
      BY <3>3, <3>4
  <2>5. ASSUME NEW k \in Nat, k \in T PROVE k + 1 \in T
    <3> DEFINE m == k + 1
    <3>1. SUFFICES ASSUME m + 1 \in 1..n PROVE Spells(flat[m + 1], tb, m + 1)
      OBVIOUS
    <3>2. m \in Nat /\ m \in 1..n /\ m + 1 # 1 /\ (m + 1) - 1 = m
      BY <3>1
    <3>3. Spells(flat[m], tb, m)
      BY <2>5, <3>2
    <3> HIDE DEF m
    <3>4. m + 1 \in 1..n /\ tb[m + 1] \in Frame
      BY <3>1, <3>2
    <3>5. flat[m + 1] = flat[m] \o tb[m + 1]
      BY <2>3, <3>2, <3>4 DEF FlattenRow
    <3>6. QED
      BY <3>2, <3>3, <3>4, <3>5, SpellsMore
  <2>6. n - 1 \in T
    <3>1. n - 1 \in Nat
      BY <1>2
    <3> HIDE DEF T
    <3>2. QED
      BY <2>4, <2>5, <3>1, SetInduction
  <2>7. (n - 1) + 1 = n /\ n \in 1..n
    BY <1>2
  <2>8. QED
    BY <2>2, <2>6, <2>7
<1>3. QED
  BY <1>1, <1>2

LEMMA FlattenInjective ==
  ASSUME NEW tb \in Seq(Frame), NEW tb2 \in Seq(Frame), FlattenSeq(tb) = FlattenSeq(tb2)
  PROVE  tb = tb2
<1> DEFINE f == FlattenSeq(tb)
<1>1. Spells(f, tb, Len(tb)) /\ Spells(f, tb2, Len(tb2))
  BY FlattenSpells
<1> HIDE DEF f
<1>2. Len(tb) = Len(tb2)
  BY <1>1 DEF Spells
<1>3. ASSUME NEW i \in 1..Len(tb) PROVE tb[i] = tb2[i]
  <2>1. tb[i] \in Frame /\ tb2[i] \in Frame
    BY <1>2
  <2>2. tb[i][1] = tb2[i][1] /\ tb[i][2] = tb2[i][2] /\ tb[i][3] = tb2[i][3]
    BY <1>1, <1>2 DEF Spells
  <2>3. QED
    BY <2>1, <2>2, FrameSpells
<1>4. QED
  BY <1>2, <1>3, SequencesEqual

LEMMA AfterPrefix ==
  ASSUME NEW a \in Seq(Int), NEW b \in Seq(Int), Len(a) = Len(b),
         NEW s \in Seq(Int), NEW t \in Seq(Int), NEW u, Joins(u, a, s), Joins(u, b, t)
  PROVE  s = t
<1>1. Len(s) = Len(t)
  BY DEF Joins
<1>2. \A i \in 1..Len(s) : s[i] = t[i]
  BY <1>1 DEF Joins
<1>3. QED
  BY <1>1, <1>2, SequencesEqual

\* Statistics of different groups have different keys, and so do differences.
AreStatistics(S) ==
  /\ \A s \in S : s.traceback \in Seq(Frame) /\ s.size \in Int /\ s.count \in Int
  /\ \A s, t \in S : s.traceback = t.traceback => s = t

AreDiffs(S) ==
  AreStatistics(S) /\ \A d \in S : d.size_diff \in Int /\ d.count_diff \in Int

LEMMA FlattenTyped ==
  ASSUME NEW tb \in Seq(Frame)
  PROVE  FlattenSeq(tb) \in Seq(Int)
  BY FlattenSpells DEF Spells

LEMMA StatisticKeysDiffer ==
  ASSUME NEW S, AreStatistics(S)
  PROVE  DistinctKeys(S, [s \in S |-> StatisticKey(s)])
<1> DEFINE key == [s \in S |-> StatisticKey(s)]
           Head2(s) == <<s.size, s.count>>
<1>1. ASSUME NEW s \in S
      PROVE  /\ key[s] = Head2(s) \o FlattenSeq(s.traceback)
             /\ Head2(s) \in Seq(Int) /\ Len(Head2(s)) = 2
             /\ s.traceback \in Seq(Frame) /\ FlattenSeq(s.traceback) \in Seq(Int)
  <2>1. s.traceback \in Seq(Frame) /\ s.size \in Int /\ s.count \in Int
    BY DEF AreStatistics
  <2>2. FlattenSeq(s.traceback) \in Seq(Int)
    BY <2>1, FlattenTyped
  <2>3. key[s] = Head2(s) \o FlattenSeq(s.traceback)
    BY DEF StatisticKey
  <2>4. QED
    BY <2>1, <2>2, <2>3
<1> HIDE DEF key, Head2
<1>2. ASSUME NEW s \in S
      PROVE  key[s] \in Seq(Int) /\ Joins(key[s], Head2(s), FlattenSeq(s.traceback))
  BY <1>1, ConcatIs
<1>3. ASSUME NEW s \in S, NEW t \in S, key[s] = key[t] PROVE s = t
  <2>1. /\ Joins(key[s], Head2(s), FlattenSeq(s.traceback))
        /\ Joins(key[s], Head2(t), FlattenSeq(t.traceback))
    BY <1>2, <1>3
  <2>2. FlattenSeq(s.traceback) = FlattenSeq(t.traceback)
    BY <1>1, <2>1, AfterPrefix
  <2>3. s.traceback = t.traceback
    BY <1>1, <2>2, FlattenInjective
  <2>4. QED
    BY <2>3 DEF AreStatistics
<1>4. DistinctKeys(S, key)
  BY <1>2, <1>3 DEF DistinctKeys
<1>5. QED
  BY <1>4 DEF key

LEMMA DiffKeysDiffer ==
  ASSUME NEW S, AreDiffs(S)
  PROVE  DistinctKeys(S, [d \in S |-> StatisticDiffKey(d)])
<1> DEFINE key == [d \in S |-> StatisticDiffKey(d)]
           Head4(d) == <<Absolute(d.size_diff), d.size, Absolute(d.count_diff), d.count>>
<1>1. ASSUME NEW d \in S
      PROVE  /\ key[d] = Head4(d) \o FlattenSeq(d.traceback)
             /\ Head4(d) \in Seq(Int) /\ Len(Head4(d)) = 4
             /\ d.traceback \in Seq(Frame) /\ FlattenSeq(d.traceback) \in Seq(Int)
  <2>1. /\ d.traceback \in Seq(Frame) /\ d.size \in Int /\ d.count \in Int
        /\ Absolute(d.size_diff) \in Int /\ Absolute(d.count_diff) \in Int
    BY DEF AreStatistics, AreDiffs, Absolute
  <2>2. FlattenSeq(d.traceback) \in Seq(Int)
    BY <2>1, FlattenTyped
  <2>3. key[d] = Head4(d) \o FlattenSeq(d.traceback)
    BY DEF StatisticDiffKey
  <2>4. QED
    BY <2>1, <2>2, <2>3
<1> HIDE DEF key, Head4
<1>2. ASSUME NEW d \in S
      PROVE  key[d] \in Seq(Int) /\ Joins(key[d], Head4(d), FlattenSeq(d.traceback))
  BY <1>1, ConcatIs
<1>3. ASSUME NEW d \in S, NEW e \in S, key[d] = key[e] PROVE d = e
  <2>1. /\ Joins(key[d], Head4(d), FlattenSeq(d.traceback))
        /\ Joins(key[d], Head4(e), FlattenSeq(e.traceback))
    BY <1>2, <1>3
  <2>2. FlattenSeq(d.traceback) = FlattenSeq(e.traceback)
    BY <1>1, <2>1, AfterPrefix
  <2>3. d.traceback = e.traceback
    BY <1>1, <2>2, FlattenInjective
  <2>4. QED
    BY <2>3 DEF AreStatistics, AreDiffs
<1>4. DistinctKeys(S, key)
  BY <1>2, <1>3 DEF DistinctKeys
<1>5. QED
  BY <1>4 DEF key

-----------------------------------------------------------------------------
\* Lists of statistics.  list has each group once.

AreGroups(grouped) ==
  /\ IsFiniteSet(DOMAIN grouped) /\ DOMAIN grouped \subseteq Seq(Frame)
  /\ \A tb \in DOMAIN grouped : grouped[tb].size \in Int /\ grouped[tb].count \in Int

Lists(list, grouped) ==
  /\ Len(list) \in Nat /\ DOMAIN list = 1..Len(list)
  /\ \A i \in DOMAIN list :
       /\ list[i].traceback \in DOMAIN grouped
       /\ list[i].size = grouped[list[i].traceback].size
       /\ list[i].count = grouped[list[i].traceback].count
       /\ list[i] = [traceback |-> list[i].traceback,
                     size |-> grouped[list[i].traceback].size,
                     count |-> grouped[list[i].traceback].count]
  /\ \A i, j \in DOMAIN list : list[i].traceback = list[j].traceback => i = j
  /\ \A tb \in DOMAIN grouped : \E i \in DOMAIN list : list[i].traceback = tb

LEMMA StatisticsList ==
  ASSUME NEW snap, NEW key_type, NEW cumulative, AreGroups(GroupBy(snap, key_type, cumulative))
  PROVE  Lists(Statistics(snap, key_type, cumulative), GroupBy(snap, key_type, cumulative))
<1> DEFINE grouped == GroupBy(snap, key_type, cumulative)
           D == DOMAIN grouped
           Value(tb) == [traceback |-> tb, size |-> grouped[tb].size, count |-> grouped[tb].count]
           values == {Value(tb) : tb \in D}
           key == [s \in values |-> StatisticKey(s)]
           list == Sorted(values, key)
<1>1. Statistics(snap, key_type, cumulative) = list
  BY DEF Statistics
<1>2. IsFiniteSet(D) /\ D \subseteq Seq(Frame)
      /\ \A tb \in D : grouped[tb].size \in Int /\ grouped[tb].count \in Int
  BY DEF AreGroups
<1> HIDE DEF grouped
<1>3. \A tb \in D : /\ Value(tb).traceback = tb
                   /\ Value(tb).size = grouped[tb].size /\ Value(tb).count = grouped[tb].count
  OBVIOUS
<1>4. IsFiniteSet(values)
  <2> DEFINE f == [tb \in D |-> Value(tb)]
  <2>1. f \in Surjection(D, values)
    BY DEF Surjection
  <2> HIDE DEF f, values, D
  <2>2. QED
    BY <1>2, <2>1, FS_Surjection
<1>5. AreStatistics(values)
  BY <1>2 DEF AreStatistics
<1>6. DistinctKeys(values, key)
  <2> HIDE DEF values
  <2>1. QED
    BY <1>5, StatisticKeysDiffer
<1>7. /\ DOMAIN list = 1..Cardinality(values) /\ Len(list) = Cardinality(values)
      /\ Renames(list, 1..Cardinality(values), values)
  <2> HIDE DEF values, key
  <2>1. QED
    BY <1>4, <1>6, SortedLists
<1>8. Cardinality(values) \in Nat
  <2> HIDE DEF values
  <2>1. QED
    BY <1>4, FS_CardinalityType
<1>9. \A s \in values : s.traceback \in D /\ s = Value(s.traceback)
  OBVIOUS
<1>10. \A tb \in D : Value(tb) \in values
  OBVIOUS
<1> HIDE DEF values, list, D, Value
<1>11. \A i \in DOMAIN list : list[i] \in values
  BY <1>7 DEF Renames
<1>12. ASSUME NEW i \in DOMAIN list
       PROVE  /\ list[i].traceback \in D /\ list[i] = Value(list[i].traceback)
              /\ list[i].size = grouped[list[i].traceback].size
              /\ list[i].count = grouped[list[i].traceback].count
  BY <1>3, <1>9, <1>11
<1>13. \A i, j \in DOMAIN list : list[i].traceback = list[j].traceback => i = j
  BY <1>7, <1>12 DEF Renames
<1>14. ASSUME NEW tb \in D PROVE \E i \in DOMAIN list : list[i].traceback = tb
  <2>1. PICK i \in DOMAIN list : list[i] = Value(tb)
    BY <1>7, <1>10 DEF Renames
  <2>2. QED
    BY <1>3, <2>1
<1>15. Lists(list, grouped)
  BY <1>7, <1>8, <1>12, <1>13, <1>14 DEF Lists, Value, D
<1>16. QED
  BY <1>1, <1>15 DEF grouped

-----------------------------------------------------------------------------
\* The sum of the properties is the one of the proofs.
LEMMA SumOverIs ==
  ASSUME NEW S, IsFiniteSet(S), NEW v
  PROVE  SumOver(v, S) = SumOf(v, S)
<1> DEFINE g == CHOOSE iter : iter = [s \in SUBSET S |->
                  IF s = {} THEN 0
                  ELSE v[CHOOSE x \in s : TRUE] + iter[s \ {CHOOSE x \in s : TRUE}]]
<1>1. IsSum(g, v, S)
  <2>1. PICK h : IsSum(h, v, S)
    BY SumExists
  <2>2. h = [s \in SUBSET S |->
               IF s = {} THEN 0
               ELSE v[CHOOSE x \in s : TRUE] + h[s \ {CHOOSE x \in s : TRUE}]]
    BY <2>1 DEF IsSum, Some
  <2>3. g = [s \in SUBSET S |->
               IF s = {} THEN 0
               ELSE v[CHOOSE x \in s : TRUE] + g[s \ {CHOOSE x \in s : TRUE}]]
    BY <2>2
  <2> QED BY <2>3 DEF IsSum, Some
<1>2. SumOver(v, S) = g[S]
  BY DEF SumOver, MapThenSumSet, MapThenFoldSet
<1> HIDE DEF g
<1>3. g[S] = SumOf(v, S)
  BY <1>1, SumIs
<1> QED BY <1>2, <1>3

-----------------------------------------------------------------------------
\* The groups before scaling.

LEMMA RawTyped ==
  ASSUME NEW traces \in Seq(Trace), NEW call \in GroupCalls, NEW raw,
         raw = RawGroups(traces, call[1], call[2]), NEW P, P = Places(traces, call[2]),
         NEW K, K = KeyAt(traces, call[1], call[2]), NEW Z, Z = SizeAt(traces, call[2])
  PROVE  /\ IsFiniteSet(P) /\ IsFiniteSet(DOMAIN raw)
         /\ DOMAIN raw = KeysOf(P, K) /\ DOMAIN raw \subseteq Seq(Frame)
         /\ \A tb \in DOMAIN raw :
              /\ raw[tb] = GroupOf(P, K, Z, tb)
              /\ raw[tb].size \in Nat /\ raw[tb].count \in Nat \ {0}
<1>1. call[1] \in KeyTypes /\ call[2] \in BOOLEAN
  BY CallTyped
<1>2. Accounts(raw, P, K, Z)
  BY <1>1, GroupsAccount
<1>3. IsFiniteSet(P) /\ raw = [key \in KeysOf(P, K) |-> GroupOf(P, K, Z, key)]
  BY <1>2 DEF Accounts
<1>4. DOMAIN raw = KeysOf(P, K) /\ \A tb \in DOMAIN raw : raw[tb] = GroupOf(P, K, Z, tb)
  BY <1>3
<1>5. IsFiniteSet(DOMAIN raw)
  <2> DEFINE f == [p \in P |-> K[p]]
  <2>1. f \in Surjection(P, KeysOf(P, K))
    BY DEF Surjection, KeysOf
  <2> HIDE DEF f
  <2>2. QED
    BY <1>3, <1>4, <2>1, FS_Surjection
<1>6. ASSUME NEW p \in P PROVE K[p] \in Seq(Frame) /\ Z[p] \in Nat
  <2>1. K[p] = KeyFor(call[1], traces[p[1]].traceback, FrameAt(traces, p))
    BY KeyIs
  <2>2. traces[p[1]] \in Trace /\ traces[p[1]].traceback \in Seq(Frame) /\ FrameAt(traces, p) \in Frame
    BY <1>1, PlaceTyped
  <2>3. K[p] \in Seq(Frame)
    BY <1>1, <2>1, <2>2, KeyForTyped
  <2>4. Z[p] = traces[p[1]].size
    BY DEF SizeAt
  <2>5. QED
    BY <2>2, <2>3, <2>4, TraceTyped
<1>7. DOMAIN raw \subseteq Seq(Frame)
  BY <1>4, <1>6 DEF KeysOf
<1>8. ASSUME NEW tb \in DOMAIN raw
      PROVE  raw[tb].size \in Nat /\ raw[tb].count \in Nat \ {0}
  <2> DEFINE A == At(P, K, tb)
  <2>1. IsFiniteSet(A) /\ \A p \in A : Z[p] \in Nat
    BY <1>3, <1>6, FS_Subset DEF At
  <2>2. A # {}
    BY <1>4 DEF At, KeysOf
  <2>3. raw[tb] = [size |-> SumOf(Z, A), count |-> Cardinality(A)]
    BY <1>4 DEF GroupOf
  <2> HIDE DEF A
  <2>4. SumOf(Z, A) \in Nat
    BY <2>1, SumNat
  <2>5. Cardinality(A) \in Nat \ {0}
    BY <2>1, <2>2, FS_CardinalityType, FS_EmptySet
  <2>6. QED
    BY <2>3, <2>4, <2>5
<1>9. QED
  BY <1>3, <1>4, <1>5, <1>7, <1>8

LEMMA GroupByIs ==
  ASSUME NEW snap, NEW key_type, NEW cumulative, NEW raw,
         raw = RawGroups(snap.traces, key_type, cumulative)
  PROVE  GroupBy(snap, key_type, cumulative)
           = [tb \in DOMAIN raw |-> ScaleHeapSample(raw[tb], snap.sample_rate)]
  BY DEF GroupBy

LEMMA SnapshotTyped ==
  ASSUME NEW snap \in Snapshot
  PROVE  /\ snap.traces \in Seq(Trace) /\ Len(snap.traces) <= MaxTraces
         /\ DOMAIN snap.traces = 1..Len(snap.traces)
         /\ snap.sample_rate \in Rates /\ snap.sample_rate \in Nat
<1>1. snap.traces \in UNION {[1..n -> Trace] : n \in 0..MaxTraces} /\ snap.sample_rate \in Rates
  BY DEF Snapshot
<1>2. PICK n \in 0..MaxTraces : snap.traces \in [1..n -> Trace]
  BY <1>1
<1>3. MaxTraces \in Nat /\ Rates \subseteq Nat
  BY StatisticsAssumption
<1>4. snap.traces \in Seq(Trace) /\ Len(snap.traces) = n
  BY <1>2, <1>3
<1>5. DOMAIN snap.traces = 1..Len(snap.traces) /\ Len(snap.traces) <= MaxTraces
  BY <1>2, <1>3, <1>4
<1>6. snap.sample_rate \in Nat
  BY <1>1, <1>3
<1>7. QED
  BY <1>1, <1>4, <1>5, <1>6

\* Without sampling, the statistics of the places of new.
LEMMA SumsAreRight ==
  ASSUME TypeOK
  PROVE  StatisticsAreSums
<1> SUFFICES ASSUME new.sample_rate <= 1, NEW call \in GroupCalls
             PROVE  LET stats == Statistics(new, call[1], call[2])
                        In(p, s) == LET tb == new.traces[p[1]].traceback
                                    IN Stands(s.traceback, call[1], tb, tb[p[2]])
                        Of(s) == {p \in Places(new.traces, call[2]) : In(p, s)}
                    IN /\ \A p \in Places(new.traces, call[2]) :
                            Cardinality({i \in DOMAIN stats : In(p, stats[i])}) = 1
                       /\ \A i \in DOMAIN stats :
                            /\ stats[i].count = Cardinality(Of(stats[i])) /\ stats[i].count > 0
                            /\ stats[i].size = SumOver([p \in Of(stats[i]) |-> new.traces[p[1]].size],
                                                       Of(stats[i]))
  BY DEF StatisticsAreSums
<1> DEFINE traces == new.traces
           stats == Statistics(new, call[1], call[2])
           In(p, s) == Stands(s.traceback, call[1], traces[p[1]].traceback, traces[p[1]].traceback[p[2]])
           Of(s) == {p \in Places(traces, call[2]) : In(p, s)}
           P == Places(traces, call[2])
           K == KeyAt(traces, call[1], call[2])
           Z == SizeAt(traces, call[2])
           raw == RawGroups(traces, call[1], call[2])
<1>1. traces \in Seq(Trace) /\ new.sample_rate \in Nat
  BY SnapshotTyped DEF TypeOK
<1>2. call[1] \in KeyTypes /\ call[2] \in BOOLEAN
  BY CallTyped
<1>3. /\ IsFiniteSet(P) /\ IsFiniteSet(DOMAIN raw)
      /\ DOMAIN raw = KeysOf(P, K) /\ DOMAIN raw \subseteq Seq(Frame)
      /\ \A tb \in DOMAIN raw :
           /\ raw[tb] = GroupOf(P, K, Z, tb)
           /\ raw[tb].size \in Nat /\ raw[tb].count \in Nat \ {0}
  <2> HIDE DEF traces
  <2>1. QED
    BY <1>1, RawTyped
<1> DEFINE grouped == GroupBy(new, call[1], call[2])
<1>4. DOMAIN grouped = DOMAIN raw /\ \A tb \in DOMAIN raw : grouped[tb] = raw[tb]
  <2>1. grouped = [tb \in DOMAIN raw |-> ScaleHeapSample(raw[tb], new.sample_rate)]
    BY GroupByIs
  <2>2. \A s : ScaleHeapSample(s, new.sample_rate) = s
    BY DEF ScaleHeapSample
  <2> HIDE DEF grouped, raw
  <2>3. QED
    BY <2>1, <2>2
<1>5. AreGroups(grouped)
  <2> HIDE DEF grouped, raw
  <2>1. QED
    BY <1>3, <1>4 DEF AreGroups
<1>6. Lists(stats, grouped)
  BY <1>5, StatisticsList
<1>7. ASSUME NEW p \in P, NEW tb \in KeysOf(P, K)
      PROVE  Stands(tb, call[1], traces[p[1]].traceback, traces[p[1]].traceback[p[2]])
               <=> K[p] = tb
  <2>1. PICK q \in P : K[q] = tb
    BY DEF KeysOf
  <2> HIDE DEF traces
  <2>2. /\ K[p] = KeyFor(call[1], traces[p[1]].traceback, FrameAt(traces, p))
        /\ tb = KeyFor(call[1], traces[q[1]].traceback, FrameAt(traces, q))
    BY <1>1, <2>1, KeyIs
  <2>3. /\ traces[p[1]].traceback \in Seq(Frame) /\ FrameAt(traces, p) \in Frame
        /\ traces[q[1]].traceback \in Seq(Frame) /\ FrameAt(traces, q) \in Frame
    BY <1>1, <1>2, PlaceTyped
  <2>4. FrameAt(traces, p) = traces[p[1]].traceback[p[2]]
    BY DEF FrameAt
  <2>5. QED
    BY <1>2, <2>2, <2>3, <2>4, StandsIff
<1>8. ASSUME NEW i \in DOMAIN stats
      PROVE  /\ stats[i].traceback \in KeysOf(P, K)
             /\ stats[i].size = raw[stats[i].traceback].size
             /\ stats[i].count = raw[stats[i].traceback].count
             /\ Of(stats[i]) = At(P, K, stats[i].traceback)
  <2> HIDE DEF stats, grouped, raw
  <2>1. stats[i].traceback \in DOMAIN grouped
    BY <1>6 DEF Lists
  <2>3. stats[i].traceback \in KeysOf(P, K)
    BY <1>3, <1>4, <2>1
  <2> DEFINE tb == stats[i].traceback
  <2>4. stats[i].size = grouped[tb].size /\ stats[i].count = grouped[tb].count
    BY <1>6 DEF Lists
  <2>5. Of(stats[i]) = At(P, K, tb)
    BY <1>7, <2>3 DEF At
  <2>6. QED
    BY <1>3, <1>4, <2>3, <2>4, <2>5
<1>9. ASSUME NEW p \in P
      PROVE  Cardinality({i \in DOMAIN stats : In(p, stats[i])}) = 1
  <2>1. K[p] \in KeysOf(P, K) /\ K[p] \in DOMAIN grouped
    BY <1>3, <1>4 DEF KeysOf
  <2>2. PICK i \in DOMAIN stats : stats[i].traceback = K[p]
    <3> HIDE DEF stats, grouped, K, P
    <3>1. QED
      BY <1>6, <2>1 DEF Lists
  <2>3. \A j \in DOMAIN stats : In(p, stats[j]) <=> K[p] = stats[j].traceback
    BY <1>7, <1>8
  <2>4. \A j \in DOMAIN stats : stats[j].traceback = K[p] => j = i
    <3> HIDE DEF stats, grouped, K, P
    <3>1. QED
      BY <1>6, <2>2 DEF Lists
  <2> HIDE DEF stats, K, P, In
  <2>5. {j \in DOMAIN stats : In(p, stats[j])} = {i}
    BY <2>2, <2>3, <2>4
  <2>6. Cardinality({i}) = 1
    BY FS_Singleton
  <2>7. QED
    BY <2>5, <2>6, Zenon
<1>10. ASSUME NEW i \in DOMAIN stats
       PROVE  /\ stats[i].count = Cardinality(Of(stats[i])) /\ stats[i].count > 0
              /\ stats[i].size = SumOver([p \in Of(stats[i]) |-> traces[p[1]].size], Of(stats[i]))
  <2> DEFINE tb == stats[i].traceback
             A == Of(stats[i])
             sizes == [p \in A |-> traces[p[1]].size]
  <2>1. tb \in DOMAIN raw /\ stats[i].size = raw[tb].size /\ stats[i].count = raw[tb].count
    BY <1>3, <1>8
  <2>2. A = At(P, K, tb)
    BY <1>8
  <2>3. \A p \in A : sizes[p] = Z[p]
    BY DEF SizeAt
  <2>4. A \subseteq P /\ IsFiniteSet(A)
    BY <1>3, FS_Subset
  <2> HIDE DEF raw, stats, K, P, Z, A, sizes
  <2>5. raw[tb].count \in Nat \ {0} /\ raw[tb] = GroupOf(P, K, Z, tb)
    BY <1>3, <2>1
  <2>6. raw[tb].count = Cardinality(A) /\ raw[tb].size = SumOf(Z, A)
    <3>1. raw[tb] = [size |-> SumOf(Z, A), count |-> Cardinality(A)]
      BY <2>2, <2>5, Zenon DEF GroupOf
    <3>2. QED
      BY <3>1
  <2>7. SumOver(sizes, A) = SumOf(sizes, A) /\ SumOf(sizes, A) = SumOf(Z, A)
    BY <2>3, <2>4, SumOverIs, SumSame
  <2>8. stats[i].count = Cardinality(A) /\ stats[i].count > 0 /\ stats[i].size = SumOver(sizes, A)
    BY <2>1, <2>5, <2>6, <2>7
  <2>9. QED
    BY <2>8 DEF A, sizes
<1>11. QED
  BY <1>9, <1>10

-----------------------------------------------------------------------------
\* filter_traces() keeps the traces that pass, each once.

KeptRow(before, traces, include, exclude, n) ==
  IF n = 0 THEN <<>>
  ELSE IF FilterTrace(include, exclude, traces[n])
       THEN Append(before, traces[n]) ELSE before
IsKept(kept, traces, include, exclude, n) ==
  kept = [k \in 0..n |-> KeptRow(kept[k-1], traces, include, exclude, k)]

LEMMA KeptExists ==
  ASSUME NEW traces, NEW include, NEW exclude
  PROVE  \A n \in Nat : \E kept : IsKept(kept, traces, include, exclude, n)
<1> DEFINE Row(before, k) == KeptRow(before, traces, include, exclude, k)
           Kept(kept, n) == IsKept(kept, traces, include, exclude, n)
           T == {n \in Nat : \E kept : Kept(kept, n)}
<1>1. 0 \in T
  <2> DEFINE kept == [k \in 0..0 |-> <<>>]
  <2>1. Kept(kept, 0)
    BY DEF IsKept, KeptRow
  <2> HIDE DEF kept
  <2>2. QED
    BY <2>1
<1>2. ASSUME NEW n \in Nat, n \in T PROVE n + 1 \in T
  <2>1. PICK kept : Kept(kept, n)
    BY <1>2
  <2> DEFINE next == [k \in 0..(n + 1) |-> Row(kept[k-1], k)]
  <2>2. \A k \in 0..n : next[k] = kept[k]
    BY <2>1 DEF IsKept
  <2>3. ASSUME NEW k \in 0..(n + 1)
        PROVE  Row(next[k-1], k) = Row(kept[k-1], k)
    <3>1. CASE k = 0
      BY <3>1 DEF KeptRow
    <3>2. CASE k # 0
      <4>1. k - 1 \in 0..n
        BY <3>2
      <4>2. next[k-1] = kept[k-1]
        BY <2>2, <4>1
      <4>3. QED
        BY <4>2
    <3>3. QED
      BY <3>1, <3>2
  <2>4. Kept(next, n + 1)
    BY <2>3 DEF IsKept
  <2> HIDE DEF next, Kept
  <2>5. QED
    BY <2>4
<1>3. \A n \in Nat : n \in T
  <2> HIDE DEF T
  <2>1. QED
    BY <1>1, <1>2, SetInduction
<1>4. QED
  BY <1>3

Passing(traces, include, exclude, n) == {m \in 1..n : FilterTrace(include, exclude, traces[m])}

\* e says which of the first n traces each trace of kept is.
Selects(e, kept, traces, passing, n) ==
  /\ kept \in Seq(Trace) /\ Len(kept) <= n
  /\ Renames(e, 1..Len(kept), passing)
  /\ \A i \in 1..Len(kept) : kept[i] = traces[e[i]]

LEMMA SelectsMore ==
  ASSUME NEW traces, NEW n \in Nat, NEW kept, NEW passing, NEW e, passing \subseteq 1..n,
         Selects(e, kept, traces, passing, n), traces[n + 1] \in Trace
  PROVE  \E f : Selects(f, Append(kept, traces[n + 1]), traces, passing \cup {n + 1}, n + 1)
<1> DEFINE w == Len(kept)
           next == Append(kept, traces[n + 1])
           f == [i \in 1..(w + 1) |-> IF i = w + 1 THEN n + 1 ELSE e[i]]
<1>1. kept \in Seq(Trace) /\ w \in Nat /\ w <= n
  BY DEF Selects
<1>2. next \in Seq(Trace) /\ Len(next) = w + 1 /\ next[w + 1] = traces[n + 1]
      /\ \A i \in 1..w : next[i] = kept[i]
  BY <1>1
<1>3. \A i \in 1..(w + 1) : i = w + 1 \/ i \in 1..w
  BY <1>1
<1>4. f[w + 1] = n + 1 /\ \A i \in 1..w : f[i] = e[i] /\ f[i] \in passing /\ f[i] # n + 1
  <2>1. \A i \in 1..w : e[i] \in passing
    BY DEF Selects, Renames
  <2>2. n + 1 \notin passing
    OBVIOUS
  <2>3. \A i \in 1..w : i \in 1..(w + 1) /\ i # w + 1
    BY <1>1
  <2>4. w + 1 \in 1..(w + 1)
    BY <1>1
  <2>5. QED
    BY <2>1, <2>2, <2>3, <2>4
<1>5. \A i, j \in 1..w : e[i] = e[j] => i = j
  BY DEF Selects, Renames
<1>6. \A z \in passing : \E i \in 1..w : e[i] = z
  BY DEF Selects, Renames
<1>7. \A i \in 1..w : kept[i] = traces[e[i]]
  BY DEF Selects
<1> HIDE DEF f, next, w
<1>8. Renames(f, 1..(w + 1), passing \cup {n + 1})
  <2>1. \A i \in 1..(w + 1) : f[i] \in passing \cup {n + 1}
    BY <1>3, <1>4
  <2>2. \A i, j \in 1..(w + 1) : f[i] = f[j] => i = j
    BY <1>3, <1>4, <1>5
  <2>3. ASSUME NEW z \in passing \cup {n + 1} PROVE \E i \in 1..(w + 1) : f[i] = z
    <3>1. CASE z = n + 1
      <4>1. w + 1 \in 1..(w + 1)
        BY <1>1
      <4>2. QED
        BY <1>4, <3>1, <4>1
    <3>2. CASE z \in passing
      <4>1. PICK i \in 1..w : e[i] = z
        BY <1>6, <3>2
      <4>2. i \in 1..(w + 1)
        BY <1>1
      <4>3. QED
        BY <1>4, <4>1, <4>2
    <3>3. QED
      BY <3>1, <3>2
  <2>4. QED
    BY <2>1, <2>2, <2>3 DEF Renames
<1>9. \A i \in 1..(w + 1) : next[i] = traces[f[i]]
  BY <1>2, <1>3, <1>4, <1>7
<1>10. Selects(f, next, traces, passing \cup {n + 1}, n + 1)
  BY <1>1, <1>2, <1>8, <1>9 DEF Selects
<1>11. QED
  BY <1>10 DEF next

LEMMA FilterSelects ==
  ASSUME NEW snap, snap.traces \in Seq(Trace), NEW filters, NEW include, NEW exclude,
         include = {f \in filters : f.inclusive}, exclude = filters \ include
  PROVE  \E e, kept :
           /\ FilterTraces(snap, filters) = [snap EXCEPT !.traces = kept]
           /\ Selects(e, kept, snap.traces,
                      Passing(snap.traces, include, exclude, Len(snap.traces)), Len(snap.traces))
<1> DEFINE traces == snap.traces
           N == Len(traces)
           kept == CHOOSE kept : IsKept(kept, traces, include, exclude, N)
           Selected(n) == \E e : Selects(e, kept[n], traces, Passing(traces, include, exclude, n), n)
           T == {n \in Nat : n \in 0..N => Selected(n)}
<1>1. N \in Nat
  OBVIOUS
<1>2. IsKept(kept, traces, include, exclude, N)
  BY <1>1, KeptExists
<1>3. FilterTraces(snap, filters) = [snap EXCEPT !.traces = kept[N]]
  BY DEF FilterTraces, IsKept, KeptRow
<1> HIDE DEF kept
<1>4. \A n \in 0..N : kept[n] = KeptRow(kept[n-1], traces, include, exclude, n)
  BY <1>2 DEF IsKept
<1>5. 0 \in T
  <2>1. Passing(traces, include, exclude, 0) = {}
    BY DEF Passing
  <2>2. kept[0] = <<>>
    <3>1. 0 \in 0..N
      BY <1>1
    <3>2. kept[0] = KeptRow(kept[0-1], traces, include, exclude, 0)
      BY <1>4, <3>1
    <3>3. QED
      BY <3>2 DEF KeptRow
  <2>3. Selects(<<>>, <<>>, traces, {}, 0)
    BY DEF Selects, Renames
  <2>4. Selected(0)
    BY <2>1, <2>2, <2>3
  <2> HIDE DEF Selected
  <2>5. QED
    BY <2>4
<1>6. ASSUME NEW n \in Nat, n \in T PROVE n + 1 \in T
  <2>1. SUFFICES ASSUME n + 1 \in 0..N PROVE Selected(n + 1)
    OBVIOUS
  <2> DEFINE before == kept[n]
             trace == traces[n + 1]
             passing == Passing(traces, include, exclude, n)
             now == Passing(traces, include, exclude, n + 1)
  <2>2. PICK e : Selects(e, before, traces, passing, n)
    <3>1. n \in 0..N
      BY <2>1
    <3> HIDE DEF Selected
    <3>2. Selected(n)
      BY <1>6, <3>1
    <3>3. QED
      BY <3>2 DEF Selected
  <2>3. n + 1 \in 1..N /\ n + 1 # 0 /\ (n + 1) - 1 = n
    BY <2>1
  <2>4. trace \in Trace
    BY <2>3
  <2>5. kept[n + 1] = IF FilterTrace(include, exclude, trace) THEN Append(before, trace) ELSE before
    BY <1>4, <2>1, <2>3 DEF KeptRow
  <2>6. \A m : m \in 1..(n + 1) <=> m \in 1..n \/ m = n + 1
    OBVIOUS
  <2>7. CASE FilterTrace(include, exclude, trace)
    <3>1. now = passing \cup {n + 1} /\ passing \subseteq 1..n
      BY <2>6, <2>7 DEF Passing
    <3> HIDE DEF before, passing, now, trace
    <3>2. \E f : Selects(f, Append(before, traces[n + 1]), traces, passing \cup {n + 1}, n + 1)
      BY <2>2, <2>4, <3>1, SelectsMore DEF trace
    <3>3. kept[n + 1] = Append(before, traces[n + 1])
      BY <2>5, <2>7 DEF trace
    <3>4. QED
      BY <3>1, <3>2, <3>3 DEF now
  <2>8. CASE ~FilterTrace(include, exclude, trace)
    <3>1. now = passing
      BY <2>6, <2>8 DEF Passing
    <3>2. kept[n + 1] = before
      BY <2>5, <2>8
    <3> HIDE DEF before, passing, now, trace
    <3>3. Selects(e, before, traces, passing, n + 1)
      BY <2>2 DEF Selects
    <3>4. QED
      BY <3>1, <3>2, <3>3 DEF now
  <2>9. QED
    BY <2>7, <2>8
<1>7. N \in T
  <2> HIDE DEF T
  <2>1. QED
    BY <1>1, <1>5, <1>6, SetInduction
<1>8. PICK e : Selects(e, kept[N], traces, Passing(traces, include, exclude, N), N)
  <2> HIDE DEF Selected
  <2>1. Selected(N)
    BY <1>1, <1>7
  <2>2. QED
    BY <2>1 DEF Selected
<1>9. QED
  BY <1>3, <1>8

-----------------------------------------------------------------------------
\* The state is a pair of snapshots.

LEMMA SnapshotWith ==
  ASSUME NEW snap \in Snapshot, NEW traces \in Seq(Trace), Len(traces) <= MaxTraces
  PROVE  /\ [snap EXCEPT !.traces = traces] \in Snapshot
         /\ [snap EXCEPT !.traces = traces].traces = traces
         /\ [snap EXCEPT !.traces = traces].sample_rate = snap.sample_rate
<1>1. traces \in [1..Len(traces) -> Trace] /\ Len(traces) \in 0..MaxTraces
  BY StatisticsAssumption
<1>2. traces \in UNION {[1..n -> Trace] : n \in 0..MaxTraces}
  BY <1>1
<1>3. snap = [traces |-> snap.traces, sample_rate |-> snap.sample_rate] /\ snap.sample_rate \in Rates
  BY DEF Snapshot
<1>4. [snap EXCEPT !.traces = traces] = [traces |-> traces, sample_rate |-> snap.sample_rate]
  BY <1>3
<1>5. QED
  BY <1>2, <1>3, <1>4 DEF Snapshot

LEMMA FilteredTyped ==
  ASSUME NEW snap \in Snapshot, NEW filters
  PROVE  FilterTraces(snap, filters) \in Snapshot
<1> DEFINE include == {f \in filters : f.inclusive}
           exclude == filters \ include
<1>1. snap.traces \in Seq(Trace) /\ Len(snap.traces) <= MaxTraces
  BY SnapshotTyped
<1>2. PICK e, kept :
        /\ FilterTraces(snap, filters) = [snap EXCEPT !.traces = kept]
        /\ Selects(e, kept, snap.traces,
                   Passing(snap.traces, include, exclude, Len(snap.traces)), Len(snap.traces))
  BY <1>1, FilterSelects
<1>3. kept \in Seq(Trace) /\ Len(kept) <= MaxTraces
  BY <1>1, <1>2, StatisticsAssumption DEF Selects
<1>4. QED
  BY <1>2, <1>3, SnapshotWith

\* Filtering a snapshot and keeping it for later give snapshots.
THEOREM SnapshotsTyped == Spec => []TypeOK
<1>1. Init => TypeOK
  BY DEF Init, TypeOK
<1>2. TypeOK /\ [Next]_vars => TypeOK'
  <2> SUFFICES ASSUME TypeOK, [Next]_vars PROVE TypeOK'
    OBVIOUS
  <2>1. CASE TakeSnapshot
    BY <2>1 DEF TakeSnapshot, TypeOK
  <2>2. CASE FilterNew
    BY <2>2, FilteredTyped DEF FilterNew, TypeOK
  <2>3. CASE KeepNew
    <3>1. <<>> \in Seq(Trace) /\ Len(<<>>) <= MaxTraces
      BY StatisticsAssumption
    <3>2. [new EXCEPT !.traces = <<>>] \in Snapshot
      BY <3>1, SnapshotWith DEF TypeOK
    <3>3. QED
      BY <2>3, <3>2 DEF KeepNew, TypeOK
  <2>4. CASE UNCHANGED vars
    BY <2>4 DEF vars, TypeOK
  <2>5. QED
    BY <2>1, <2>2, <2>3, <2>4 DEF Next
<1>3. QED
  BY <1>1, <1>2, PTL DEF Spec

\* Without sampling, statistics() of any snapshot counts each block in exactly
\* one group, or with cumulative in one for each of its frames: Snapshot._group_by
\* and Snapshot.statistics.
THEOREM StatisticsAddUp == Spec => []StatisticsAreSums
<1>1. TypeOK => StatisticsAreSums
  BY SumsAreRight
<1>2. QED
  BY <1>1, SnapshotsTyped, PTL

-----------------------------------------------------------------------------
\* Scaling.  The scale is one fraction of at least 1 for the size and the count
\* of a group.
ScaleIsFactor ==
  \A size, count, rate \in Nat \ {0} :
    /\ Scale(size, count, rate)[1] \in Nat /\ Scale(size, count, rate)[2] \in Nat \ {0}
    /\ Scale(size, count, rate)[1] >= Scale(size, count, rate)[2]

LEMMA TimesAtMost ==
  ASSUME NEW a \in Int, NEW b \in Int, NEW d \in Nat, a <= b
  PROVE  a * d <= b * d
<1> DEFINE k == b - a
<1>1. k \in Nat /\ b = a + k
  OBVIOUS
<1> HIDE DEF k
<1>2. k * d \in Nat /\ b * d = a * d + k * d /\ a * d \in Int
  BY <1>1
<1>3. QED
  BY <1>2

LEMMA TimesLess ==
  ASSUME NEW a \in Int, NEW b \in Int, NEW d \in Nat \ {0}, a * d < b * d
  PROVE  a < b
<1>1. SUFFICES ASSUME b <= a PROVE FALSE
  OBVIOUS
<1>2. b * d <= a * d
  BY <1>1, TimesAtMost
<1>3. a * d \in Int /\ b * d \in Int
  OBVIOUS
<1>4. QED
  BY <1>2, <1>3

\* A number cut to an integer.
Floor(q, a, den) == q \in Nat /\ q * den <= a /\ a < q * den + den

LEMMA DivFloor ==
  ASSUME NEW a \in Nat, NEW den \in Nat \ {0}
  PROVE  Floor(a \div den, a, den)
  BY DEF Floor

LEMMA ScaledAtLeast ==
  ASSUME NEW n \in Nat, NEW num \in Nat, NEW den \in Nat \ {0}, num >= den,
         NEW q, Floor(q, n * num, den)
  PROVE  q >= n
<1>1. n * den <= n * num
  <2>1. den * n <= num * n
    BY TimesAtMost
  <2>2. QED
    BY <2>1
<1>2. q \in Nat /\ n * num < q * den + den
  BY DEF Floor
<1>3. q * den + den = (q + 1) * den
  BY <1>2
<1>4. n * den < (q + 1) * den
  <2>1. n * den \in Int /\ n * num \in Int /\ (q + 1) * den \in Int
    BY <1>2
  <2>2. QED
    BY <1>1, <1>2, <1>3, <2>1
<1>5. n < q + 1
  BY <1>2, <1>4, TimesLess
<1>6. QED
  BY <1>2, <1>5

\* Cut after scaling, two numbers are in their old proportion up to one.
LEMMA ScaledCross ==
  ASSUME NEW a \in Nat, NEW b \in Nat, NEW num \in Nat, NEW den \in Nat \ {0},
         NEW f, Floor(f, a * num, den), NEW g, Floor(g, b * num, den)
  PROVE  f * b - g * a <= a
<1>1. f \in Nat /\ g \in Nat /\ f * den <= a * num /\ b * num < g * den + den
  BY DEF Floor
<1>2. (f * den) * b <= (a * num) * b
  <2> DEFINE x == f * den
             y == a * num
  <2>1. x \in Int /\ y \in Int /\ x <= y
    BY <1>1
  <2> HIDE DEF x, y
  <2>2. x * b <= y * b
    BY <2>1, TimesAtMost
  <2>3. QED
    BY <2>2 DEF x, y
<1>3. (b * num) * a <= ((g + 1) * den) * a
  <2> DEFINE x == b * num
             y == (g + 1) * den
  <2>1. y = g * den + den
    BY <1>1
  <2>2. x \in Int /\ y \in Int /\ x <= y
    BY <1>1, <2>1
  <2> HIDE DEF x, y
  <2>3. x * a <= y * a
    BY <2>2, TimesAtMost
  <2>4. QED
    BY <2>3 DEF x, y
<1>4. (f * den) * b = (f * b) * den /\ (a * num) * b = (b * num) * a
      /\ ((g + 1) * den) * a = ((g + 1) * a) * den
  BY <1>1
<1> DEFINE u == f * b
           w == (g + 1) * a
<1>5. u \in Int /\ w \in Int /\ w = g * a + a /\ g * a \in Int
  BY <1>1
<1>6. u * den <= w * den
  <2>1. (f * den) * b \in Int /\ (b * num) * a \in Int /\ ((g + 1) * den) * a \in Int
    BY <1>1
  <2>2. QED
    BY <1>2, <1>3, <1>4, <2>1
<1> HIDE DEF u, w
<1>7. u <= w
  <2>1. SUFFICES ASSUME w + 1 <= u PROVE FALSE
    BY <1>5
  <2>2. (w + 1) * den <= u * den
    BY <1>5, <2>1, TimesAtMost
  <2>3. (w + 1) * den = w * den + den /\ w * den \in Int /\ u * den \in Int
    BY <1>5
  <2>4. QED
    BY <1>6, <2>2, <2>3
<1>8. QED
  BY <1>5, <1>7 DEF u

\* What scaling makes of the statistic of a group.
LEMMA ScaledStatistic ==
  ASSUME ScaleIsFactor, NEW rate \in Nat, NEW s, s.size \in Nat, s.count \in Nat \ {0},
         NEW c, c = ScaleHeapSample(s, rate)
  PROVE  /\ c.size \in Nat /\ c.count \in Nat
         /\ c.size >= s.size /\ c.count >= s.count
         /\ c.size * s.count - c.count * s.size \in -s.count..s.size
<1>1. CASE s.size = 0 \/ rate <= 1
  <2>1. c = s
    BY <1>1 DEF ScaleHeapSample
  <2>2. s.size * s.count - s.count * s.size = 0
    OBVIOUS
  <2>3. QED
    BY <2>1, <2>2
<1>2. CASE ~(s.size = 0 \/ rate <= 1)
  <2> DEFINE scale == Scale(s.size, s.count, rate)
             num == scale[1]
             den == scale[2]
             size == s.size
             count == s.count
             f == (size * num) \div den
             g == (count * num) \div den
  <2>1. size \in Nat \ {0} /\ count \in Nat \ {0} /\ rate \in Nat \ {0}
    BY <1>2
  <2>2. num \in Nat /\ den \in Nat \ {0} /\ num >= den
    BY <2>1 DEF ScaleIsFactor
  <2>3. c = [size |-> f, count |-> g]
    BY <1>2 DEF ScaleHeapSample, ScaleUp
  <2>4. c.size = f /\ c.count = g
    BY <2>3
  <2> HIDE DEF scale, num, den, size, count
  <2>5. size * num \in Nat /\ count * num \in Nat
    BY <2>1, <2>2
  <2>6. Floor(f, size * num, den) /\ Floor(g, count * num, den)
    BY <2>2, <2>5, DivFloor
  <2> HIDE DEF f, g
  <2>7. f \in Nat /\ g \in Nat
    BY <2>6 DEF Floor
  <2>8. f >= size /\ g >= count
    BY <2>1, <2>2, <2>6, ScaledAtLeast
  <2>9. f * count - g * size <= size
    BY <2>1, <2>2, <2>6, ScaledCross
  <2>10. g * size - f * count <= count
    BY <2>1, <2>2, <2>6, ScaledCross
  <2>11. f * count \in Int /\ g * size \in Int
    BY <2>1, <2>7
  <2>12. f * count - g * size \in -count..size
    BY <2>1, <2>9, <2>10, <2>11
  <2>13. QED
    BY <2>4, <2>7, <2>8, <2>12 DEF size, count
<1>3. QED
  BY <1>1, <1>2

\* The groups of a snapshot are those before scaling.
LEMMA GroupsTyped ==
  ASSUME ScaleIsFactor, NEW snap \in Snapshot, NEW call \in GroupCalls,
         NEW raw, raw = RawGroups(snap.traces, call[1], call[2]),
         NEW grouped, grouped = GroupBy(snap, call[1], call[2])
  PROVE  /\ DOMAIN grouped = DOMAIN raw
         /\ \A tb \in DOMAIN raw :
              /\ raw[tb].size \in Nat /\ raw[tb].count \in Nat \ {0}
              /\ grouped[tb] = ScaleHeapSample(raw[tb], snap.sample_rate)
         /\ AreGroups(grouped)
<1>1. snap.traces \in Seq(Trace) /\ snap.sample_rate \in Nat
  BY SnapshotTyped
<1>2. /\ IsFiniteSet(DOMAIN raw) /\ DOMAIN raw \subseteq Seq(Frame)
      /\ \A tb \in DOMAIN raw : raw[tb].size \in Nat /\ raw[tb].count \in Nat \ {0}
  BY <1>1, RawTyped
<1>3. grouped = [tb \in DOMAIN raw |-> ScaleHeapSample(raw[tb], snap.sample_rate)]
  BY GroupByIs
<1>4. DOMAIN grouped = DOMAIN raw
      /\ \A tb \in DOMAIN raw : grouped[tb] = ScaleHeapSample(raw[tb], snap.sample_rate)
  BY <1>3
<1>5. ASSUME NEW tb \in DOMAIN raw PROVE grouped[tb].size \in Nat /\ grouped[tb].count \in Nat
  BY <1>1, <1>2, <1>4, ScaledStatistic
<1>6. AreGroups(grouped)
  BY <1>2, <1>4, <1>5 DEF AreGroups
<1>7. QED
  BY <1>2, <1>4, <1>6

LEMMA AveragesAreKept ==
  ASSUME ScaleIsFactor, TypeOK
  PROVE  ScalingKeepsAverage
<1> SUFFICES ASSUME NEW call \in GroupCalls,
                    NEW tb \in DOMAIN GroupBy([new EXCEPT !.sample_rate = 0], call[1], call[2])
             PROVE  LET sampled == GroupBy([new EXCEPT !.sample_rate = 0], call[1], call[2])
                        scaled == GroupBy(new, call[1], call[2])
                        s == sampled[tb]
                        c == scaled[tb]
                    IN /\ c.size >= s.size /\ c.count >= s.count
                       /\ c.size * s.count - c.count * s.size \in -s.count..s.size
  BY DEF ScalingKeepsAverage
<1> DEFINE snap == [new EXCEPT !.sample_rate = 0]
           sampled == GroupBy(snap, call[1], call[2])
           scaled == GroupBy(new, call[1], call[2])
           raw == RawGroups(new.traces, call[1], call[2])
<1>1. snap.traces = new.traces /\ snap.sample_rate = 0
  BY DEF TypeOK, Snapshot
<1>2. sampled = [k \in DOMAIN raw |-> ScaleHeapSample(raw[k], 0)]
  <2> HIDE DEF snap
  <2>1. raw = RawGroups(snap.traces, call[1], call[2])
    BY <1>1
  <2> HIDE DEF raw
  <2>2. QED
    BY <1>1, <2>1, GroupByIs
<1>3. \A s : ScaleHeapSample(s, 0) = s
  BY DEF ScaleHeapSample
<1> HIDE DEF raw, snap, sampled, scaled
<1>4. tb \in DOMAIN raw /\ sampled[tb] = raw[tb]
  <2>1. tb \in DOMAIN sampled
    BY DEF sampled, snap
  <2>2. QED
    BY <1>2, <1>3, <2>1
<1>5. /\ raw[tb].size \in Nat /\ raw[tb].count \in Nat \ {0}
      /\ scaled[tb] = ScaleHeapSample(raw[tb], new.sample_rate)
  <2>1. new \in Snapshot
    BY DEF TypeOK
  <2>2. raw = RawGroups(new.traces, call[1], call[2])
    BY DEF raw
  <2>3. scaled = GroupBy(new, call[1], call[2])
    BY DEF scaled
  <2>4. \A k \in DOMAIN raw :
          /\ raw[k].size \in Nat /\ raw[k].count \in Nat \ {0}
          /\ scaled[k] = ScaleHeapSample(raw[k], new.sample_rate)
    BY <2>1, <2>2, <2>3, GroupsTyped
  <2>5. QED
    BY <1>4, <2>4
<1>6. new.sample_rate \in Nat
  BY SnapshotTyped DEF TypeOK
<1> DEFINE s == sampled[tb]
           c == scaled[tb]
<1>7. s.size \in Nat /\ s.count \in Nat \ {0} /\ c = ScaleHeapSample(s, new.sample_rate)
  BY <1>4, <1>5
<1> HIDE DEF s, c
<1>8. /\ c.size >= s.size /\ c.count >= s.count
      /\ c.size * s.count - c.count * s.size \in -s.count..s.size
  BY <1>6, <1>7, ScaledStatistic
<1>9. QED
  BY <1>8 DEF s, c, sampled, scaled, snap

\* Scaling for sampling keeps the average size of the blocks of each group, up
\* to the cuts to integers: Snapshot._scale_heap_sample, when scale is the same
\* fraction for the size and the count.
THEOREM ScalingKeepsAverages ==
  ASSUME ScaleIsFactor
  PROVE  Spec => []ScalingKeepsAverage
<1>1. TypeOK => ScalingKeepsAverage
  BY AveragesAreKept
<1>2. QED
  BY <1>1, SnapshotsTyped, PTL

-----------------------------------------------------------------------------
\* Differences.  list has each group of either snapshot once.

GroupSizes(grouped, T) == [tb \in T |-> StatisticOf(grouped, tb).size]
GroupCounts(grouped, T) == [tb \in T |-> StatisticOf(grouped, tb).count]

ListsTracebacks(list, T) ==
  /\ Len(list) \in Nat /\ DOMAIN list = 1..Len(list)
  /\ Renames([i \in DOMAIN list |-> list[i].traceback], DOMAIN list, T)

ListsDiffs(list, previous, current, T) ==
  \A i \in DOMAIN list :
    LET p == StatisticOf(previous, list[i].traceback)
        c == StatisticOf(current, list[i].traceback)
    IN /\ list[i].size = c.size /\ list[i].size_diff = c.size - p.size
       /\ list[i].count = c.count /\ list[i].count_diff = c.count - p.count

LEMMA StatisticTyped ==
  ASSUME NEW grouped, AreGroups(grouped), NEW tb
  PROVE  StatisticOf(grouped, tb).size \in Int /\ StatisticOf(grouped, tb).count \in Int
  BY DEF AreGroups, StatisticOf, NoStatistic

\* No group is in both loops of _compare_grouped_stats.
LEMMA DifferencesAre ==
  ASSUME NEW previous, AreGroups(previous), NEW current, AreGroups(current),
         NEW T, T = DOMAIN previous \cup DOMAIN current
  PROVE  /\ IsFiniteSet(T) /\ T \subseteq Seq(Frame)
         /\ CompareGroupedStats(previous, current)
              = {Diff(tb, StatisticOf(current, tb), StatisticOf(previous, tb)) : tb \in T}
<1>1. IsFiniteSet(T) /\ T \subseteq Seq(Frame)
  BY FS_Union DEF AreGroups
<1> DEFINE D(tb) == Diff(tb, StatisticOf(current, tb), StatisticOf(previous, tb))
<1>2. ASSUME NEW tb \in DOMAIN current
      PROVE  Diff(tb, current[tb], StatisticOf(previous, tb)) = D(tb)
  BY DEF StatisticOf
<1>3. ASSUME NEW tb \in DOMAIN previous \ DOMAIN current
      PROVE  Diff(tb, NoStatistic, previous[tb]) = D(tb)
  BY DEF StatisticOf
<1> HIDE DEF D
<1>4. CompareGroupedStats(previous, current) = {D(tb) : tb \in T}
  BY <1>2, <1>3 DEF CompareGroupedStats
<1>5. QED
  BY <1>1, <1>4 DEF D

LEMMA DifferencesList ==
  ASSUME NEW snap, NEW old_snapshot, NEW key_type, NEW cumulative,
         NEW previous, previous = GroupBy(old_snapshot, key_type, cumulative), AreGroups(previous),
         NEW current, current = GroupBy(snap, key_type, cumulative), AreGroups(current),
         NEW T, T = DOMAIN previous \cup DOMAIN current,
         NEW list, list = CompareTo(snap, old_snapshot, key_type, cumulative)
  PROVE  ListsTracebacks(list, T) /\ ListsDiffs(list, previous, current, T)
<1> DEFINE D(tb) == Diff(tb, StatisticOf(current, tb), StatisticOf(previous, tb))
           diffs == CompareGroupedStats(previous, current)
           key == [d \in diffs |-> StatisticDiffKey(d)]
<1>1. list = Sorted(diffs, key)
  BY DEF CompareTo
<1>2. IsFiniteSet(T) /\ T \subseteq Seq(Frame) /\ diffs = {D(tb) : tb \in T}
  BY DifferencesAre
<1>3. ASSUME NEW tb \in T
      PROVE  /\ D(tb).traceback = tb
             /\ D(tb).size = StatisticOf(current, tb).size
             /\ D(tb).size_diff = StatisticOf(current, tb).size - StatisticOf(previous, tb).size
             /\ D(tb).count = StatisticOf(current, tb).count
             /\ D(tb).count_diff = StatisticOf(current, tb).count - StatisticOf(previous, tb).count
  BY DEF Diff
<1>4. \A tb \in T : /\ StatisticOf(current, tb).size \in Int /\ StatisticOf(current, tb).count \in Int
                    /\ StatisticOf(previous, tb).size \in Int /\ StatisticOf(previous, tb).count \in Int
  BY StatisticTyped
<1> HIDE DEF D, diffs, key
<1>5. AreDiffs(diffs)
  <2>1. \A d \in diffs : d.traceback \in Seq(Frame) /\ d.size \in Int /\ d.count \in Int
    BY <1>2, <1>3, <1>4
  <2>2. \A d \in diffs : d.size_diff \in Int /\ d.count_diff \in Int
    BY <1>2, <1>3, <1>4
  <2>3. \A d, e \in diffs : d.traceback = e.traceback => d = e
    BY <1>2, <1>3
  <2>4. QED
    BY <2>1, <2>2, <2>3 DEF AreDiffs, AreStatistics
<1>6. IsFiniteSet(diffs)
  <2> DEFINE f == [tb \in T |-> D(tb)]
  <2>1. f \in Surjection(T, diffs)
    BY <1>2 DEF Surjection
  <2> HIDE DEF f
  <2>2. QED
    BY <1>2, <2>1, FS_Surjection
<1>7. DistinctKeys(diffs, key)
  BY <1>5, DiffKeysDiffer DEF key
<1>8. /\ DOMAIN list = 1..Cardinality(diffs) /\ Len(list) = Cardinality(diffs)
      /\ Renames(list, 1..Cardinality(diffs), diffs)
  BY <1>1, <1>6, <1>7, SortedLists
<1>9. Cardinality(diffs) \in Nat
  BY <1>6, FS_CardinalityType
<1>10. ASSUME NEW i \in DOMAIN list
       PROVE  \E tb \in T : list[i] = D(tb) /\ list[i].traceback = tb
  BY <1>2, <1>3, <1>8 DEF Renames
<1>11. Renames([i \in DOMAIN list |-> list[i].traceback], DOMAIN list, T)
  <2> DEFINE f == [i \in DOMAIN list |-> list[i].traceback]
  <2>1. \A i \in DOMAIN list : f[i] = list[i].traceback /\ f[i] \in T
    BY <1>10
  <2>2. \A i, j \in DOMAIN list : list[i].traceback = list[j].traceback => list[i] = list[j]
    BY <1>10
  <2>3. \A i, j \in DOMAIN list : list[i] = list[j] => i = j
    BY <1>8 DEF Renames
  <2>4. ASSUME NEW tb \in T PROVE \E i \in DOMAIN list : list[i].traceback = tb
    <3>1. D(tb) \in diffs
      BY <1>2
    <3>2. PICK i \in DOMAIN list : list[i] = D(tb)
      BY <1>8, <3>1 DEF Renames
    <3>3. QED
      BY <1>3, <3>2
  <2> HIDE DEF f
  <2>5. QED
    BY <2>1, <2>2, <2>3, <2>4 DEF Renames, f
<1>12. ListsTracebacks(list, T)
  BY <1>8, <1>9, <1>11 DEF ListsTracebacks
<1>13. ListsDiffs(list, previous, current, T)
  BY <1>3, <1>10 DEF ListsDiffs
<1>14. QED
  BY <1>12, <1>13

\* A list of groups adds up what its groups do.
LEMMA ListTotal ==
  ASSUME NEW list, NEW T, ListsTracebacks(list, T),
         NEW v, \A tb \in T : v[tb] \in Int,
         NEW w, \A i \in DOMAIN list : w[i] = v[list[i].traceback]
  PROVE  SumOver(w, DOMAIN list) = SumOf(v, T)
<1> DEFINE f == [i \in DOMAIN list |-> list[i].traceback]
<1>1. Renames(f, DOMAIN list, T) /\ IsFiniteSet(DOMAIN list)
  BY FS_Interval DEF ListsTracebacks
<1>2. \A i \in DOMAIN list : w[i] = v[f[i]]
  OBVIOUS
<1> HIDE DEF f
<1>3. SumOf(w, DOMAIN list) = SumOf(v, T)
  BY <1>1, <1>2, SumRenamed
<1>4. QED
  BY <1>1, <1>3, SumOverIs

LEMMA ListTracebacks ==
  ASSUME NEW list, NEW T, ListsTracebacks(list, T)
  PROVE  /\ {d.traceback : d \in ToSet(list)} = T
         /\ IsFiniteSet(T) /\ Len(list) = Cardinality(T)
<1> DEFINE f == [i \in DOMAIN list |-> list[i].traceback]
<1>1. /\ Renames(f, DOMAIN list, T) /\ DOMAIN list = 1..Len(list) /\ Len(list) \in Nat
  BY DEF ListsTracebacks
<1>2. {d.traceback : d \in ToSet(list)} = T
  BY <1>1 DEF Renames, ToSet
<1>3. f \in Bijection(1..Len(list), T)
  BY <1>1 DEF Renames, Bijection, Injection, Surjection, IsInjective
<1> HIDE DEF f
<1>4. ExistsBijection(1..Len(list), T)
  BY <1>3 DEF ExistsBijection
<1>5. Cardinality(T) = Len(list)
  BY <1>1, <1>4, FS_CountingElements
<1>6. IsFiniteSet(1..Len(list))
  BY <1>1, FS_Interval
<1>7. IsFiniteSet(T)
  BY <1>4, <1>6, FS_Bijection
<1>8. QED
  BY <1>2, <1>5, <1>7

\* statistics() adds up what its groups do, and groups it does not have.
LEMMA StatisticsTotals ==
  ASSUME NEW grouped, AreGroups(grouped), NEW list, Lists(list, grouped),
         NEW T, IsFiniteSet(T), DOMAIN grouped \subseteq T
  PROVE  /\ TotalSize(list) = SumOf(GroupSizes(grouped, T), T)
         /\ TotalCount(list) = SumOf(GroupCounts(grouped, T), T)
         /\ {s.traceback : s \in ToSet(list)} = DOMAIN grouped
<1> DEFINE G == DOMAIN grouped
           sizes == GroupSizes(grouped, T)
           counts == GroupCounts(grouped, T)
           listed == [i \in DOMAIN list |-> list[i].size]
           listedCounts == [i \in DOMAIN list |-> list[i].count]
<1>1. ListsTracebacks(list, G)
  BY DEF Lists, ListsTracebacks, Renames
<1>2. \A tb \in T : sizes[tb] \in Int /\ counts[tb] \in Int
  BY StatisticTyped DEF GroupSizes, GroupCounts
<1>3. \A tb \in T \ G : sizes[tb] = 0 /\ counts[tb] = 0
  BY DEF GroupSizes, GroupCounts, StatisticOf, NoStatistic
<1>4. \A tb \in G : sizes[tb] = grouped[tb].size /\ counts[tb] = grouped[tb].count
  BY DEF GroupSizes, GroupCounts, StatisticOf
<1>5. \A i \in DOMAIN list : listed[i] = sizes[list[i].traceback]
                             /\ listedCounts[i] = counts[list[i].traceback]
  BY <1>4 DEF Lists
<1>6. TotalSize(list) = SumOver(listed, DOMAIN list) /\ TotalCount(list) = SumOver(listedCounts, DOMAIN list)
  BY DEF TotalSize, TotalCount
<1>7. G \in SUBSET T
  OBVIOUS
<1> HIDE DEF G, sizes, counts, listed, listedCounts
<1>8. TotalSize(list) = SumOf(sizes, G) /\ TotalCount(list) = SumOf(counts, G)
  BY <1>1, <1>2, <1>5, <1>6, <1>7, ListTotal
<1>9. SumOf(sizes, T) = SumOf(sizes, G) /\ SumOf(counts, T) = SumOf(counts, G)
  BY <1>2, <1>3, <1>7, SumZeros
<1>10. {s.traceback : s \in ToSet(list)} = G
  BY <1>1, ListTracebacks
<1>11. QED
  BY <1>8, <1>9, <1>10 DEF G, sizes, counts

\* compare_to() adds up what its groups do, in size and in change of size.
LEMMA DifferencesTotals ==
  ASSUME NEW previous, AreGroups(previous), NEW current, AreGroups(current),
         NEW T, NEW list, ListsTracebacks(list, T), ListsDiffs(list, previous, current, T)
  PROVE  /\ TotalSize(list) = SumOf(GroupSizes(current, T), T)
         /\ TotalCount(list) = SumOf(GroupCounts(current, T), T)
         /\ TotalSizeDiff(list) = SumOf(GroupSizes(current, T), T) - SumOf(GroupSizes(previous, T), T)
         /\ TotalCountDiff(list) = SumOf(GroupCounts(current, T), T) - SumOf(GroupCounts(previous, T), T)
<1> DEFINE size == GroupSizes(current, T)
           count == GroupCounts(current, T)
           oldSize == GroupSizes(previous, T)
           oldCount == GroupCounts(previous, T)
           sizeDiff == [tb \in T |-> size[tb] - oldSize[tb]]
           countDiff == [tb \in T |-> count[tb] - oldCount[tb]]
           I == DOMAIN list
           w1 == [i \in I |-> list[i].size]
           w2 == [i \in I |-> list[i].count]
           w3 == [i \in I |-> list[i].size_diff]
           w4 == [i \in I |-> list[i].count_diff]
<1>1. IsFiniteSet(T)
  BY ListTracebacks
<1>2. \A tb \in T : size[tb] \in Int /\ count[tb] \in Int /\ oldSize[tb] \in Int /\ oldCount[tb] \in Int
  BY StatisticTyped DEF GroupSizes, GroupCounts
<1>3. \A i \in I : list[i].traceback \in T
  BY DEF ListsTracebacks, Renames
<1>4. ASSUME NEW i \in I
      PROVE  /\ list[i].size = size[list[i].traceback]
             /\ list[i].count = count[list[i].traceback]
             /\ list[i].size_diff = size[list[i].traceback] - oldSize[list[i].traceback]
             /\ list[i].count_diff = count[list[i].traceback] - oldCount[list[i].traceback]
  BY <1>3 DEF ListsDiffs, GroupSizes, GroupCounts
<1>5. /\ TotalSize(list) = SumOver(w1, I) /\ TotalCount(list) = SumOver(w2, I)
      /\ TotalSizeDiff(list) = SumOver(w3, I) /\ TotalCountDiff(list) = SumOver(w4, I)
  BY DEF TotalSize, TotalCount, TotalSizeDiff, TotalCountDiff
<1> HIDE DEF size, count, oldSize, oldCount
<1>6. \A tb \in T : /\ sizeDiff[tb] = size[tb] - oldSize[tb] /\ sizeDiff[tb] \in Int
                    /\ countDiff[tb] = count[tb] - oldCount[tb] /\ countDiff[tb] \in Int
  BY <1>2
<1>7. \A i \in I : /\ w1[i] = size[list[i].traceback] /\ w2[i] = count[list[i].traceback]
                   /\ w3[i] = sizeDiff[list[i].traceback] /\ w4[i] = countDiff[list[i].traceback]
  BY <1>3, <1>4
<1> HIDE DEF sizeDiff, countDiff, w1, w2, w3, w4
<1>8. SumOver(w1, I) = SumOf(size, T) /\ SumOver(w2, I) = SumOf(count, T)
  BY <1>2, <1>7, ListTotal
<1>9. SumOver(w3, I) = SumOf(sizeDiff, T) /\ SumOver(w4, I) = SumOf(countDiff, T)
  BY <1>6, <1>7, ListTotal
<1>10. /\ SumOf(sizeDiff, T) = SumOf(size, T) - SumOf(oldSize, T)
       /\ SumOf(countDiff, T) = SumOf(count, T) - SumOf(oldCount, T)
  BY <1>1, <1>2, <1>6, SumMinus
<1>11. QED
  BY <1>5, <1>8, <1>9, <1>10 DEF size, count, oldSize, oldCount

LEMMA DifferencesAreRight ==
  ASSUME ScaleIsFactor, TypeOK
  PROVE  DiffsAddUp
<1> SUFFICES ASSUME NEW call \in GroupCalls
             PROVE  LET diffs == CompareTo(new, old, call[1], call[2])
                        news == Statistics(new, call[1], call[2])
                        olds == Statistics(old, call[1], call[2])
                    IN /\ Len(diffs) = Cardinality({d.traceback : d \in ToSet(diffs)})
                       /\ {d.traceback : d \in ToSet(diffs)} = {s.traceback : s \in ToSet(news) \cup ToSet(olds)}
                       /\ TotalSize(diffs) = TotalSize(news) /\ TotalCount(diffs) = TotalCount(news)
                       /\ TotalSizeDiff(diffs) = TotalSize(news) - TotalSize(olds)
                       /\ TotalCountDiff(diffs) = TotalCount(news) - TotalCount(olds)
  BY DEF DiffsAddUp
<1> DEFINE diffs == CompareTo(new, old, call[1], call[2])
           news == Statistics(new, call[1], call[2])
           olds == Statistics(old, call[1], call[2])
           previous == GroupBy(old, call[1], call[2])
           current == GroupBy(new, call[1], call[2])
           T == DOMAIN previous \cup DOMAIN current
<1>1. AreGroups(previous) /\ AreGroups(current)
  <2>1. old \in Snapshot /\ new \in Snapshot
    BY DEF TypeOK
  <2>2. QED
    BY <2>1, GroupsTyped
<1>2. Lists(news, current) /\ Lists(olds, previous)
  BY <1>1, StatisticsList
<1>3. ListsTracebacks(diffs, T) /\ ListsDiffs(diffs, previous, current, T)
  BY <1>1, DifferencesList
<1>4. /\ DOMAIN previous \subseteq T /\ DOMAIN current \subseteq T
  OBVIOUS
<1>5. DOMAIN previous \cup DOMAIN current = T
  OBVIOUS
<1> HIDE DEF diffs, news, olds, previous, current, T
<1>6. /\ {d.traceback : d \in ToSet(diffs)} = T
      /\ IsFiniteSet(T) /\ Len(diffs) = Cardinality(T)
  BY <1>3, ListTracebacks
<1>7. /\ TotalSize(news) = SumOf(GroupSizes(current, T), T)
      /\ TotalCount(news) = SumOf(GroupCounts(current, T), T)
      /\ {s.traceback : s \in ToSet(news)} = DOMAIN current
  BY <1>1, <1>2, <1>4, <1>6, StatisticsTotals
<1>8. /\ TotalSize(olds) = SumOf(GroupSizes(previous, T), T)
      /\ TotalCount(olds) = SumOf(GroupCounts(previous, T), T)
      /\ {s.traceback : s \in ToSet(olds)} = DOMAIN previous
  BY <1>1, <1>2, <1>4, <1>6, StatisticsTotals
<1>9. /\ TotalSize(diffs) = TotalSize(news) /\ TotalCount(diffs) = TotalCount(news)
      /\ TotalSizeDiff(diffs) = TotalSize(news) - TotalSize(olds)
      /\ TotalCountDiff(diffs) = TotalCount(news) - TotalCount(olds)
  BY <1>1, <1>3, <1>7, <1>8, DifferencesTotals
<1>10. {s.traceback : s \in ToSet(news) \cup ToSet(olds)} = T
  <2>1. {s.traceback : s \in ToSet(news) \cup ToSet(olds)}
          = {s.traceback : s \in ToSet(news)} \cup {s.traceback : s \in ToSet(olds)}
    OBVIOUS
  <2>2. QED
    BY <1>5, <1>7, <1>8, <2>1
<1>11. Len(diffs) = Cardinality({d.traceback : d \in ToSet(diffs)})
  BY ONLY <1>6, Zenon
<1>12. QED
  BY <1>6, <1>9, <1>10, <1>11 DEF diffs, news, olds

\* compare_to() accounts for the whole change between any two snapshots:
\* Snapshot.compare_to and Snapshot._compare_grouped_stats.
THEOREM DifferencesAddUp ==
  ASSUME ScaleIsFactor
  PROVE  Spec => []DiffsAddUp
<1>1. TypeOK => DiffsAddUp
  BY DifferencesAreRight
<1>2. QED
  BY <1>1, SnapshotsTyped, PTL

-----------------------------------------------------------------------------
\* Filtering.  Places of one set that are renamed to some of another have the
\* groups of those.

LEMMA CardinalityRenamed ==
  ASSUME NEW S, IsFiniteSet(S), NEW T, NEW f, Renames(f, S, T)
  PROVE  IsFiniteSet(T) /\ Cardinality(T) = Cardinality(S)
<1> DEFINE g == [x \in S |-> f[x]]
<1>1. g \in Bijection(S, T)
  BY DEF Renames, Bijection, Injection, Surjection, IsInjective
<1> HIDE DEF g
<1>2. ExistsBijection(S, T)
  BY <1>1 DEF ExistsBijection
<1>3. QED
  BY <1>2, FS_Bijection

LEMMA GroupRenamed ==
  ASSUME NEW R, IsFiniteSet(R), NEW L, NEW Y,
         NEW P, NEW K, NEW Z, \A p \in P : Z[p] \in Int,
         NEW Q \in SUBSET P, NEW g, Renames(g, R, Q),
         \A r \in R : L[r] = K[g[r]] /\ Y[r] = Z[g[r]],
         NEW key, At(P, K, key) \subseteq Q
  PROVE  /\ GroupOf(R, L, Y, key) = GroupOf(P, K, Z, key)
         /\ key \in KeysOf(R, L) <=> key \in KeysOf(P, K)
<1> DEFINE A == At(R, L, key)
           B == At(P, K, key)
<1>1. Renames(g, A, B)
  BY DEF Renames, At
<1>2. IsFiniteSet(A) /\ A \subseteq R
  BY FS_Subset DEF At
<1>3. \A x \in A : Y[x] = Z[g[x]]
  BY <1>2
<1>4. \A z \in B : Z[z] \in Int
  BY DEF At
<1>5. key \in KeysOf(R, L) <=> \E r \in R : r \in A
  BY DEF KeysOf, At
<1>6. key \in KeysOf(P, K) <=> \E p \in P : p \in B
  BY DEF KeysOf, At
<1>7. GroupOf(R, L, Y, key) = [size |-> SumOf(Y, A), count |-> Cardinality(A)]
      /\ GroupOf(P, K, Z, key) = [size |-> SumOf(Z, B), count |-> Cardinality(B)]
  BY DEF GroupOf
<1>8. A \subseteq R /\ B \subseteq P
  BY DEF At
<1> HIDE DEF A, B
<1>9. SumOf(Y, A) = SumOf(Z, B) /\ Cardinality(A) = Cardinality(B)
  BY <1>1, <1>2, <1>3, <1>4, SumRenamed, CardinalityRenamed
<1>10. GroupOf(R, L, Y, key) = GroupOf(P, K, Z, key)
  BY <1>7, <1>9
<1>11. (\E r \in R : r \in A) <=> (\E p \in P : p \in B)
  BY <1>1, <1>8 DEF Renames
<1>12. QED
  BY <1>5, <1>6, <1>10, <1>11

\* The filters on the key of a trace, as FilterSelectsGroups says them.
MatchesKey(f, key) ==
  \E i \in (IF f.all_frames THEN DOMAIN key ELSE {Len(key)}) : MatchFrame(f, key[i])

PassesKey(filters, key) ==
  /\ \/ \A f \in filters : ~f.inclusive
     \/ \E f \in filters : f.inclusive /\ MatchesKey(f, key)
  /\ ~\E f \in filters : ~f.inclusive /\ MatchesKey(f, key)

LEMMA MatchesReversed ==
  ASSUME NEW f, f.all_frames \in BOOLEAN, f.inclusive \in BOOLEAN,
         NEW tb \in Seq(Frame), Len(tb) > 0
  PROVE  MatchTraceback(f, tb) <=> (MatchesKey(f, Reverse(tb)) <=> f.inclusive)
<1> DEFINE key == Reverse(tb)
<1>1. /\ Len(key) = Len(tb) /\ DOMAIN key = 1..Len(tb) /\ DOMAIN tb = 1..Len(tb)
      /\ \A i \in 1..Len(tb) : key[i] = tb[(Len(tb) - i) + 1]
  BY DEF Reverse
<1>2. Len(tb) \in Nat
  OBVIOUS
<1> HIDE DEF key
<1>3. CASE f.all_frames
  <2>1. ASSUME NEW i \in DOMAIN tb, MatchFrame(f, tb[i])
        PROVE  \E j \in DOMAIN key : MatchFrame(f, key[j])
    <3> DEFINE j == (Len(tb) - i) + 1
    <3>1. j \in DOMAIN key /\ (Len(tb) - j) + 1 = i
      BY <1>1, <1>2
    <3> HIDE DEF j
    <3>2. key[j] = tb[i]
      BY <1>1, <3>1
    <3>3. MatchFrame(f, key[j])
      BY <2>1, <3>2, Zenon
    <3>4. QED
      BY <3>1, <3>3
  <2>2. ASSUME NEW j \in DOMAIN key, MatchFrame(f, key[j])
        PROVE  \E i \in DOMAIN tb : MatchFrame(f, tb[i])
    <3> DEFINE i == (Len(tb) - j) + 1
    <3>1. i \in DOMAIN tb /\ key[j] = tb[i]
      BY <1>1, <1>2
    <3> HIDE DEF i
    <3>2. MatchFrame(f, tb[i])
      BY <2>2, <3>1, Zenon
    <3>3. QED
      BY <3>1, <3>2
  <2>3. MatchesKey(f, key) <=> \E j \in DOMAIN key : MatchFrame(f, key[j])
    BY <1>3 DEF MatchesKey
  <2>4. MatchTraceback(f, tb) <=> ((\E i \in DOMAIN tb : MatchFrame(f, tb[i])) <=> f.inclusive)
    BY <1>3 DEF MatchTraceback
  <2>5. (\E j \in DOMAIN key : MatchFrame(f, key[j])) <=> (\E i \in DOMAIN tb : MatchFrame(f, tb[i]))
    BY <2>1, <2>2
  <2>6. QED
    BY <2>3, <2>4, <2>5 DEF key
<1>4. CASE ~f.all_frames
  <2>1. key[Len(key)] = tb[1]
    <3>1. Len(tb) \in 1..Len(tb) /\ (Len(tb) - Len(tb)) + 1 = 1
      BY <1>2
    <3>2. key[Len(tb)] = tb[1]
      BY <1>1, <3>1
    <3>3. QED
      BY <1>1, <3>2
  <2>2. MatchesKey(f, key) <=> MatchFrame(f, key[Len(key)])
    BY <1>4 DEF MatchesKey
  <2>3. MatchTraceback(f, tb) <=> (MatchFrame(f, tb[1]) <=> f.inclusive)
    BY <1>4 DEF MatchTraceback
  <2>4. MatchFrame(f, key[Len(key)]) <=> MatchFrame(f, tb[1])
    BY <2>1, Zenon
  <2>5. QED
    BY <2>2, <2>3, <2>4 DEF key
<1>5. QED
  BY <1>3, <1>4

LEMMA PassesReversed ==
  ASSUME NEW filters \in FilterLists, NEW include, NEW exclude,
         include = {f \in filters : f.inclusive}, exclude = filters \ include,
         NEW trace \in Trace
  PROVE  FilterTrace(include, exclude, trace) <=> PassesKey(filters, Reverse(trace.traceback))
<1> DEFINE tb == trace.traceback
           key == Reverse(tb)
<1>1. tb \in Seq(Frame) /\ Len(tb) > 0
  BY TraceTyped, TracebackTyped
<1>2. \A f \in filters : f.inclusive \in BOOLEAN /\ f.all_frames \in BOOLEAN
  BY StatisticsAssumption DEF Filter
<1>3. \A f \in filters : MatchTraceback(f, tb) <=> (MatchesKey(f, key) <=> f.inclusive)
  BY <1>1, <1>2, MatchesReversed
<1>4. FilterTrace(include, exclude, trace)
        <=> /\ include # {} => \E f \in include : MatchTraceback(f, tb)
            /\ \A f \in exclude : MatchTraceback(f, tb)
  BY DEF FilterTrace
<1> HIDE DEF tb, key
<1>5. \A f \in include : f \in filters /\ f.inclusive /\ (MatchTraceback(f, tb) <=> MatchesKey(f, key))
  BY <1>2, <1>3
<1>6. \A f \in exclude : f \in filters /\ ~f.inclusive /\ (MatchTraceback(f, tb) <=> ~MatchesKey(f, key))
  BY <1>2, <1>3
<1>7. \A f \in filters : (f.inclusive => f \in include) /\ (~f.inclusive => f \in exclude)
  OBVIOUS
<1>8. PassesKey(filters, key)
        <=> /\ \/ \A f \in filters : ~f.inclusive
               \/ \E f \in filters : f.inclusive /\ MatchesKey(f, key)
            /\ ~\E f \in filters : ~f.inclusive /\ MatchesKey(f, key)
  BY DEF PassesKey
<1>9. (include # {} => \E f \in include : MatchTraceback(f, tb))
        <=> \/ \A f \in filters : ~f.inclusive
            \/ \E f \in filters : f.inclusive /\ MatchesKey(f, key)
  BY <1>5, <1>7
<1>10. (\A f \in exclude : MatchTraceback(f, tb))
         <=> ~\E f \in filters : ~f.inclusive /\ MatchesKey(f, key)
  BY <1>6, <1>7
<1>11. QED
  BY <1>4, <1>8, <1>9, <1>10 DEF tb, key

\* Grouping by traceback, the places are the traces.
ByTraceback(call) == call = <<"traceback", FALSE>>

OncePlaces(traces, P, K, Z) ==
  /\ \A p \in P :
       /\ p[1] \in 1..Len(traces) /\ p = <<p[1], 1>>
       /\ K[p] = Reverse(traces[p[1]].traceback)
       /\ Z[p] = traces[p[1]].size /\ Z[p] \in Nat
  /\ \A n \in 1..Len(traces) : <<n, 1>> \in P

LEMMA TracebackPlaces ==
  ASSUME NEW traces \in Seq(Trace), NEW call, ByTraceback(call),
         NEW P, P = Places(traces, call[2]), NEW K, K = KeyAt(traces, call[1], call[2]),
         NEW Z, Z = SizeAt(traces, call[2])
  PROVE  call \in GroupCalls /\ OncePlaces(traces, P, K, Z)
<1>1. call \in GroupCalls
  BY DEF GroupCalls, ByTraceback
<1>2. call[1] = "traceback" /\ call[2] = FALSE
  BY DEF ByTraceback
<1>3. call[2] \in BOOLEAN /\ ~call[2]
  BY <1>2
<1>4. ASSUME NEW p \in P
      PROVE  /\ p[1] \in 1..Len(traces) /\ p = <<p[1], 1>>
             /\ K[p] = Reverse(traces[p[1]].traceback)
             /\ Z[p] = traces[p[1]].size /\ Z[p] \in Nat
  <2>1. p[1] \in 1..Len(traces) /\ p = <<p[1], p[2]>>
    BY <1>3, PlacesAre
  <2>2. p[2] = 1 /\ traces[p[1]] \in Trace
    BY <1>3, PlaceTyped
  <2>3. K[p] = KeyFor(call[1], traces[p[1]].traceback, FrameAt(traces, p))
    BY <1>1, KeyIs
  <2>4. KeyFor(call[1], traces[p[1]].traceback, FrameAt(traces, p)) = Reverse(traces[p[1]].traceback)
    BY <1>2 DEF KeyFor
  <2>5. Z[p] = traces[p[1]].size
    BY DEF SizeAt
  <2>6. QED
    BY <2>1, <2>2, <2>3, <2>4, <2>5, TraceTyped
<1>5. ASSUME NEW n \in 1..Len(traces) PROVE <<n, 1>> \in P
  <2>1. 1 \in 1..Width(traces[n], call[2])
    BY <1>3 DEF Width
  <2>2. QED
    BY <1>3, <2>1, PlacesAre
<1>6. QED
  BY <1>1, <1>4, <1>5 DEF OncePlaces

PassingPlaces(P, K, filters) == {p \in P : PassesKey(filters, K[p])}

PlacesSelected(g, R, L, Y, Q, K, Z) ==
  Renames(g, R, Q) /\ \A r \in R : L[r] = K[g[r]] /\ Y[r] = Z[g[r]]

\* The traces that filter_traces() keeps rename those that pass.
LEMMA FilterRenames ==
  ASSUME NEW snap \in Snapshot, NEW filters \in FilterLists, NEW filtered,
         filtered = FilterTraces(snap, filters), NEW call, ByTraceback(call),
         NEW P, P = Places(snap.traces, call[2]), NEW K, K = KeyAt(snap.traces, call[1], call[2]),
         NEW Z, Z = SizeAt(snap.traces, call[2]),
         NEW R, R = Places(filtered.traces, call[2]), NEW L, L = KeyAt(filtered.traces, call[1], call[2]),
         NEW Y, Y = SizeAt(filtered.traces, call[2])
  PROVE  \E g : PlacesSelected(g, R, L, Y, PassingPlaces(P, K, filters), K, Z)
<1> DEFINE include == {f \in filters : f.inclusive}
           exclude == filters \ include
           traces == snap.traces
           N == Len(traces)
<1>1. traces \in Seq(Trace) /\ N <= MaxTraces /\ N \in Nat
  BY SnapshotTyped
<1>2. PICK e, kept :
        /\ filtered = [snap EXCEPT !.traces = kept]
        /\ Selects(e, kept, traces, Passing(traces, include, exclude, N), N)
  BY <1>1, FilterSelects
<1>3. kept \in Seq(Trace) /\ Len(kept) <= N /\ Len(kept) \in Nat
  BY <1>2 DEF Selects
<1>4. filtered.traces = kept
  <2>1. Len(kept) <= MaxTraces
    BY <1>1, <1>3, StatisticsAssumption
  <2>2. QED
    BY <1>2, <1>3, <2>1, SnapshotWith
<1>5. OncePlaces(traces, P, K, Z)
  BY <1>1, TracebackPlaces
<1>6. \A p \in P : /\ p[1] \in 1..N /\ p = <<p[1], 1>>
                   /\ K[p] = Reverse(traces[p[1]].traceback) /\ Z[p] = traces[p[1]].size
  BY <1>5 DEF OncePlaces
<1>7. OncePlaces(kept, R, L, Y)
  <2>1. filtered.traces \in Seq(Trace)
    BY <1>3, <1>4
  <2>2. OncePlaces(filtered.traces, R, L, Y)
    BY <2>1, TracebackPlaces
  <2>3. QED
    BY ONLY <1>4, <2>2, Zenon
<1>8. \A r \in R : /\ r[1] \in 1..Len(kept) /\ r = <<r[1], 1>>
                   /\ L[r] = Reverse(kept[r[1]].traceback) /\ Y[r] = kept[r[1]].size
  BY <1>7 DEF OncePlaces
<1>9. ASSUME NEW i \in 1..Len(kept)
      PROVE  /\ e[i] \in 1..N /\ FilterTrace(include, exclude, traces[e[i]])
             /\ kept[i] = traces[e[i]]
  BY <1>2 DEF Selects, Renames, Passing
<1>10. \A i, j \in 1..Len(kept) : e[i] = e[j] => i = j
  BY <1>2 DEF Selects, Renames
<1>11. \A n \in 1..N : FilterTrace(include, exclude, traces[n]) => \E i \in 1..Len(kept) : e[i] = n
  BY <1>2 DEF Selects, Renames, Passing
<1>12. ASSUME NEW n \in 1..N
       PROVE  FilterTrace(include, exclude, traces[n])
                <=> PassesKey(filters, Reverse(traces[n].traceback))
  <2>1. traces[n] \in Trace
    BY <1>1
  <2>2. QED
    BY <2>1, PassesReversed
<1> DEFINE Q == PassingPlaces(P, K, filters)
           g == [r \in R |-> <<e[r[1]], 1>>]
<1> HIDE DEF include, exclude, traces, N
<1>13. \A p \in P : p \in Q <=> FilterTrace(include, exclude, traces[p[1]])
  <2>1. \A p \in P : p \in Q <=> PassesKey(filters, K[p])
    BY DEF PassingPlaces
  <2>2. \A p \in P : PassesKey(filters, K[p]) <=> PassesKey(filters, Reverse(traces[p[1]].traceback))
    BY <1>6, Zenon
  <2>3. QED
    BY <1>6, <1>12, <2>1, <2>2
<1>14. \A p \in Q : p \in P
  BY DEF PassingPlaces
<1> HIDE DEF Q
<1>15. \A r \in R : g[r] = <<e[r[1]], 1>> /\ g[r][1] = e[r[1]] /\ g[r] \in P
  <2>1. \A r \in R : r[1] \in 1..Len(kept) /\ e[r[1]] \in 1..N
    BY <1>8, <1>9
  <2>2. \A n \in 1..N : <<n, 1>> \in P
    BY <1>5 DEF OncePlaces, N
  <2>3. \A r \in R : <<e[r[1]], 1>> \in P
    BY <2>1, <2>2
  <2>4. \A r \in R : g[r] = <<e[r[1]], 1>>
    OBVIOUS
  <2>5. QED
    BY <2>3, <2>4
<1>16. \A r \in R : g[r] \in Q
  BY <1>8, <1>9, <1>13, <1>15
<1> HIDE DEF g
<1>17. ASSUME NEW r \in R, NEW s \in R, g[r] = g[s] PROVE r = s
  <2>1. e[r[1]] = e[s[1]]
    BY <1>15, <1>17
  <2>2. r[1] = s[1]
    BY <1>8, <1>10, <2>1
  <2>3. QED
    BY <1>8, <2>2
<1>18. ASSUME NEW q \in Q PROVE \E r \in R : g[r] = q
  <2>1. q \in P /\ FilterTrace(include, exclude, traces[q[1]]) /\ q[1] \in 1..N
    BY <1>6, <1>13, <1>14
  <2>2. PICK i \in 1..Len(kept) : e[i] = q[1]
    BY <1>11, <2>1
  <2> DEFINE r == <<i, 1>>
  <2>3. r \in R /\ r[1] = i
    BY <1>7 DEF OncePlaces
  <2> HIDE DEF r
  <2>4. g[r] = <<q[1], 1>>
    BY <1>15, <2>2, <2>3
  <2>5. g[r] = q
    BY <1>6, <2>1, <2>4
  <2>6. QED
    BY <2>3, <2>5
<1>19. Renames(g, R, Q)
  BY <1>16, <1>17, <1>18 DEF Renames
<1>20. ASSUME NEW r \in R PROVE L[r] = K[g[r]] /\ Y[r] = Z[g[r]]
  <2>1. kept[r[1]] = traces[e[r[1]]] /\ g[r] \in P /\ g[r][1] = e[r[1]]
    BY <1>8, <1>9, <1>15
  <2>2. K[g[r]] = Reverse(traces[e[r[1]]].traceback) /\ Z[g[r]] = traces[e[r[1]]].size
    <3>1. K[g[r]] = Reverse(traces[g[r][1]].traceback) /\ Z[g[r]] = traces[g[r][1]].size
      BY <1>6, <2>1
    <3>2. QED
      BY ONLY <2>1, <3>1, Zenon
  <2>3. L[r] = Reverse(kept[r[1]].traceback) /\ Y[r] = kept[r[1]].size
    BY <1>8
  <2>4. QED
    BY ONLY <2>1, <2>2, <2>3, Zenon
<1>21. Renames(g, R, PassingPlaces(P, K, filters))
  BY <1>19 DEF Q
<1>22. PlacesSelected(g, R, L, Y, PassingPlaces(P, K, filters), K, Z)
  BY <1>20, <1>21 DEF PlacesSelected
<1>23. QED
  BY <1>22

RawOf(raw, traces, call) ==
  LET P == Places(traces, call[2])
      K == KeyAt(traces, call[1], call[2])
  IN /\ IsFiniteSet(P) /\ DOMAIN raw = KeysOf(P, K)
     /\ \A key \in DOMAIN raw : raw[key] = GroupOf(P, K, SizeAt(traces, call[2]), key)

LEMMA RawIs ==
  ASSUME NEW traces \in Seq(Trace), NEW call \in GroupCalls,
         NEW raw, raw = RawGroups(traces, call[1], call[2])
  PROVE  RawOf(raw, traces, call)
<1> DEFINE P == Places(traces, call[2])
           K == KeyAt(traces, call[1], call[2])
           Z == SizeAt(traces, call[2])
           own == RawGroups(traces, call[1], call[2])
<1>1. /\ IsFiniteSet(P) /\ IsFiniteSet(DOMAIN own)
      /\ DOMAIN own = KeysOf(P, K) /\ DOMAIN own \subseteq Seq(Frame)
      /\ \A tb \in DOMAIN own :
           /\ own[tb] = GroupOf(P, K, Z, tb)
           /\ own[tb].size \in Nat /\ own[tb].count \in Nat \ {0}
  BY RawTyped
<1>2. raw = own
  OBVIOUS
<1> HIDE DEF own
<1>3. QED
  BY <1>1, <1>2 DEF RawOf

\* A filtered snapshot has the groups whose keys pass, as they are.
LEMMA FilteredGroups ==
  ASSUME NEW snap \in Snapshot, NEW filters \in FilterLists, NEW filtered,
         filtered = FilterTraces(snap, filters), NEW call, ByTraceback(call),
         NEW raw, raw = RawGroups(snap.traces, call[1], call[2]),
         NEW left, left = RawGroups(filtered.traces, call[1], call[2])
  PROVE  /\ \A key : key \in DOMAIN left <=> key \in DOMAIN raw /\ PassesKey(filters, key)
         /\ \A key \in DOMAIN left : left[key] = raw[key]
<1> DEFINE P == Places(snap.traces, call[2])
           K == KeyAt(snap.traces, call[1], call[2])
           Z == SizeAt(snap.traces, call[2])
           R == Places(filtered.traces, call[2])
           L == KeyAt(filtered.traces, call[1], call[2])
           Y == SizeAt(filtered.traces, call[2])
           Q == PassingPlaces(P, K, filters)
<1>1. snap.traces \in Seq(Trace) /\ filtered.traces \in Seq(Trace) /\ call \in GroupCalls
  <2>1. filtered \in Snapshot
    BY FilteredTyped
  <2>2. QED
    BY <2>1, SnapshotTyped DEF GroupCalls, ByTraceback
<1>2. /\ P = Places(snap.traces, call[2]) /\ K = KeyAt(snap.traces, call[1], call[2])
      /\ Z = SizeAt(snap.traces, call[2])
  OBVIOUS
<1>3. /\ R = Places(filtered.traces, call[2]) /\ L = KeyAt(filtered.traces, call[1], call[2])
      /\ Y = SizeAt(filtered.traces, call[2])
  OBVIOUS
<1> HIDE DEF P, K, Z, R, L, Y
<1>4. PICK g : PlacesSelected(g, R, L, Y, Q, K, Z)
  BY <1>2, <1>3, FilterRenames
<1>5. OncePlaces(snap.traces, P, K, Z)
  BY <1>1, <1>2, TracebackPlaces
<1>6. /\ IsFiniteSet(P) /\ DOMAIN raw = KeysOf(P, K)
      /\ \A key \in DOMAIN raw : raw[key] = GroupOf(P, K, Z, key)
  <2>1. raw = RawGroups(snap.traces, call[1], call[2])
    OBVIOUS
  <2>2. snap.traces \in Seq(Trace) /\ call \in GroupCalls
    BY <1>1
  <2>3. RawOf(raw, snap.traces, call)
    BY ONLY <2>1, <2>2, RawIs
  <2>4. QED
    BY ONLY <1>2, <2>3 DEF RawOf
<1>7. /\ IsFiniteSet(R) /\ DOMAIN left = KeysOf(R, L)
      /\ \A key \in DOMAIN left : left[key] = GroupOf(R, L, Y, key)
  <2>1. left = RawGroups(filtered.traces, call[1], call[2])
    OBVIOUS
  <2>2. filtered.traces \in Seq(Trace) /\ call \in GroupCalls
    BY <1>1
  <2>3. RawOf(left, filtered.traces, call)
    BY ONLY <2>1, <2>2, RawIs
  <2>4. QED
    BY ONLY <1>3, <2>3 DEF RawOf
<1>8. \A p \in P : Z[p] \in Int
  BY <1>5 DEF OncePlaces
<1>9. \A p : p \in Q <=> p \in P /\ PassesKey(filters, K[p])
  BY DEF PassingPlaces
<1> HIDE DEF Q
<1>10. Renames(g, R, Q) /\ \A r \in R : L[r] = K[g[r]] /\ Y[r] = Z[g[r]]
  BY <1>4 DEF PlacesSelected
<1>11. ASSUME NEW key, PassesKey(filters, key)
      PROVE  /\ GroupOf(R, L, Y, key) = GroupOf(P, K, Z, key)
             /\ key \in KeysOf(R, L) <=> key \in KeysOf(P, K)
  <2>1. \A p \in P : K[p] = key => PassesKey(filters, K[p])
    BY <1>11, Zenon
  <2>2. At(P, K, key) \subseteq Q
    BY <1>9, <2>1 DEF At
  <2>3. Q \in SUBSET P
    BY <1>9
  <2>4. QED
    BY <1>7, <1>8, <1>10, <2>2, <2>3, GroupRenamed
<1>12. ASSUME NEW key \in KeysOf(R, L) PROVE PassesKey(filters, key)
  <2>1. PICK r \in R : key = L[r]
    BY DEF KeysOf
  <2>2. g[r] \in Q /\ key = K[g[r]]
    BY <1>10, <2>1 DEF Renames
  <2>3. PassesKey(filters, K[g[r]])
    BY <1>9, <2>2
  <2>4. QED
    BY <2>2, <2>3, Zenon
<1>13. \A key : key \in DOMAIN left <=> key \in DOMAIN raw /\ PassesKey(filters, key)
  BY <1>6, <1>7, <1>11, <1>12
<1>14. ASSUME NEW key \in DOMAIN left PROVE left[key] = raw[key]
  <2>1. key \in DOMAIN raw /\ PassesKey(filters, key)
    BY <1>13
  <2>2. GroupOf(R, L, Y, key) = GroupOf(P, K, Z, key)
    BY <1>11, <2>1
  <2>3. left[key] = GroupOf(R, L, Y, key) /\ raw[key] = GroupOf(P, K, Z, key)
    BY <1>6, <1>7, <2>1
  <2>4. QED
    BY ONLY <2>2, <2>3, Zenon
<1>15. QED
  BY <1>13, <1>14

\* The list of a snapshot's groups is the groups.
LEMMA ListsAre ==
  ASSUME NEW list, NEW grouped, Lists(list, grouped)
  PROVE  ToSet(list) = {[traceback |-> tb, size |-> grouped[tb].size, count |-> grouped[tb].count]
                          : tb \in DOMAIN grouped}
<1> DEFINE Value(tb) == [traceback |-> tb, size |-> grouped[tb].size, count |-> grouped[tb].count]
<1>1. \A i \in DOMAIN list : list[i].traceback \in DOMAIN grouped /\ list[i] = Value(list[i].traceback)
  BY DEF Lists
<1>2. \A tb \in DOMAIN grouped : \E i \in DOMAIN list : list[i].traceback = tb
  BY DEF Lists
<1> HIDE DEF Value
<1>3. ASSUME NEW tb \in DOMAIN grouped PROVE \E i \in DOMAIN list : list[i] = Value(tb)
  <2>1. PICK i \in DOMAIN list : list[i].traceback = tb
    BY <1>2
  <2>2. list[i] = Value(tb)
    BY <1>1, <2>1, Zenon
  <2>3. QED
    BY <2>2
<1>4. ToSet(list) = {Value(tb) : tb \in DOMAIN grouped}
  BY <1>1, <1>3 DEF ToSet
<1>5. QED
  BY <1>4 DEF Value

LEMMA FilterIsRight ==
  ASSUME ScaleIsFactor, NEW snap \in Snapshot, NEW filters \in FilterLists
  PROVE  ToSet(Statistics(FilterTraces(snap, filters), "traceback", FALSE))
           = {s \in ToSet(Statistics(snap, "traceback", FALSE)) : PassesKey(filters, s.traceback)}
<1> DEFINE call == <<"traceback", FALSE>>
           filtered == FilterTraces(snap, filters)
           before == GroupBy(snap, call[1], call[2])
           after == GroupBy(filtered, call[1], call[2])
           raw == RawGroups(snap.traces, call[1], call[2])
           left == RawGroups(filtered.traces, call[1], call[2])
           Value(grouped, tb) == [traceback |-> tb, size |-> grouped[tb].size, count |-> grouped[tb].count]
<1>1. call \in GroupCalls /\ ByTraceback(call)
  BY DEF GroupCalls, ByTraceback
<1>2. filtered \in Snapshot
  BY FilteredTyped
<1>3. filtered.sample_rate = snap.sample_rate
  <2> DEFINE include == {f \in filters : f.inclusive}
             exclude == filters \ include
  <2>1. snap.traces \in Seq(Trace)
    BY SnapshotTyped
  <2>2. PICK e, kept : filtered = [snap EXCEPT !.traces = kept]
    BY <2>1, FilterSelects
  <2>3. QED
    BY <2>2 DEF Snapshot
<1> HIDE DEF call, filtered
<1>4. /\ DOMAIN before = DOMAIN raw /\ AreGroups(before)
      /\ \A tb \in DOMAIN raw : before[tb] = ScaleHeapSample(raw[tb], snap.sample_rate)
  <2> HIDE DEF raw, before
  <2>1. raw = RawGroups(snap.traces, call[1], call[2]) /\ before = GroupBy(snap, call[1], call[2])
    BY DEF raw, before
  <2>2. QED
    BY <1>1, <2>1, GroupsTyped
<1>5. /\ DOMAIN after = DOMAIN left /\ AreGroups(after)
      /\ \A tb \in DOMAIN left : after[tb] = ScaleHeapSample(left[tb], filtered.sample_rate)
  <2>1. left = RawGroups(filtered.traces, call[1], call[2])
    OBVIOUS
  <2>2. after = GroupBy(filtered, call[1], call[2])
    OBVIOUS
  <2> HIDE DEF left, after
  <2>3. QED
    BY ONLY ScaleIsFactor, <1>1, <1>2, <2>1, <2>2, GroupsTyped
<1>6. /\ \A key : key \in DOMAIN left <=> key \in DOMAIN raw /\ PassesKey(filters, key)
      /\ \A key \in DOMAIN left : left[key] = raw[key]
  <2>1. filtered = FilterTraces(snap, filters)
    BY DEF filtered
  <2>2. /\ left = RawGroups(filtered.traces, call[1], call[2])
        /\ raw = RawGroups(snap.traces, call[1], call[2])
    OBVIOUS
  <2> HIDE DEF left, raw
  <2>3. QED
    BY <1>1, <2>1, <2>2, FilteredGroups
<1>7. /\ Lists(Statistics(snap, call[1], call[2]), before)
      /\ Lists(Statistics(filtered, call[1], call[2]), after)
  BY <1>4, <1>5, StatisticsList
<1> HIDE DEF before, after, raw, left
<1>8. ToSet(Statistics(snap, call[1], call[2])) = {Value(before, tb) : tb \in DOMAIN before}
  BY <1>7, ListsAre
<1>9. ToSet(Statistics(filtered, call[1], call[2])) = {Value(after, tb) : tb \in DOMAIN after}
  BY <1>7, ListsAre
<1>10. ASSUME NEW tb \in DOMAIN after PROVE after[tb] = before[tb]
  <2>1. tb \in DOMAIN left /\ tb \in DOMAIN raw /\ left[tb] = raw[tb]
    BY <1>5, <1>6
  <2>2. /\ after[tb] = ScaleHeapSample(left[tb], filtered.sample_rate)
        /\ before[tb] = ScaleHeapSample(raw[tb], snap.sample_rate)
    BY <1>4, <1>5, <2>1
  <2>3. QED
    BY ONLY <1>3, <2>1, <2>2, Zenon
<1>11. \A tb \in DOMAIN after : Value(after, tb) = Value(before, tb)
  BY <1>10
<1>12. \A tb : tb \in DOMAIN after <=> tb \in DOMAIN before /\ PassesKey(filters, tb)
  BY <1>4, <1>5, <1>6
<1>13. \A tb : Value(before, tb).traceback = tb
  OBVIOUS
<1> HIDE DEF Value
<1>14. \A tb : PassesKey(filters, Value(before, tb).traceback) <=> PassesKey(filters, tb)
  BY <1>13, Zenon
<1>15. {Value(after, tb) : tb \in DOMAIN after}
         = {s \in {Value(before, tb) : tb \in DOMAIN before} : PassesKey(filters, s.traceback)}
  BY <1>11, <1>12, <1>14
<1>16. ToSet(Statistics(filtered, call[1], call[2]))
         = {s \in ToSet(Statistics(snap, call[1], call[2])) : PassesKey(filters, s.traceback)}
  BY <1>8, <1>9, <1>15, Zenon
<1>17. call[1] = "traceback" /\ call[2] = FALSE
  BY DEF call
<1>18. QED
  BY ONLY <1>16, <1>17, Zenon DEF filtered

LEMMA FilterIsSelection ==
  ASSUME ScaleIsFactor, TypeOK
  PROVE  FilterSelectsGroups
  BY FilterIsRight DEF FilterSelectsGroups, PassesKey, MatchesKey, TypeOK

\* Filtering and grouping by traceback commute, whatever the filters:
\* Snapshot.filter_traces, Filter._match_traceback and Snapshot._group_by.
THEOREM FilteringSelectsGroups ==
  ASSUME ScaleIsFactor
  PROVE  Spec => []FilterSelectsGroups
<1>1. TypeOK => FilterSelectsGroups
  BY FilterIsSelection
<1>2. QED
  BY <1>1, SnapshotsTyped, PTL
===============================================================================
