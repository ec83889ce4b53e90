--------------------------- MODULE AddressMapProofs ---------------------------
(***************************************************************************)
(* Proofs about AddressMap, for any keys, sizes and hash function: the     *)
(* linked structures are a partial function and lose no entry, and         *)
(* FindInside finds the range an address is in.                            *)
(***************************************************************************)
EXTENDS AddressMap, DataInduction, TLAPS

LEMMA IntervalSize ==
  ASSUME NEW n \in Nat
  PROVE  IsFiniteSet(1..n) /\ Cardinality(1..n) = n
<1>1. IsFiniteSet(1..n) /\ Cardinality(1..n) = IF 1 > n THEN 0 ELSE n - 1 + 1
  BY FS_Interval
<1>2. QED
  BY <1>1

-----------------------------------------------------------------------------
(***************************************************************************)
(* A linked list, as the sequence s of its objects: head points to the     *)
(* first of them, the next of each to the one after it, that of the last   *)
(* to none, and no object is on it twice.                                  *)
(***************************************************************************)
At(s, i) == IF i \in 1..Len(s) THEN s[i] ELSE 0

Linked(objects, s, head) ==
  /\ s \in Seq(1..Len(objects))
  /\ \A i, j \in 1..Len(s) : s[i] = s[j] => i = j
  /\ head = At(s, 1)
  /\ \A i \in 1..Len(s) : objects[s[i]].next = At(s, i + 1)

\* It is not longer than there are objects.
LEMMA LinkedLength ==
  ASSUME NEW objects, Len(objects) \in Nat, NEW s, NEW head, Linked(objects, s, head)
  PROVE  /\ Len(s) \in Nat /\ Len(s) <= Len(objects)
         /\ \A i \in 1..Len(s) : s[i] \in 1..Len(objects)
         /\ \A i : At(s, i) \in Pointer(objects)
<1> DEFINE N == Len(objects)
<1>1. s \in Seq(1..N) /\ Len(s) \in Nat /\ DOMAIN s = 1..Len(s)
  BY DEF Linked
<1>2. \A i \in 1..Len(s) : s[i] \in 1..N
  BY <1>1
<1>3. s \in Injection(1..Len(s), 1..N)
  BY <1>1, <1>2 DEF Linked, Injection, IsInjective
<1>4. IsFiniteSet(1..N) /\ Cardinality(1..N) = N
  BY IntervalSize
<1>5. Cardinality(1..Len(s)) = Len(s)
  BY <1>1, IntervalSize
<1>6. Cardinality(1..Len(s)) <= Cardinality(1..N)
  BY <1>3, <1>4, FS_Injection
<1>7. QED
  BY <1>1, <1>2, <1>4, <1>5, <1>6 DEF At, Pointer

\* The loop of List, and that of First, with k hops to go at most.
WalkRow(rest, objects, hops) ==
  [o \in Pointer(objects) |->
     IF o = 0 \/ hops = 0 THEN <<>> ELSE <<o>> \o rest[objects[o].next]]
IsWalk(walk, objects, k) ==
  walk = [hops \in 0..k |-> WalkRow(walk[hops - 1], objects, hops)]

LookRow(rest, objects, T, hops) ==
  [o \in Pointer(objects) |->
     IF o = 0 \/ hops = 0 THEN 0 ELSE IF o \in T THEN o ELSE rest[objects[o].next]]
IsLook(look, objects, T, k) ==
  look = [hops \in 0..k |-> LookRow(look[hops - 1], objects, T, hops)]

LEMMA WalkExists ==
  ASSUME NEW objects
  PROVE  \A k \in Nat : \E walk : IsWalk(walk, objects, k)
<1> DEFINE T == {k \in Nat : \E walk : IsWalk(walk, objects, k)}
<1>1. 0 \in T
  <2> DEFINE walk == [hops \in 0..0 |-> [o \in Pointer(objects) |-> <<>>]]
  <2>1. WalkRow(walk[0 - 1], objects, 0) = [o \in Pointer(objects) |-> <<>>]
    BY DEF WalkRow
  <2>2. IsWalk(walk, objects, 0)
    BY <2>1 DEF IsWalk
  <2> HIDE DEF walk
  <2>3. QED
    BY <2>2
<1>2. ASSUME NEW k \in Nat, k \in T PROVE k + 1 \in T
  <2>1. PICK walk : IsWalk(walk, objects, k)
    BY <1>2
  <2> DEFINE next == [hops \in 0..(k + 1) |-> WalkRow(walk[hops - 1], objects, hops)]
  <2>2. \A hops \in 0..k : next[hops] = walk[hops]
    BY <2>1 DEF IsWalk
  <2>3. ASSUME NEW hops \in 0..(k + 1)
        PROVE  WalkRow(next[hops - 1], objects, hops) = WalkRow(walk[hops - 1], objects, hops)
    <3>1. CASE hops = 0
      BY <3>1 DEF WalkRow
    <3>2. CASE hops # 0
      <4>1. hops - 1 \in 0..k
        BY <3>2
      <4>2. next[hops - 1] = walk[hops - 1]
        BY <2>2, <4>1
      <4>3. QED
        BY <4>2
    <3>3. QED
      BY <3>1, <3>2
  <2>4. IsWalk(next, objects, k + 1)
    BY <2>3 DEF IsWalk
  <2> HIDE DEF next
  <2>5. QED
    BY <2>4
<1>3. \A k \in Nat : k \in T
  <2> HIDE DEF T
  <2>1. QED
    BY <1>1, <1>2, SetInduction
<1>4. QED
  BY <1>3

LEMMA LookExists ==
  ASSUME NEW objects, NEW S
  PROVE  \A k \in Nat : \E look : IsLook(look, objects, S, k)
<1> DEFINE T == {k \in Nat : \E look : IsLook(look, objects, S, k)}
<1>1. 0 \in T
  <2> DEFINE look == [hops \in 0..0 |-> [o \in Pointer(objects) |-> 0]]
  <2>1. LookRow(look[0 - 1], objects, S, 0) = [o \in Pointer(objects) |-> 0]
    BY DEF LookRow
  <2>2. IsLook(look, objects, S, 0)
    BY <2>1 DEF IsLook
  <2> HIDE DEF look
  <2>3. QED
    BY <2>2
<1>2. ASSUME NEW k \in Nat, k \in T PROVE k + 1 \in T
  <2>1. PICK look : IsLook(look, objects, S, k)
    BY <1>2
  <2> DEFINE next == [hops \in 0..(k + 1) |-> LookRow(look[hops - 1], objects, S, hops)]
  <2>2. \A hops \in 0..k : next[hops] = look[hops]
    BY <2>1 DEF IsLook
  <2>3. ASSUME NEW hops \in 0..(k + 1)
        PROVE  LookRow(next[hops - 1], objects, S, hops) = LookRow(look[hops - 1], objects, S, hops)
    <3>1. CASE hops = 0
      BY <3>1 DEF LookRow
    <3>2. CASE hops # 0
      <4>1. hops - 1 \in 0..k
        BY <3>2
      <4>2. next[hops - 1] = look[hops - 1]
        BY <2>2, <4>1
      <4>3. QED
        BY <4>2
    <3>3. QED
      BY <3>1, <3>2
  <2>4. IsLook(next, objects, S, k + 1)
    BY <2>3 DEF IsLook
  <2> HIDE DEF next
  <2>5. QED
    BY <2>4
<1>3. \A k \in Nat : k \in T
  <2> HIDE DEF T
  <2>1. QED
    BY <1>1, <1>2, SetInduction
<1>4. QED
  BY <1>3

\* What is left of a sequence from position i on.
From(s, i) == [j \in 1..(Len(s) + 1 - i) |-> s[i + j - 1]]

\* List finds the sequence of a linked list.
LEMMA ListIs ==
  ASSUME NEW objects, Len(objects) \in Nat, NEW s, NEW head, Linked(objects, s, head)
  PROVE  List(objects, head) = s
<1> DEFINE N == Len(objects)
           walk == CHOOSE walk : IsWalk(walk, objects, N + 1)
           T == {k \in Nat : k <= N + 1 => \A i \in 1..(Len(s) + 1) :
                   Len(s) + 1 - i <= k => walk[k][At(s, i)] = From(s, i)}
<1>1. IsWalk(walk, objects, N + 1)
  BY WalkExists
<1>2. List(objects, head) = walk[N + 1][head]
  BY DEF List, IsWalk, WalkRow
<1> HIDE DEF walk
<1>3. /\ Len(s) \in Nat /\ Len(s) <= N
      /\ \A i \in 1..Len(s) : s[i] \in 1..N /\ At(s, i) = s[i]
      /\ \A i : At(s, i) \in Pointer(objects)
  BY LinkedLength DEF At
<1>4. ASSUME NEW k \in 0..(N + 1)
      PROVE  /\ walk[k][0] = <<>>
             /\ k # 0 => \A o \in 1..N : walk[k][o] = <<o>> \o walk[k - 1][objects[o].next]
  <2>1. walk[k] = WalkRow(walk[k - 1], objects, k)
    BY <1>1 DEF IsWalk
  <2>2. QED
    BY <2>1 DEF WalkRow, Pointer
<1>5. At(s, Len(s) + 1) = 0 /\ From(s, Len(s) + 1) = <<>>
  BY <1>3 DEF At, From
<1>6. ASSUME NEW k \in Nat, NEW i \in 1..(Len(s) + 1), Len(s) + 1 - i <= k, k <= N + 1,
             k # 0 => k - 1 \in T
      PROVE  walk[k][At(s, i)] = From(s, i)
  <2>1. CASE i = Len(s) + 1
    BY <1>4, <1>5, <1>6, <2>1
  <2>2. CASE i # Len(s) + 1
    <3>1. i \in 1..Len(s) /\ i + 1 \in 1..(Len(s) + 1) /\ k # 0 /\ k - 1 \in Nat
      BY <1>3, <1>6, <2>2
    <3>2. objects[s[i]].next = At(s, i + 1) /\ s[i] \in 1..N /\ At(s, i) = s[i]
      BY <1>3, <3>1 DEF Linked
    <3>3. walk[k - 1][At(s, i + 1)] = From(s, i + 1)
      BY <1>3, <1>6, <3>1
    <3>4. walk[k][s[i]] = <<s[i]>> \o From(s, i + 1)
      <4>1. k \in 0..(N + 1)
        BY <1>6
      <4>2. walk[k][s[i]] = <<s[i]>> \o walk[k - 1][objects[s[i]].next]
        BY <1>4, <3>1, <3>2, <4>1
      <4>3. QED
        BY <3>2, <3>3, <4>2
    <3>5. <<s[i]>> \o From(s, i + 1) = From(s, i)
      <4>1. Len(From(s, i + 1)) = Len(s) - i /\ From(s, i + 1) \in Seq(1..N)
        BY <1>3, <3>1 DEF From
      <4>2. QED
        BY <1>3, <3>1, <4>1 DEF From
    <3>6. QED
      BY <3>2, <3>4, <3>5
  <2>3. QED
    BY <2>1, <2>2
<1>7. 0 \in T
  BY <1>6
<1>8. ASSUME NEW k \in Nat, k \in T PROVE k + 1 \in T
  <2>1. (k + 1) - 1 = k /\ k + 1 \in Nat
    OBVIOUS
  <2>2. QED
    BY <1>6, <1>8, <2>1
<1>9. N + 1 \in T
  <2> HIDE DEF T
  <2>1. \A k \in Nat : k \in T
    BY <1>7, <1>8, SetInduction
  <2>2. QED
    BY <2>1
<1>10. walk[N + 1][At(s, 1)] = From(s, 1)
  BY <1>3, <1>9
<1>11. From(s, 1) = s
  BY <1>3 DEF From, Linked
<1>12. QED
  BY <1>2, <1>10, <1>11 DEF Linked

\* First finds an object of the list that is in T, if there is one.
LEMMA LookIs ==
  ASSUME NEW objects, Len(objects) \in Nat, NEW s, NEW head, Linked(objects, s, head),
         NEW S, NEW look, IsLook(look, objects, S, Len(objects) + 1)
  PROVE  LET o == look[Len(objects) + 1][head]
         IN \/ o = 0 /\ \A i \in 1..Len(s) : s[i] \notin S
            \/ o \in S /\ \E i \in 1..Len(s) : s[i] = o
<1> DEFINE N == Len(objects)
           Found(o, i) == \/ o = 0 /\ \A j \in i..Len(s) : s[j] \notin S
                          \/ o \in S /\ \E j \in i..Len(s) : s[j] = o
           T == {k \in Nat : k <= N + 1 => \A i \in 1..(Len(s) + 1) :
                   Len(s) + 1 - i <= k => Found(look[k][At(s, i)], i)}
<1>1. /\ Len(s) \in Nat /\ Len(s) <= N
      /\ \A i \in 1..Len(s) : s[i] \in 1..N /\ At(s, i) = s[i]
  BY LinkedLength DEF At
<1>2. ASSUME NEW k \in 0..(N + 1)
      PROVE  /\ look[k][0] = 0
             /\ k # 0 => \A o \in 1..N : look[k][o] =
                           IF o \in S THEN o ELSE look[k - 1][objects[o].next]
  <2>1. look[k] = LookRow(look[k - 1], objects, S, k)
    BY DEF IsLook
  <2>2. QED
    BY <2>1 DEF LookRow, Pointer
<1>3. At(s, Len(s) + 1) = 0
  BY <1>1 DEF At
<1>4. ASSUME NEW k \in Nat, NEW i \in 1..(Len(s) + 1), Len(s) + 1 - i <= k, k <= N + 1,
             k # 0 => k - 1 \in T
      PROVE  Found(look[k][At(s, i)], i)
  <2>1. CASE i = Len(s) + 1
    <3>1. look[k][At(s, i)] = 0
      BY <1>2, <1>3, <1>4, <2>1
    <3>2. i..Len(s) = {}
      BY <1>1, <2>1
    <3>3. QED
      BY <3>1, <3>2
  <2>2. CASE i # Len(s) + 1
    <3>1. i \in 1..Len(s) /\ i + 1 \in 1..(Len(s) + 1) /\ k # 0 /\ k - 1 \in Nat
      BY <1>1, <1>4, <2>2
    <3>2. objects[s[i]].next = At(s, i + 1) /\ s[i] \in 1..N /\ At(s, i) = s[i]
      BY <1>1, <3>1 DEF Linked
    <3>3. k - 1 <= N + 1 /\ Len(s) + 1 - (i + 1) <= k - 1
      BY <1>1, <1>4, <3>1
    <3>4. Found(look[k - 1][At(s, i + 1)], i + 1)
      BY <1>4, <3>1, <3>3
    <3>5. look[k][s[i]] = IF s[i] \in S THEN s[i] ELSE look[k - 1][At(s, i + 1)]
      BY <1>2, <1>4, <3>1, <3>2
    <3>6. \A j \in i..Len(s) : j = i \/ j \in (i + 1)..Len(s)
      BY <1>1, <3>1
    <3>7. i \in i..Len(s) /\ \A j \in (i + 1)..Len(s) : j \in i..Len(s)
      BY <1>1, <3>1
    <3>8. QED
      BY <3>2, <3>4, <3>5, <3>6, <3>7
  <2>3. QED
    BY <2>1, <2>2
<1>5. 0 \in T
  <2> HIDE DEF Found
  <2>1. QED
    BY <1>4
<1>6. ASSUME NEW k \in Nat, k \in T PROVE k + 1 \in T
  <2>1. (k + 1) - 1 = k /\ k + 1 \in Nat
    OBVIOUS
  <2> HIDE DEF Found
  <2>2. QED
    BY <1>4, <1>6, <2>1
<1>7. N + 1 \in T
  <2> HIDE DEF T
  <2>1. \A k \in Nat : k \in T
    BY <1>5, <1>6, SetInduction
  <2>2. QED
    BY <2>1
<1>8. Found(look[N + 1][At(s, 1)], 1)
  <2> HIDE DEF Found
  <2>1. QED
    BY <1>1, <1>7
<1>9. QED
  BY <1>8 DEF Linked

-----------------------------------------------------------------------------
\* How lists change.  The objects of a list keep their next pointers but for
\* those that are given another.

LEMMA LinkedSame ==
  ASSUME NEW objects, Len(objects) \in Nat, NEW s, NEW head, Linked(objects, s, head),
         NEW after, Len(after) \in Nat, Len(objects) <= Len(after),
         \A i \in 1..Len(s) : after[s[i]].next = objects[s[i]].next
  PROVE  Linked(after, s, head)
<1>1. \A i \in 1..Len(s) : s[i] \in 1..Len(after)
  BY LinkedLength
<1>2. s \in Seq(1..Len(after))
  BY <1>1 DEF Linked
<1>3. QED
  BY <1>2 DEF Linked

\* An object goes to the front.
LEMMA LinkedPush ==
  ASSUME NEW objects, Len(objects) \in Nat, NEW s, NEW head, Linked(objects, s, head),
         NEW after, Len(after) \in Nat, Len(objects) <= Len(after),
         NEW e \in 1..Len(after), ~Contains(s, e), after[e].next = head,
         \A i \in 1..Len(s) : after[s[i]].next = objects[s[i]].next
  PROVE  /\ Linked(after, <<e>> \o s, e)
         /\ \A x : Contains(<<e>> \o s, x) <=> x = e \/ Contains(s, x)
<1> DEFINE t == <<e>> \o s
<1>1. /\ Len(s) \in Nat /\ \A i \in 1..Len(s) : s[i] \in 1..Len(after)
  BY LinkedLength
<1>2. s \in Seq(1..Len(after))
  BY <1>1 DEF Linked
<1>3. /\ t \in Seq(1..Len(after)) /\ Len(t) = Len(s) + 1 /\ t[1] = e
      /\ \A i \in 1..Len(s) : t[i + 1] = s[i]
  BY <1>2
<1>4. \A i \in 1..Len(t) : i = 1 \/ (i - 1 \in 1..Len(s) /\ (i - 1) + 1 = i /\ t[i] = s[i - 1])
  BY <1>1, <1>3
<1>5. 1 \in 1..Len(t) /\ \A i \in 1..Len(s) : i + 1 \in 1..Len(t)
  BY <1>1, <1>3
<1> HIDE DEF t
<1>6. ASSUME NEW x PROVE Contains(t, x) <=> x = e \/ Contains(s, x)
  <2>1. ASSUME NEW i \in 1..Len(t), t[i] = x PROVE x = e \/ Contains(s, x)
    BY <1>3, <1>4, <2>1 DEF Contains
  <2>2. ASSUME NEW i \in 1..Len(s), s[i] = x PROVE Contains(t, x)
    BY <1>3, <1>5, <2>2 DEF Contains
  <2>3. Contains(t, e)
    BY <1>3, <1>5 DEF Contains
  <2>4. QED
    BY <2>1, <2>2, <2>3 DEF Contains
<1>7. ASSUME NEW i \in 1..Len(t), NEW j \in 1..Len(t), t[i] = t[j] PROVE i = j
  <2>1. CASE i = 1 /\ j = 1
    BY <2>1
  <2>2. CASE i = 1 /\ j # 1
    BY <1>3, <1>4, <1>7, <2>2 DEF Contains
  <2>3. CASE i # 1 /\ j = 1
    BY <1>3, <1>4, <1>7, <2>3 DEF Contains
  <2>4. CASE i # 1 /\ j # 1
    <3>1. i - 1 = j - 1
      <4>1. i - 1 \in 1..Len(s) /\ j - 1 \in 1..Len(s) /\ s[i - 1] = s[j - 1]
        BY <1>4, <1>7, <2>4
      <4>2. QED
        BY <4>1 DEF Linked
    <3>2. QED
      BY <1>4, <2>4, <3>1
  <2>5. QED
    BY <2>1, <2>2, <2>3, <2>4
<1>8. \A i \in 1..Len(s) + 1 : At(t, i + 1) = At(s, i)
  BY <1>1, <1>3, <1>5 DEF At
<1>9. ASSUME NEW i \in 1..Len(t) PROVE after[t[i]].next = At(t, i + 1)
  <2>1. CASE i = 1
    BY <1>1, <1>3, <1>8, <2>1 DEF Linked
  <2>2. CASE i # 1
    <3>1. i - 1 \in 1..Len(s) /\ t[i] = s[i - 1] /\ (i - 1) + 1 = i /\ i \in 1..Len(s) + 1
      BY <1>3, <1>4, <2>2
    <3>2. after[t[i]].next = At(s, i)
      BY <3>1 DEF Linked
    <3>3. QED
      BY <1>8, <3>1, <3>2
  <2>3. QED
    BY <2>1, <2>2
<1>10. At(t, 1) = e
  BY <1>3, <1>5 DEF At
<1>11. QED
  BY <1>3, <1>6, <1>7, <1>9, <1>10 DEF Linked, t

\* The object at position n goes: the pointer to it is given its next.
Without(s, n) == [i \in 1..(Len(s) - 1) |-> IF i < n THEN s[i] ELSE s[i + 1]]

LEMMA LinkedDrop ==
  ASSUME NEW objects, Len(objects) \in Nat, NEW s, NEW head, Linked(objects, s, head),
         NEW after, Len(after) \in Nat, Len(objects) <= Len(after),
         NEW n \in 1..Len(s),
         n > 1 => after[s[n - 1]].next = objects[s[n]].next,
         \A i \in 1..Len(s) : i # n /\ i # n - 1 => after[s[i]].next = objects[s[i]].next
  PROVE  /\ Linked(after, Without(s, n), IF n = 1 THEN objects[s[n]].next ELSE head)
         /\ \A x : Contains(Without(s, n), x) <=> x # s[n] /\ Contains(s, x)
<1> DEFINE t == Without(s, n)
<1>1. Len(s) \in Nat /\ Len(s) - 1 \in Nat /\ \A i \in 1..Len(s) : s[i] \in 1..Len(after)
  BY LinkedLength
<1>2. /\ Len(t) = Len(s) - 1 /\ DOMAIN t = 1..Len(s) - 1
      /\ \A i \in 1..Len(s) - 1 : t[i] = IF i < n THEN s[i] ELSE s[i + 1]
  BY <1>1 DEF Without
<1>3. \A i \in 1..Len(s) - 1 : i \in 1..Len(s) /\ i + 1 \in 1..Len(s)
  BY <1>1
<1>4. t \in Seq(1..Len(after))
  <2>1. \A i \in 1..Len(s) - 1 : t[i] \in 1..Len(after)
    BY <1>1, <1>2, <1>3
  <2>2. QED
    BY <1>1, <2>1 DEF Without
<1> HIDE DEF t
<1>5. \A i, j \in 1..Len(s) : s[i] = s[j] => i = j
  BY DEF Linked
<1>6. ASSUME NEW x PROVE Contains(t, x) <=> x # s[n] /\ Contains(s, x)
  <2>1. ASSUME NEW i \in 1..Len(s) - 1, t[i] = x PROVE x # s[n] /\ Contains(s, x)
    BY <1>1, <1>2, <1>3, <1>5, <2>1 DEF Contains
  <2>2. ASSUME NEW i \in 1..Len(s), s[i] = x, i # n PROVE Contains(t, x)
    <3>1. CASE i < n
      <4>1. i \in 1..Len(s) - 1
        BY <1>1, <3>1
      <4>2. t[i] = x
        BY <1>2, <2>2, <3>1, <4>1
      <4>3. QED
        BY <1>2, <4>1, <4>2 DEF Contains
    <3>2. CASE i > n
      <4>1. i - 1 \in 1..Len(s) - 1 /\ (i - 1) + 1 = i /\ ~(i - 1 < n)
        BY <1>1, <3>2
      <4>2. t[i - 1] = x
        BY <1>2, <2>2, <4>1
      <4>3. QED
        BY <1>2, <4>1, <4>2 DEF Contains
    <3>3. QED
      BY <2>2, <3>1, <3>2
  <2>3. QED
    BY <1>2, <2>1, <2>2 DEF Contains
<1>7. ASSUME NEW i \in 1..Len(t), NEW j \in 1..Len(t), t[i] = t[j] PROVE i = j
  <2>1. /\ t[i] = s[IF i < n THEN i ELSE i + 1] /\ t[j] = s[IF j < n THEN j ELSE j + 1]
    BY <1>2
  <2>2. (IF i < n THEN i ELSE i + 1) = (IF j < n THEN j ELSE j + 1)
    BY <1>2, <1>3, <1>5, <1>7, <2>1
  <2>3. QED
    BY <1>1, <1>2, <2>2
<1>8. ASSUME NEW i \in 1..Len(s)
      PROVE  /\ i < n => At(t, i) = At(s, i)
             /\ ~(i < n) => At(t, i) = At(s, i + 1)
  BY <1>1, <1>2, <1>3 DEF At
<1>9. \A i \in 1..Len(s) : objects[s[i]].next = At(s, i + 1)
  BY DEF Linked
<1>10. ASSUME NEW i \in 1..Len(t) PROVE after[t[i]].next = At(t, i + 1)
  <2>1. i \in 1..Len(s) /\ i + 1 \in 1..Len(s) /\ i \in 1..Len(s) - 1
    BY <1>2, <1>3
  <2>2. CASE i = n - 1
    <3>1. t[i] = s[n - 1] /\ n > 1 /\ i + 1 = n
      BY <1>2, <2>1, <2>2
    <3>2. after[t[i]].next = At(s, n + 1)
      BY <1>9, <3>1
    <3>3. At(t, n) = At(s, n + 1)
      BY <1>8
    <3>4. QED
      BY <3>1, <3>2, <3>3
  <2>3. CASE i < n - 1
    <3>1. t[i] = s[i] /\ i # n /\ i # n - 1 /\ i + 1 < n
      BY <1>2, <2>1, <2>3
    <3>2. QED
      BY <1>8, <1>9, <2>1, <3>1
  <2>4. CASE i >= n
    <3>1. t[i] = s[i + 1] /\ i + 1 # n /\ i + 1 # n - 1 /\ ~(i + 1 < n)
      BY <1>2, <2>1, <2>4
    <3>2. QED
      BY <1>8, <1>9, <2>1, <3>1
  <2>5. QED
    BY <2>1, <2>2, <2>3, <2>4
<1>11. (IF n = 1 THEN objects[s[n]].next ELSE head) = At(t, 1)
  <2>1. head = At(s, 1) /\ 1 \in 1..Len(s)
    BY <1>1 DEF Linked
  <2>2. QED
    BY <1>8, <1>9, <2>1
<1>12. QED
  BY <1>4, <1>6, <1>7, <1>10, <1>11 DEF Linked, t

LEMMA LinkedEmpty == ASSUME NEW objects PROVE Linked(objects, <<>>, 0)
  BY DEF Linked, At

\* The list of a pointer to an object starts with that object.
LEMMA LinkedHead ==
  ASSUME NEW objects, Len(objects) \in Nat, NEW s, NEW head, Linked(objects, s, head)
  PROVE  /\ head = 0 => s = <<>>
         /\ head # 0 => 1 \in 1..Len(s) /\ s[1] = head
<1>1. s \in Seq(1..Len(objects)) /\ Len(s) \in Nat
      /\ \A i \in 1..Len(s) : s[i] # 0
  BY LinkedLength DEF Linked
<1>2. QED
  BY <1>1 DEF Linked, At

-----------------------------------------------------------------------------
(***************************************************************************)
(* A linked list, as the set S of its objects.  The order matters to the   *)
(* lemmas above only: every loop over a list looks for the one object that *)
(* satisfies its condition, or visits them all.                            *)
(***************************************************************************)
IsListOf(objects, head, S) ==
  \E s : Linked(objects, s, head) /\ \A x : Contains(s, x) <=> x \in S

\* What the after lemmas assume: the objects of S point where they did.
KeepNext(objects, after, S) == \A x \in S : after[x].next = objects[x].next

PointsTo(objects, p, x) == objects[p].next = x

LEMMA ListMembers ==
  ASSUME NEW objects, Len(objects) \in Nat, NEW head, NEW S, IsListOf(objects, head, S)
  PROVE  /\ S \subseteq 1..Len(objects)
         /\ head = 0 => S = {}
         /\ head # 0 => head \in S
         /\ head \in Pointer(objects)
<1>1. PICK s : Linked(objects, s, head) /\ \A x : Contains(s, x) <=> x \in S
  BY DEF IsListOf
<1>2. \A i \in 1..Len(s) : s[i] \in 1..Len(objects)
  BY <1>1, LinkedLength
<1>3. S \subseteq 1..Len(objects)
  BY <1>1, <1>2 DEF Contains
<1>4. head = 0 => S = {}
  <2>1. SUFFICES ASSUME head = 0 PROVE Len(s) = 0
    BY <1>1 DEF Contains
  <2>2. s = <<>>
    BY <1>1, <2>1, LinkedHead
  <2>3. QED
    BY <2>2
<1>5. head # 0 => head \in S
  BY <1>1, LinkedHead DEF Contains
<1>6. head \in Pointer(objects)
  <2>1. CASE head = 0
    BY <2>1 DEF Pointer
  <2>2. CASE head # 0
    <3>1. head \in 1..Len(objects)
      BY <1>3, <1>5, <2>2
    <3>2. QED
      BY <3>1 DEF Pointer
  <2>3. QED
    BY <2>1, <2>2
<1>7. QED
  BY <1>3, <1>4, <1>5, <1>6

\* The pointers of a list are nullptr or point to objects there are.
LEMMA ListNext ==
  ASSUME NEW objects, Len(objects) \in Nat, NEW head, NEW S, IsListOf(objects, head, S)
  PROVE  \A x \in S : objects[x].next \in Pointer(objects)
<1>1. PICK s : Linked(objects, s, head) /\ \A x : Contains(s, x) <=> x \in S
  BY DEF IsListOf
<1>2. \A i : At(s, i) \in Pointer(objects)
  BY <1>1, LinkedLength
<1>3. ASSUME NEW x \in S PROVE objects[x].next \in Pointer(objects)
  <2>1. PICK i \in 1..Len(s) : s[i] = x
    BY <1>1 DEF Contains
  <2>2. QED
    BY <1>1, <1>2, <2>1 DEF Linked
<1>4. QED
  BY <1>3

LEMMA ListEmpty == ASSUME NEW objects PROVE IsListOf(objects, 0, {})
<1>1. \A x : ~Contains(<<>>, x)
  BY DEF Contains
<1>2. QED
  BY <1>1, LinkedEmpty DEF IsListOf

LEMMA ListSame ==
  ASSUME NEW objects, Len(objects) \in Nat, NEW head, NEW S, IsListOf(objects, head, S),
         NEW after, Len(after) \in Nat, Len(objects) <= Len(after),
         KeepNext(objects, after, S)
  PROVE  IsListOf(after, head, S)
<1>1. PICK s : Linked(objects, s, head) /\ \A x : Contains(s, x) <=> x \in S
  BY DEF IsListOf
<1>2. \A i \in 1..Len(s) : after[s[i]].next = objects[s[i]].next
  BY <1>1 DEF Contains, KeepNext
<1>3. Linked(after, s, head)
  BY <1>1, <1>2, LinkedSame
<1>4. QED
  BY <1>1, <1>3 DEF IsListOf

LEMMA ListPush ==
  ASSUME NEW objects, Len(objects) \in Nat, NEW head, NEW S, IsListOf(objects, head, S),
         NEW after, Len(after) \in Nat, Len(objects) <= Len(after),
         KeepNext(objects, after, S),
         NEW e \in 1..Len(after), e \notin S, after[e].next = head
  PROVE  IsListOf(after, e, S \cup {e})
<1>1. PICK s : Linked(objects, s, head) /\ \A x : Contains(s, x) <=> x \in S
  BY DEF IsListOf
<1>2. \A i \in 1..Len(s) : after[s[i]].next = objects[s[i]].next
  BY <1>1 DEF Contains, KeepNext
<1>3. /\ Linked(after, <<e>> \o s, e)
      /\ \A x : Contains(<<e>> \o s, x) <=> x = e \/ Contains(s, x)
  BY <1>1, <1>2, LinkedPush
<1>4. QED
  BY <1>1, <1>3 DEF IsListOf

\* The first object goes.
LEMMA ListPop ==
  ASSUME NEW objects, Len(objects) \in Nat, NEW head, NEW S, IsListOf(objects, head, S),
         NEW after, Len(after) \in Nat, Len(objects) <= Len(after),
         KeepNext(objects, after, S \ {head}), head # 0
  PROVE  IsListOf(after, objects[head].next, S \ {head})
<1>1. PICK s : Linked(objects, s, head) /\ \A x : Contains(s, x) <=> x \in S
  BY DEF IsListOf
<1>2. 1 \in 1..Len(s) /\ s[1] = head
  BY <1>1, LinkedHead
<1>3. ASSUME NEW i \in 1..Len(s), i # 1 PROVE after[s[i]].next = objects[s[i]].next
  <2>1. s[i] \in S /\ s[i] # head
    BY <1>1, <1>2, <1>3 DEF Contains, Linked
  <2>2. QED
    BY <2>1 DEF KeepNext
<1>4. /\ Linked(after, Without(s, 1), objects[head].next)
      /\ \A x : Contains(Without(s, 1), x) <=> x # head /\ Contains(s, x)
  BY <1>1, <1>2, <1>3, LinkedDrop
<1>5. QED
  BY <1>1, <1>4 DEF IsListOf

\* One object of the list points to each other than the first.
LEMMA ListBefore ==
  ASSUME NEW objects, Len(objects) \in Nat, NEW head, NEW S, IsListOf(objects, head, S),
         NEW e \in S, e # head
  PROVE  \E p \in S : objects[p].next = e
<1>1. PICK s : Linked(objects, s, head) /\ \A x : Contains(s, x) <=> x \in S
  BY DEF IsListOf
<1>2. PICK n \in 1..Len(s) : s[n] = e
  BY <1>1 DEF Contains
<1>3. Len(s) \in Nat /\ head = At(s, 1)
  BY <1>1, LinkedLength DEF Linked
<1>4. n # 1
  BY <1>2, <1>3 DEF At
<1>5. n - 1 \in 1..Len(s) /\ (n - 1) + 1 = n
  BY <1>3, <1>4
<1>6. objects[s[n - 1]].next = At(s, n)
  BY <1>1, <1>5 DEF Linked
<1>7. At(s, n) = e /\ s[n - 1] \in S
  BY <1>1, <1>2, <1>5 DEF At, Contains
<1>8. QED
  BY <1>6, <1>7

\* That object's next is given the one after it.
LEMMA ListDrop ==
  ASSUME NEW objects, Len(objects) \in Nat, NEW head, NEW S, IsListOf(objects, head, S),
         NEW after, Len(after) \in Nat, Len(objects) <= Len(after),
         NEW e \in S, NEW p \in S, PointsTo(objects, p, e),
         KeepNext(objects, after, (S \ {e}) \ {p}), PointsTo(after, p, objects[e].next)
  PROVE  e # head /\ e # p /\ IsListOf(after, head, S \ {e})
<1>1. PICK s : Linked(objects, s, head) /\ \A x : Contains(s, x) <=> x \in S
  BY DEF IsListOf
<1>2. Len(s) \in Nat /\ head = At(s, 1) /\ \A i \in 1..Len(s) : s[i] # 0
  BY <1>1, LinkedLength DEF Linked
<1>3. PICK m \in 1..Len(s) : s[m] = p
  BY <1>1 DEF Contains
<1>4. e = At(s, m + 1) /\ e # 0
  <2>1. PICK i \in 1..Len(s) : s[i] = e
    BY <1>1 DEF Contains
  <2>2. QED
    BY <1>1, <1>2, <1>3, <2>1 DEF Linked, PointsTo
<1> DEFINE n == m + 1
<1>5. n \in 1..Len(s) /\ s[n] = e /\ n > 1 /\ n - 1 = m /\ n # 1
  BY <1>2, <1>4 DEF At
<1>6. \A i, j \in 1..Len(s) : s[i] = s[j] => i = j
  BY <1>1 DEF Linked
<1> HIDE DEF n
<1>7. e # p
  BY <1>3, <1>5, <1>6
<1>8. e # head
  <2>1. 1 \in 1..Len(s)
    BY <1>2, <1>5
  <2>2. head = s[1]
    BY <1>2, <2>1 DEF At
  <2>3. QED
    BY <1>5, <1>6, <2>1, <2>2
<1>9. ASSUME NEW i \in 1..Len(s), i # n, i # n - 1
      PROVE  after[s[i]].next = objects[s[i]].next
  <2>1. s[i] \in S /\ s[i] # p /\ s[i] # e
    BY <1>1, <1>3, <1>5, <1>6, <1>9 DEF Contains
  <2>2. QED
    BY <2>1 DEF KeepNext
<1>10. /\ Linked(after, Without(s, n), head)
       /\ \A x : Contains(Without(s, n), x) <=> x # e /\ Contains(s, x)
  BY <1>1, <1>3, <1>5, <1>9, LinkedDrop DEF PointsTo
<1>11. QED
  BY <1>1, <1>7, <1>8, <1>10 DEF IsListOf

\* What First comes to.
LEMMA ListLook ==
  ASSUME NEW objects, Len(objects) \in Nat, NEW head, NEW S, IsListOf(objects, head, S),
         NEW T, NEW look, IsLook(look, objects, T, Len(objects) + 1)
  PROVE  LET o == look[Len(objects) + 1][head]
         IN \/ o = 0 /\ S \cap T = {}
            \/ o \in S /\ o \in T
<1>1. PICK s : Linked(objects, s, head) /\ \A x : Contains(s, x) <=> x \in S
  BY DEF IsListOf
<1> DEFINE o == look[Len(objects) + 1][head]
<1>2. \/ o = 0 /\ \A i \in 1..Len(s) : s[i] \notin T
      \/ o \in T /\ \E i \in 1..Len(s) : s[i] = o
  BY <1>1, LookIs
<1> HIDE DEF o
<1>3. QED
  BY <1>1, <1>2 DEF o, Contains

\* What List comes to: each object of the set once.
LEMMA ListVisits ==
  ASSUME NEW objects, Len(objects) \in Nat, NEW head, NEW S, IsListOf(objects, head, S)
  PROVE  /\ List(objects, head) \in Seq(1..Len(objects))
         /\ \A x : Contains(List(objects, head), x) <=> x \in S
         /\ IsInjective(List(objects, head))
<1>1. PICK s : Linked(objects, s, head) /\ \A x : Contains(s, x) <=> x \in S
  BY DEF IsListOf
<1>2. List(objects, head) = s
  BY <1>1, ListIs
<1>3. s \in Seq(1..Len(objects)) /\ DOMAIN s = 1..Len(s)
  BY <1>1 DEF Linked
<1>4. IsInjective(s)
  BY <1>1, <1>3 DEF Linked, IsInjective
<1>5. QED
  BY <1>1, <1>2, <1>3, <1>4

\* The set is determined by the list.
LEMMA ListOfOne ==
  ASSUME NEW objects, Len(objects) \in Nat, NEW head,
         NEW S, IsListOf(objects, head, S), NEW T, IsListOf(objects, head, T)
  PROVE  S = T
<1>1. \A x : x \in S <=> x \in T
  BY ListVisits
<1>2. QED
  BY <1>1

-----------------------------------------------------------------------------
(***************************************************************************)
(* The invariant.  Every cluster is on the chain of its hash, and no two   *)
(* have the same id.  F is the set of the entries on the free list; each   *)
(* other entry is on the list of the block of its key, which a cluster has *)
(* for it, and no two have the same key.                                   *)
(***************************************************************************)
Hashes == 0..HashSize-1
Cluster == [next : Nat, id : Nat, blocks : [BlockIDs -> Nat]]
Entry == [next : Nat, key : Keys \cup {0}, value : Values \cup {NoValue}]

Chained(cls, h) == {c \in 1..Len(cls) : HashInt(cls[c].id) = h}

ClustersOK(table, cls) ==
  /\ table \in [Hashes -> Nat] /\ cls \in Seq(Cluster)
  /\ \A h \in Hashes : IsListOf(cls, table[h], Chained(cls, h))
  /\ \A c \in 1..Len(cls) : HashInt(cls[c].id) \in Hashes
  /\ \A c, d \in 1..Len(cls) : cls[c].id = cls[d].id => c = d

Live(ents, F) == (1..Len(ents)) \ F

InBlock(ents, F, id, b) ==
  {e \in Live(ents, F) : ClusterID(ents[e].key) = id /\ BlockID(ents[e].key) = b}

EntriesOK(cls, ents, F) ==
  /\ ents \in Seq(Entry)
  /\ \A e \in Live(ents, F) :
       /\ ents[e].key \in Keys /\ ents[e].value \in Values
       /\ \E c \in 1..Len(cls) : cls[c].id = ClusterID(ents[e].key)
  /\ \A d, e \in Live(ents, F) : ents[d].key = ents[e].key => d = e
  /\ \A c \in 1..Len(cls) : \A b \in BlockIDs :
       IsListOf(ents, cls[c].blocks[b], InBlock(ents, F, cls[c].id, b))

TableOK(table, free, cls, ents, F) ==
  /\ ClustersOK(table, cls)
  /\ IsListOf(ents, free, F)
  /\ EntriesOK(cls, ents, F)

LEMMA ConstantTypes ==
  /\ {BlockSize, ClusterBlocks, HashSize, ALLOC_COUNT, ClusterSize} \subseteq Nat \ {0}
  /\ 0 \in BlockIDs
<1>1. {BlockSize, ClusterBlocks, HashSize, ALLOC_COUNT} \subseteq Nat \ {0}
  BY AddressMapAssumption
<1>2. \A m, n \in Nat \ {0} : m * n \in Nat \ {0}
  OBVIOUS
<1>3. ClusterSize \in Nat \ {0}
  BY <1>1, <1>2 DEF ClusterSize
<1>4. QED
  BY <1>1, <1>3 DEF BlockIDs

LEMMA AddressPlace ==
  ASSUME NEW k \in Addresses
  PROVE  /\ ClusterID(k) \in Nat /\ HashInt(ClusterID(k)) \in Hashes
         /\ BlockID(k) \in BlockIDs
<1>1. k \in Nat /\ {BlockSize, ClusterBlocks, ClusterSize} \subseteq Nat \ {0}
  BY AddressMapAssumption, ConstantTypes DEF Addresses
<1>2. \A n \in Nat \ {0} : k \div n \in Nat
  BY <1>1
<1>3. \A m \in Nat : \A n \in Nat \ {0} : m % n \in 0..(n - 1)
  OBVIOUS
<1>4. ClusterID(k) \in Nat
  BY <1>1, <1>2 DEF ClusterID
<1>5. HashInt(ClusterID(k)) \in Hashes
  BY AddressMapAssumption DEF ClusterID, ClusterSize, Hashes
<1>6. BlockID(k) \in BlockIDs
  BY <1>1, <1>2, <1>3 DEF BlockID, BlockIDs
<1>7. QED
  BY <1>4, <1>5, <1>6

LEMMA KeyPlace ==
  ASSUME NEW k \in Keys
  PROVE  /\ ClusterID(k) \in Nat /\ HashInt(ClusterID(k)) \in Hashes
         /\ BlockID(k) \in BlockIDs
  BY AddressPlace, AddressMapAssumption

\* Clusters that keep their place and their id are still chained.
LEMMA ClustersSame ==
  ASSUME NEW table, NEW cls, ClustersOK(table, cls),
         NEW after \in Seq(Cluster), Len(after) = Len(cls),
         \A c \in 1..Len(cls) : after[c].next = cls[c].next /\ after[c].id = cls[c].id
  PROVE  ClustersOK(table, after)
<1>1. cls \in Seq(Cluster) /\ Len(cls) \in Nat
  BY DEF ClustersOK
<1>2. ASSUME NEW h \in Hashes PROVE IsListOf(after, table[h], Chained(after, h))
  <2>1. IsListOf(cls, table[h], Chained(cls, h)) /\ Chained(cls, h) \subseteq 1..Len(cls)
    BY DEF ClustersOK, Chained
  <2>2. KeepNext(cls, after, Chained(cls, h))
    BY <2>1 DEF KeepNext
  <2>3. Chained(after, h) = Chained(cls, h)
    BY DEF Chained
  <2>4. QED
    BY <1>1, <2>1, <2>2, <2>3, ListSame
<1>3. QED
  BY <1>2 DEF ClustersOK

-----------------------------------------------------------------------------
\* What the searches of the code come to.

LEMMA FirstIs ==
  ASSUME NEW objects, Len(objects) \in Nat, NEW head, NEW S, IsListOf(objects, head, S),
         NEW T
  PROVE  \/ First(objects, head, T) = 0 /\ S \cap T = {}
         \/ First(objects, head, T) \in S /\ First(objects, head, T) \in T
<1> DEFINE look == CHOOSE look : IsLook(look, objects, T, Len(objects) + 1)
<1>1. IsLook(look, objects, T, Len(objects) + 1)
  BY LookExists
<1>2. First(objects, head, T) = look[Len(objects) + 1][head]
  BY DEF First, IsLook, LookRow
<1> HIDE DEF look
<1>3. QED
  BY <1>1, <1>2, ListLook

LEMMA FindClusterIs ==
  ASSUME ClustersOK(hashtable_, clusters), NEW num, HashInt(ClusterID(num)) \in Hashes
  PROVE  LET c == FindCluster(num)
         IN \/ /\ c = 0
               /\ \A d \in 1..Len(clusters) : clusters[d].id # ClusterID(num)
            \/ c \in 1..Len(clusters) /\ clusters[c].id = ClusterID(num)
<1> DEFINE h == HashInt(ClusterID(num))
           T == {c \in DOMAIN clusters : clusters[c].id = ClusterID(num)}
           S == Chained(clusters, h)
<1>1. clusters \in Seq(Cluster) /\ Len(clusters) \in Nat /\ DOMAIN clusters = 1..Len(clusters)
  BY DEF ClustersOK
<1>2. IsListOf(clusters, hashtable_[h], S)
  BY DEF ClustersOK
<1>3. \/ FindCluster(num) = 0 /\ S \cap T = {}
      \/ FindCluster(num) \in S /\ FindCluster(num) \in T
  BY <1>1, <1>2, FirstIs DEF FindCluster
<1>4. T \subseteq S
  BY <1>1 DEF Chained
<1>5. QED
  BY <1>1, <1>3, <1>4

\* The head of a block is that of the list of its entries, whether it has any.
LEMMA BlockHeadIs ==
  ASSUME NEW F, TableOK(hashtable_, free_, clusters, entries, F),
         NEW num, HashInt(ClusterID(num)) \in Hashes, BlockID(num) \in BlockIDs
  PROVE  IsListOf(entries, BlockHead(num),
                  InBlock(entries, F, ClusterID(num), BlockID(num)))
<1>1. CASE FindCluster(num) = 0
  <2>1. \A d \in 1..Len(clusters) : clusters[d].id # ClusterID(num)
    BY <1>1, FindClusterIs DEF TableOK
  <2>2. InBlock(entries, F, ClusterID(num), BlockID(num)) = {}
    BY <2>1 DEF TableOK, EntriesOK, InBlock
  <2>3. BlockHead(num) = 0
    BY <1>1 DEF BlockHead
  <2>4. QED
    BY <2>2, <2>3, ListEmpty
<1>2. CASE FindCluster(num) # 0
  <2> DEFINE c == FindCluster(num)
  <2>1. c \in 1..Len(clusters) /\ clusters[c].id = ClusterID(num)
    BY <1>2, FindClusterIs DEF TableOK
  <2>2. BlockHead(num) = clusters[c].blocks[BlockID(num)]
    BY <1>2 DEF BlockHead
  <2> HIDE DEF c
  <2>3. QED
    BY <2>1, <2>2 DEF TableOK, EntriesOK
<1>3. QED
  BY <1>1, <1>2

LEMMA FindEntryIs ==
  ASSUME NEW F, TableOK(hashtable_, free_, clusters, entries, F), NEW key \in Keys
  PROVE  \/ FindEntry(key) = 0 /\ \A e \in Live(entries, F) : entries[e].key # key
         \/ FindEntry(key) \in Live(entries, F) /\ entries[FindEntry(key)].key = key
<1> DEFINE T == {e \in DOMAIN entries : entries[e].key = key}
           S == InBlock(entries, F, ClusterID(key), BlockID(key))
<1>1. entries \in Seq(Entry) /\ Len(entries) \in Nat /\ DOMAIN entries = 1..Len(entries)
  BY DEF TableOK, EntriesOK
<1>2. IsListOf(entries, BlockHead(key), S)
  BY BlockHeadIs, KeyPlace
<1>3. \/ FindEntry(key) = 0 /\ S \cap T = {}
      \/ FindEntry(key) \in S /\ FindEntry(key) \in T
  BY <1>1, <1>2, FirstIs DEF FindEntry
<1>4. \A e \in Live(entries, F) : entries[e].key = key => e \in S \cap T
  BY <1>1 DEF Live, InBlock
<1>5. QED
  BY <1>3, <1>4 DEF InBlock

\* So the map is the live entries.
LEMMA FindMutableIs ==
  ASSUME NEW F, TableOK(hashtable_, free_, clusters, entries, F), NEW key \in Keys
  PROVE  /\ \A e \in Live(entries, F) : entries[e].key = key =>
              FindEntry(key) = e /\ FindMutable(key) = entries[e].value
         /\ (\A e \in Live(entries, F) : entries[e].key # key) =>
              FindEntry(key) = 0 /\ FindMutable(key) = NoValue
<1>1. \A d, e \in Live(entries, F) : entries[d].key = entries[e].key => d = e
  BY DEF TableOK, EntriesOK
<1>2. 0 \notin Live(entries, F)
  BY DEF Live
<1>3. QED
  BY <1>1, <1>2, FindEntryIs DEF FindMutable

-----------------------------------------------------------------------------
\* The steps of the operations keep the invariant.

LEMMA TableTypes ==
  ASSUME NEW table, NEW free, NEW cls, NEW ents, NEW F, TableOK(table, free, cls, ents, F)
  PROVE  /\ table \in [Hashes -> Nat]
         /\ cls \in Seq(Cluster) /\ Len(cls) \in Nat /\ DOMAIN cls = 1..Len(cls)
         /\ \A c \in 1..Len(cls) : cls[c] \in Cluster
         /\ ents \in Seq(Entry) /\ Len(ents) \in Nat /\ DOMAIN ents = 1..Len(ents)
         /\ \A e \in 1..Len(ents) : ents[e] \in Entry
         /\ F \subseteq 1..Len(ents)
         /\ free \in Pointer(ents)
         /\ \A h \in Hashes : table[h] \in Pointer(cls)
<1>1. cls \in Seq(Cluster) /\ ents \in Seq(Entry) /\ table \in [Hashes -> Nat]
  BY DEF TableOK, ClustersOK, EntriesOK
<1>2. Len(cls) \in Nat /\ Len(ents) \in Nat
  BY <1>1
<1>3. F \subseteq 1..Len(ents) /\ free \in Pointer(ents)
  BY <1>2, ListMembers DEF TableOK
<1>4. \A h \in Hashes : table[h] \in Pointer(cls)
  BY <1>2, ListMembers DEF TableOK, ClustersOK
<1>5. QED
  BY <1>1, <1>2, <1>3, <1>4

\* A cluster goes to the front of its chain, with no entries.
LEMMA AddCluster ==
  ASSUME NEW table, NEW free, NEW cls, NEW ents, NEW F, TableOK(table, free, cls, ents, F),
         NEW key \in Keys, \A c \in 1..Len(cls) : cls[c].id # ClusterID(key),
         NEW new, new = [next |-> table[HashInt(ClusterID(key))], id |-> ClusterID(key),
                         blocks |-> [b \in BlockIDs |-> 0]]
  PROVE  TableOK([table EXCEPT ![HashInt(ClusterID(key))] = Len(cls) + 1], free,
                 Append(cls, new), ents, F)
<1> DEFINE h == HashInt(ClusterID(key))
           n == Len(cls)
           after == Append(cls, new)
           heads == [table EXCEPT ![h] = n + 1]
<1>1. /\ table \in [Hashes -> Nat] /\ cls \in Seq(Cluster) /\ n \in Nat
      /\ \A c \in 1..n : cls[c] \in Cluster
  BY TableTypes
<1>2. h \in Hashes /\ ClusterID(key) \in Nat /\ new \in Cluster
  <2>1. h \in Hashes /\ ClusterID(key) \in Nat
    BY KeyPlace
  <2>2. [b \in BlockIDs |-> 0] \in [BlockIDs -> Nat]
    OBVIOUS
  <2>3. table[h] \in Nat
    BY <1>1, <2>1
  <2>4. QED
    BY <2>1, <2>2, <2>3 DEF Cluster
<1>3. /\ after \in Seq(Cluster) /\ Len(after) = n + 1 /\ after[n + 1] = new
      /\ \A c \in 1..n : after[c] = cls[c]
      /\ \A c \in 1..Len(after) : c \in 1..n \/ c = n + 1
      /\ n + 1 \notin 1..n /\ n + 1 \in 1..Len(after)
  BY <1>1, <1>2
<1>4. heads \in [Hashes -> Nat] /\ heads[h] = n + 1 /\ \A i \in Hashes : i # h => heads[i] = table[i]
  BY <1>1, <1>2
<1> HIDE DEF after, heads, n
<1>5. new.next = table[h] /\ new.id = ClusterID(key) /\ \A b \in BlockIDs : new.blocks[b] = 0
  OBVIOUS
<1>6. ASSUME NEW i \in Hashes PROVE IsListOf(after, heads[i], Chained(after, i))
  <2>1. IsListOf(cls, table[i], Chained(cls, i)) /\ Chained(cls, i) \subseteq 1..n
    BY DEF TableOK, ClustersOK, Chained, n
  <2>2. KeepNext(cls, after, Chained(cls, i))
    BY <1>3, <2>1 DEF KeepNext
  <2>3. n = Len(cls) /\ Len(after) \in Nat /\ n <= Len(after)
    BY <1>1, <1>3 DEF n
  <2>4. CASE i = h
    <3>1. Chained(after, i) = Chained(cls, i) \cup {n + 1}
      BY <1>3, <1>5, <2>3, <2>4 DEF Chained
    <3>2. n + 1 \notin Chained(cls, i)
      BY <1>3, <2>1
    <3>3. heads[i] = n + 1 /\ after[n + 1].next = table[i]
      BY <1>3, <1>4, <1>5, <2>4
    <3>4. n + 1 \in 1..Len(after)
      BY <1>3
    <3>5. IsListOf(after, n + 1, Chained(cls, i) \cup {n + 1})
      BY <1>1, <2>1, <2>2, <2>3, <3>2, <3>3, <3>4, ListPush
    <3>6. QED
      BY <3>1, <3>3, <3>5
  <2>5. CASE i # h
    <3>1. Chained(after, i) = Chained(cls, i)
      BY <1>3, <1>5, <2>3, <2>5 DEF Chained
    <3>2. IsListOf(after, table[i], Chained(cls, i))
      BY <1>1, <2>1, <2>2, <2>3, ListSame
    <3>3. QED
      BY <1>4, <2>5, <3>1, <3>2
  <2>6. QED
    BY <2>4, <2>5
<1>7. ClustersOK(heads, after)
  <2>1. \A c \in 1..Len(after) : HashInt(after[c].id) \in Hashes
    BY <1>2, <1>3, <1>5 DEF TableOK, ClustersOK, n
  <2>2. \A c, d \in 1..n : cls[c].id = cls[d].id => c = d
    BY DEF TableOK, ClustersOK, n
  <2>3. \A c, d \in 1..Len(after) : after[c].id = after[d].id => c = d
    BY <1>3, <1>5, <2>2 DEF n
  <2>4. QED
    BY <1>3, <1>4, <1>6, <2>1, <2>3 DEF ClustersOK
<1>8. EntriesOK(after, ents, F)
  <2>1. ASSUME NEW e \in Live(ents, F)
        PROVE  \E c \in 1..Len(after) : after[c].id = ClusterID(ents[e].key)
    BY <1>3 DEF TableOK, EntriesOK, n
  <2>2. ASSUME NEW c \in 1..Len(after), NEW b \in BlockIDs
        PROVE  IsListOf(ents, after[c].blocks[b], InBlock(ents, F, after[c].id, b))
    <3>1. CASE c \in 1..n
      BY <1>3, <3>1 DEF TableOK, EntriesOK, n
    <3>2. CASE c = n + 1
      <4>1. after[c].blocks[b] = 0 /\ after[c].id = ClusterID(key)
        BY <1>3, <1>5, <3>2
      <4>2. InBlock(ents, F, ClusterID(key), b) = {}
        BY DEF TableOK, EntriesOK, InBlock
      <4>3. QED
        BY <4>1, <4>2, ListEmpty
    <3>3. QED
      BY <1>3, <3>1, <3>2
  <2>3. QED
    BY <2>1, <2>2 DEF TableOK, EntriesOK
<1>9. QED
  BY <1>7, <1>8 DEF TableOK, after, heads, n

\* A batch of entries is a list of them all.
LEMMA ListBatch ==
  ASSUME NEW n \in Nat, NEW m \in Nat \ {0}, NEW pool, Len(pool) = n + m,
         \A i \in 1..m : pool[n + i].next = IF i < m THEN n + i + 1 ELSE 0
  PROVE  IsListOf(pool, n + 1, (n + 1)..(n + m))
<1> DEFINE s == [i \in 1..m |-> n + i]
<1>1. Len(s) = m /\ s \in Seq(1..Len(pool)) /\ \A i \in 1..m : s[i] = n + i
  OBVIOUS
<1> HIDE DEF s
<1>2. \A i, j \in 1..m : s[i] = s[j] => i = j
  BY <1>1
<1>3. n + 1 = At(s, 1)
  BY <1>1 DEF At
<1>4. ASSUME NEW i \in 1..m PROVE pool[s[i]].next = At(s, i + 1)
  <2>1. pool[s[i]].next = IF i < m THEN n + i + 1 ELSE 0
    BY <1>1
  <2>2. CASE i < m
    BY <1>1, <2>1, <2>2 DEF At
  <2>3. CASE ~(i < m)
    BY <1>1, <2>1, <2>3 DEF At
  <2>4. QED
    BY <2>2, <2>3
<1>5. Linked(pool, s, n + 1)
  BY <1>1, <1>2, <1>3, <1>4 DEF Linked
<1>6. ASSUME NEW x PROVE Contains(s, x) <=> x \in (n + 1)..(n + m)
  <2>1. ASSUME NEW i \in 1..m PROVE n + i \in (n + 1)..(n + m)
    OBVIOUS
  <2>2. ASSUME x \in (n + 1)..(n + m) PROVE x - n \in 1..m /\ n + (x - n) = x
    BY <2>2
  <2>3. QED
    BY <1>1, <2>1, <2>2 DEF Contains
<1>7. QED
  BY <1>5, <1>6 DEF IsListOf

\* n is the number of entries before the batch.
IsBatch(batch, n) ==
  /\ batch \in Seq(Entry) /\ Len(batch) = ALLOC_COUNT
  /\ \A i \in 1..ALLOC_COUNT :
        batch[i].next = IF i < ALLOC_COUNT THEN n + i + 1 ELSE 0

InBatch(n) == (n + 1)..(n + ALLOC_COUNT)

LEMMA BatchLive ==
  ASSUME NEW ents \in Seq(Entry), NEW batch, IsBatch(batch, Len(ents))
  PROVE  /\ Live(ents \o batch, InBatch(Len(ents))) = Live(ents, {})
         /\ \A e \in Live(ents, {}) : (ents \o batch)[e] = ents[e]
<1>1. ALLOC_COUNT \in Nat
  BY ConstantTypes
<1>2. QED
  BY <1>1 DEF IsBatch, InBatch, Live

LEMMA AddBatch ==
  ASSUME NEW table, NEW cls, NEW ents, NEW F, TableOK(table, 0, cls, ents, F),
         NEW batch, IsBatch(batch, Len(ents))
  PROVE  TableOK(table, Len(ents) + 1, cls, ents \o batch, InBatch(Len(ents)))
<1> DEFINE n == Len(ents)
           m == ALLOC_COUNT
           pool == ents \o batch
           G == (n + 1)..(n + m)
<1>1. /\ ents \in Seq(Entry) /\ n \in Nat /\ m \in Nat \ {0}
      /\ batch \in Seq(Entry) /\ Len(batch) = m
      /\ \A i \in 1..m : batch[i].next = IF i < m THEN n + i + 1 ELSE 0
  BY TableTypes, ConstantTypes DEF IsBatch
<1>2. F = {}
  BY <1>1, ListMembers DEF TableOK
<1>3. /\ pool \in Seq(Entry) /\ Len(pool) = n + m
      /\ \A e \in 1..n : pool[e] = ents[e]
      /\ \A i \in 1..m : pool[n + i] = batch[i]
  BY <1>1
<1> HIDE DEF pool, n
<1>4. IsListOf(pool, n + 1, G)
  <2>1. \A i \in 1..m : pool[n + i].next = IF i < m THEN n + i + 1 ELSE 0
    BY <1>1, <1>3
  <2>2. QED
    BY <1>1, <1>3, <2>1, ListBatch
<1>5. Live(pool, G) = 1..n /\ Live(ents, F) = 1..n
  BY <1>1, <1>2, <1>3 DEF Live, n
<1> HIDE DEF G, m
<1>6. \A id, b : InBlock(pool, G, id, b) = InBlock(ents, F, id, b)
  BY <1>3, <1>5 DEF InBlock
<1>7. ASSUME NEW c \in 1..Len(cls), NEW b \in BlockIDs
      PROVE  IsListOf(pool, cls[c].blocks[b], InBlock(pool, G, cls[c].id, b))
  <2> DEFINE S == InBlock(ents, F, cls[c].id, b)
  <2>1. IsListOf(ents, cls[c].blocks[b], S)
    BY DEF TableOK, EntriesOK
  <2>2. S \subseteq 1..n
    BY <1>5 DEF InBlock
  <2>3. KeepNext(ents, pool, S)
    BY <1>3, <2>2 DEF KeepNext
  <2>4. Len(ents) \in Nat /\ Len(pool) \in Nat /\ Len(ents) <= Len(pool)
    BY <1>1, <1>3 DEF n
  <2> HIDE DEF S
  <2>5. IsListOf(pool, cls[c].blocks[b], S)
    BY <2>1, <2>3, <2>4, ListSame
  <2>6. QED
    BY <1>6, <2>5 DEF S
<1>8. EntriesOK(cls, pool, G)
  <2>1. \A e \in Live(ents, F) :
           /\ ents[e].key \in Keys /\ ents[e].value \in Values
           /\ \E c \in 1..Len(cls) : cls[c].id = ClusterID(ents[e].key)
    BY DEF TableOK, EntriesOK
  <2>2. \A d, e \in Live(ents, F) : ents[d].key = ents[e].key => d = e
    BY DEF TableOK, EntriesOK
  <2>3. QED
    BY <1>3, <1>5, <1>7, <2>1, <2>2 DEF EntriesOK
<1>9. QED
  BY <1>3, <1>4, <1>5, <1>8 DEF TableOK, InBatch, G, m, n, pool

(***************************************************************************)
(* What the operations set: the head of a block, an entry, its value, its  *)
(* next.  The rest stays: but for that block, and but for the next of the  *)
(* entries in S.                                                           *)
(***************************************************************************)
WithBlock(cls, c, b, x) == [cls EXCEPT ![c].blocks[b] = x]
WithEntry(ents, e, new) == [ents EXCEPT ![e] = new]
WithValue(ents, e, value) == [ents EXCEPT ![e].value = value]
WithNext(ents, e, x) == [ents EXCEPT ![e].next = x]

FilledEntry(key, value, next) == [key |-> key, value |-> value, next |-> next]

SameButBlock(cls, after, c, b) ==
  /\ after \in Seq(Cluster) /\ Len(after) = Len(cls)
  /\ \A d \in 1..Len(cls) : after[d].next = cls[d].next /\ after[d].id = cls[d].id
  /\ \A d \in 1..Len(cls) : \A i \in BlockIDs :
        d # c \/ i # b => after[d].blocks[i] = cls[d].blocks[i]

SameButNext(ents, after, S) ==
  /\ after \in Seq(Entry) /\ Len(after) = Len(ents)
  /\ \A d \in 1..Len(ents) : after[d].key = ents[d].key /\ after[d].value = ents[d].value
  /\ \A d \in 1..Len(ents) : d \notin S => after[d].next = ents[d].next

LEMMA SetBlock ==
  ASSUME NEW cls \in Seq(Cluster), NEW c \in 1..Len(cls), NEW b \in BlockIDs, NEW x \in Nat
  PROVE  /\ SameButBlock(cls, WithBlock(cls, c, b, x), c, b)
         /\ WithBlock(cls, c, b, x)[c].blocks[b] = x
<1> DEFINE blocks == [cls[c].blocks EXCEPT ![b] = x]
           new == [cls[c] EXCEPT !.blocks = blocks]
           after == WithBlock(cls, c, b, x)
<1>1. cls[c] \in Cluster
  OBVIOUS
<1>2. cls[c].blocks \in [BlockIDs -> Nat]
  BY <1>1 DEF Cluster
<1>3. /\ blocks \in [BlockIDs -> Nat] /\ blocks[b] = x
      /\ \A i \in BlockIDs : i # b => blocks[i] = cls[c].blocks[i]
  BY <1>2
<1> HIDE DEF blocks
<1>4. new \in Cluster /\ new.next = cls[c].next /\ new.id = cls[c].id /\ new.blocks = blocks
  BY <1>1, <1>3 DEF Cluster
<1>5. after = [cls EXCEPT ![c] = new]
  BY DEF blocks, WithBlock
<1> HIDE DEF new, after
<1>6. /\ after \in Seq(Cluster) /\ Len(after) = Len(cls) /\ after[c] = new
      /\ \A d \in 1..Len(cls) : d # c => after[d] = cls[d]
  BY <1>4, <1>5
<1>7. QED
  BY <1>3, <1>4, <1>6 DEF after, SameButBlock

LEMMA SetNext ==
  ASSUME NEW ents \in Seq(Entry), NEW e \in 1..Len(ents), NEW x \in Nat
  PROVE  /\ SameButNext(ents, WithNext(ents, e, x), {e})
         /\ WithNext(ents, e, x)[e].next = x
<1> DEFINE new == [ents[e] EXCEPT !.next = x]
           after == WithNext(ents, e, x)
<1>1. ents[e] \in Entry
  OBVIOUS
<1>2. new \in Entry /\ new.key = ents[e].key /\ new.value = ents[e].value /\ new.next = x
  BY <1>1 DEF Entry
<1>3. after = [ents EXCEPT ![e] = new]
  BY DEF WithNext
<1> HIDE DEF new, after
<1>4. /\ after \in Seq(Entry) /\ Len(after) = Len(ents) /\ after[e] = new
      /\ \A d \in 1..Len(ents) : d # e => after[d] = ents[d]
  BY <1>2, <1>3
<1>5. QED
  BY <1>2, <1>4 DEF after, SameButNext

Absent(ents, F, key) == \A e \in Live(ents, F) : ents[e].key # key

\* The first free entry goes to the front of its block.
LEMMA PushEntry ==
  ASSUME NEW table, NEW free, NEW cls, NEW ents, NEW F, TableOK(table, free, cls, ents, F),
         free # 0, NEW key \in Keys, NEW value \in Values,
         NEW c \in 1..Len(cls), cls[c].id = ClusterID(key),
         Absent(ents, F, key)
  PROVE  LET b == BlockID(key)
         IN TableOK(table, ents[free].next, WithBlock(cls, c, b, free),
                    WithEntry(ents, free, FilledEntry(key, value, cls[c].blocks[b])),
                    F \ {free})
<1> DEFINE b == BlockID(key)
           new == FilledEntry(key, value, cls[c].blocks[b])
           after == WithEntry(ents, free, new)
           heads == WithBlock(cls, c, b, free)
           G == F \ {free}
           n == Len(ents)
<1>1. /\ cls \in Seq(Cluster) /\ Len(cls) \in Nat /\ DOMAIN cls = 1..Len(cls)
      /\ \A d \in 1..Len(cls) : cls[d] \in Cluster
      /\ ents \in Seq(Entry) /\ n \in Nat /\ DOMAIN ents = 1..n
      /\ F \subseteq 1..n
  BY TableTypes
<1>2. free \in F /\ free \in 1..n /\ IsListOf(ents, free, F)
  BY <1>1, ListMembers DEF TableOK
<1>3. b \in BlockIDs /\ cls[c].blocks[b] \in Nat
  BY <1>1, KeyPlace DEF Cluster
<1>4. new \in Entry /\ new.key = key /\ new.value = value /\ new.next = cls[c].blocks[b]
  BY <1>3 DEF Entry, FilledEntry
<1> HIDE DEF new
<1>5. /\ after \in Seq(Entry) /\ Len(after) = n /\ after[free] = new
      /\ \A e \in 1..n : e # free => after[e] = ents[e]
  BY <1>1, <1>2, <1>4 DEF WithEntry
<1> HIDE DEF b
<1>6. /\ heads \in Seq(Cluster) /\ Len(heads) = Len(cls)
      /\ \A d \in 1..Len(cls) : heads[d].next = cls[d].next /\ heads[d].id = cls[d].id
      /\ heads[c].blocks[b] = free
      /\ \A d \in 1..Len(cls) : \A i \in BlockIDs :
            d # c \/ i # b => heads[d].blocks[i] = cls[d].blocks[i]
  <2>1. free \in Nat
    BY <1>1, <1>2
  <2>2. SameButBlock(cls, heads, c, b) /\ heads[c].blocks[b] = free
    BY <1>1, <1>3, <2>1, SetBlock
  <2>3. QED
    BY <2>2 DEF SameButBlock
<1> HIDE DEF after, heads, n
<1>7. free \notin Live(ents, F) /\ Live(ents, F) \subseteq 1..n
  BY <1>2 DEF Live, n
<1>8. Live(after, G) = Live(ents, F) \cup {free}
  BY <1>1, <1>2, <1>5 DEF Live, n
<1>9. \A e \in Live(ents, F) : after[e] = ents[e]
  BY <1>5, <1>7
<1>10. Len(ents) \in Nat /\ Len(after) \in Nat /\ Len(ents) <= Len(after)
  BY <1>1, <1>5 DEF n
<1>11. IsListOf(after, ents[free].next, G)
  <2>1. KeepNext(ents, after, F \ {free})
    BY <1>1, <1>5 DEF KeepNext
  <2>2. free # 0
    OBVIOUS
  <2>3. QED
    BY <1>2, <1>10, <2>1, <2>2, ListPop
<1>12. ASSUME NEW d \in 1..Len(cls), NEW i \in BlockIDs
       PROVE  IsListOf(after, heads[d].blocks[i], InBlock(after, G, heads[d].id, i))
  <2> DEFINE S == InBlock(ents, F, cls[d].id, i)
  <2>1. IsListOf(ents, cls[d].blocks[i], S)
    BY DEF TableOK, EntriesOK
  <2>2. S \subseteq Live(ents, F)
    BY DEF InBlock
  <2>3. KeepNext(ents, after, S)
    BY <1>9, <2>2 DEF KeepNext
  <2>4. InBlock(after, G, cls[d].id, i) =
          S \cup (IF cls[d].id = ClusterID(key) /\ i = b THEN {free} ELSE {})
    <3>1. \A e : e \in Live(after, G) <=> e \in Live(ents, F) \/ e = free
      BY <1>8
    <3>2. after[free].key = key
      BY <1>4, <1>5
    <3>3. QED
      BY <1>9, <3>1, <3>2 DEF InBlock, b
  <2> HIDE DEF S
  <2>5. CASE d = c /\ i = b
    <3>1. after[free].next = cls[d].blocks[i]
      BY <1>4, <1>5, <2>5
    <3>2. free \in 1..Len(after) /\ free \notin S
      BY <1>2, <1>5, <1>7, <2>2
    <3>3. IsListOf(after, free, S \cup {free})
      BY <1>10, <2>1, <2>3, <3>1, <3>2, ListPush
    <3>4. QED
      BY <1>6, <2>4, <2>5, <3>3
  <2>6. CASE ~(d = c /\ i = b)
    <3>1. d = c \/ cls[d].id # ClusterID(key)
      BY DEF TableOK, ClustersOK
    <3>2. IsListOf(after, cls[d].blocks[i], S)
      BY <1>10, <2>1, <2>3, ListSame
    <3>3. QED
      BY <1>6, <2>4, <2>6, <3>1, <3>2
  <2>7. QED
    BY <2>5, <2>6
<1>13. EntriesOK(heads, after, G)
  <2>1. \A e \in Live(ents, F) :
           /\ ents[e].key \in Keys /\ ents[e].value \in Values
           /\ \E d \in 1..Len(cls) : cls[d].id = ClusterID(ents[e].key)
    BY DEF TableOK, EntriesOK
  <2>2. \A d, e \in Live(ents, F) : ents[d].key = ents[e].key => d = e
    BY DEF TableOK, EntriesOK
  <2>3. ASSUME NEW e \in Live(after, G)
        PROVE  /\ after[e].key \in Keys /\ after[e].value \in Values
               /\ \E d \in 1..Len(heads) : heads[d].id = ClusterID(after[e].key)
    <3>1. CASE e = free
      BY <1>4, <1>5, <1>6, <3>1
    <3>2. CASE e \in Live(ents, F)
      BY <1>6, <1>9, <2>1, <3>2
    <3>3. QED
      BY <1>8, <3>1, <3>2
  <2>4. \A d, e \in Live(after, G) : after[d].key = after[e].key => d = e
    BY <1>4, <1>5, <1>8, <1>9, <2>2 DEF Absent
  <2>5. QED
    BY <1>5, <1>6, <1>12, <2>3, <2>4 DEF EntriesOK
<1>14. ClustersOK(table, heads)
  BY <1>6, ClustersSame DEF TableOK
<1>15. QED
  BY <1>11, <1>13, <1>14 DEF TableOK, b, new, after, heads

\* An entry is given another value.
LEMMA SetValue ==
  ASSUME NEW table, NEW free, NEW cls, NEW ents, NEW F, TableOK(table, free, cls, ents, F),
         NEW e \in Live(ents, F), NEW value \in Values
  PROVE  LET after == WithValue(ents, e, value)
         IN /\ TableOK(table, free, cls, after, F)
            /\ Live(after, F) = Live(ents, F)
            /\ \A d \in Live(ents, F) :
                  /\ after[d].key = ents[d].key
                  /\ after[d].value = IF d = e THEN value ELSE ents[d].value
<1> DEFINE after == WithValue(ents, e, value)
           n == Len(ents)
<1>1. /\ ents \in Seq(Entry) /\ n \in Nat /\ DOMAIN ents = 1..n
      /\ \A d \in 1..n : ents[d] \in Entry
      /\ F \subseteq 1..n /\ e \in 1..n
  BY TableTypes DEF Live
<1>2. /\ after \in Seq(Entry) /\ Len(after) = n
      /\ \A d \in 1..n : after[d].key = ents[d].key /\ after[d].next = ents[d].next
      /\ after[e].value = value
      /\ \A d \in 1..n : d # e => after[d].value = ents[d].value
  <2> DEFINE new == [ents[e] EXCEPT !.value = value]
  <2>1. ents[e] \in Entry
    BY <1>1
  <2>2. new \in Entry /\ new.key = ents[e].key /\ new.next = ents[e].next /\ new.value = value
    BY <2>1 DEF Entry
  <2>3. after = [ents EXCEPT ![e] = new]
    BY <1>1 DEF WithValue
  <2> HIDE DEF new, after
  <2>4. after \in Seq(Entry) /\ Len(after) = n /\ after[e] = new
        /\ \A d \in 1..n : d # e => after[d] = ents[d]
    BY <1>1, <2>2, <2>3
  <2>5. QED
    BY <2>2, <2>4
<1> HIDE DEF after
<1>3. Live(after, F) = Live(ents, F) /\ Live(ents, F) \subseteq 1..n
  BY <1>2 DEF Live
<1>4. Len(ents) \in Nat /\ Len(after) \in Nat /\ Len(ents) <= Len(after)
  BY <1>1, <1>2
<1>5. IsListOf(after, free, F)
  BY <1>1, <1>2, <1>4, ListSame DEF TableOK, KeepNext
<1>6. ASSUME NEW c \in 1..Len(cls), NEW b \in BlockIDs
      PROVE  IsListOf(after, cls[c].blocks[b], InBlock(after, F, cls[c].id, b))
  <2>1. IsListOf(ents, cls[c].blocks[b], InBlock(ents, F, cls[c].id, b))
    BY DEF TableOK, EntriesOK
  <2>2. InBlock(after, F, cls[c].id, b) = InBlock(ents, F, cls[c].id, b)
    BY <1>2, <1>3 DEF InBlock
  <2>3. KeepNext(ents, after, InBlock(ents, F, cls[c].id, b))
    BY <1>2, <1>3 DEF KeepNext, InBlock
  <2>4. QED
    BY <1>4, <2>1, <2>2, <2>3, ListSame
<1>7. EntriesOK(cls, after, F)
  <2>1. \A d \in Live(ents, F) : /\ ents[d].key \in Keys /\ ents[d].value \in Values
                                 /\ \E c \in 1..Len(cls) : cls[c].id = ClusterID(ents[d].key)
    BY DEF TableOK, EntriesOK
  <2>2. \A c, d \in Live(ents, F) : ents[c].key = ents[d].key => c = d
    BY DEF TableOK, EntriesOK
  <2>3. \A d \in Live(after, F) : d \in 1..n /\ d \in Live(ents, F)
    BY <1>3
  <2>4. \A d \in Live(after, F) : after[d].value \in Values
    BY <1>2, <2>1, <2>3
  <2>5. QED
    BY <1>2, <1>3, <1>6, <2>1, <2>2, <2>3, <2>4 DEF EntriesOK
<1>8. TableOK(table, free, cls, after, F)
  BY <1>5, <1>7 DEF TableOK
<1>9. QED
  BY <1>2, <1>3, <1>8 DEF after

\* An entry leaves its block's list, however the pointers were changed, and is
\* put on the free list.
LEMMA RemoveEntry ==
  ASSUME NEW table, NEW free, NEW cls, NEW ents, NEW F, TableOK(table, free, cls, ents, F),
         NEW c \in 1..Len(cls), NEW b \in BlockIDs,
         NEW e \in InBlock(ents, F, cls[c].id, b),
         NEW heads, SameButBlock(cls, heads, c, b),
         NEW after, SameButNext(ents, after, InBlock(ents, F, cls[c].id, b)),
         PointsTo(after, e, free),
         IsListOf(after, heads[c].blocks[b], InBlock(ents, F, cls[c].id, b) \ {e})
  PROVE  TableOK(table, e, heads, after, F \cup {e})
<1> DEFINE n == Len(ents)
           G == F \cup {e}
           S == InBlock(ents, F, cls[c].id, b)
<1>1. ents \in Seq(Entry) /\ n \in Nat /\ F \subseteq 1..n /\ e \in 1..n /\ e \notin F
  BY TableTypes DEF Live, InBlock
<1>2. /\ after \in Seq(Entry) /\ Len(after) = n
      /\ \A d \in 1..n : after[d].key = ents[d].key /\ after[d].value = ents[d].value
      /\ \A d \in 1..n : d \notin S => after[d].next = ents[d].next
  BY DEF SameButNext
<1>3. /\ heads \in Seq(Cluster) /\ Len(heads) = Len(cls)
      /\ \A d \in 1..Len(cls) : heads[d].next = cls[d].next /\ heads[d].id = cls[d].id
      /\ \A d \in 1..Len(cls) : \A i \in BlockIDs :
            d # c \/ i # b => heads[d].blocks[i] = cls[d].blocks[i]
  BY DEF SameButBlock
<1>4. Live(after, G) = Live(ents, F) \ {e} /\ Live(ents, F) \subseteq 1..n
  BY <1>2 DEF Live
<1>5. Len(ents) \in Nat /\ Len(after) \in Nat /\ Len(ents) <= Len(after)
  BY <1>1, <1>2
<1>6. IsListOf(after, e, G)
  <2>1. KeepNext(ents, after, F)
    BY <1>1, <1>2 DEF KeepNext, InBlock, Live
  <2>2. IsListOf(ents, free, F) /\ e \in 1..Len(after) /\ after[e].next = free
    BY <1>1, <1>2 DEF TableOK, PointsTo
  <2>3. QED
    BY <1>1, <1>5, <2>1, <2>2, ListPush
<1>7. ASSUME NEW d \in 1..Len(cls), NEW i \in BlockIDs
      PROVE  IsListOf(after, heads[d].blocks[i], InBlock(after, G, heads[d].id, i))
  <2> DEFINE R == InBlock(ents, F, cls[d].id, i)
  <2>1. InBlock(after, G, heads[d].id, i) = R \ {e}
    BY <1>2, <1>3, <1>4 DEF InBlock
  <2>2. CASE d = c /\ i = b
    BY <2>1, <2>2
  <2>3. CASE ~(d = c /\ i = b)
    <3>1. d = c \/ cls[d].id # cls[c].id
      BY DEF TableOK, ClustersOK
    <3>2. R \cap S = {}
      BY <2>3, <3>1 DEF InBlock
    <3>3. e \in S
      BY DEF InBlock
    <3>4. R \subseteq 1..n
      BY <1>4 DEF InBlock
    <3>5. KeepNext(ents, after, R)
      BY <1>2, <3>2, <3>4 DEF KeepNext
    <3>6. IsListOf(ents, cls[d].blocks[i], R)
      BY DEF TableOK, EntriesOK
    <3> HIDE DEF R
    <3>7. IsListOf(after, cls[d].blocks[i], R)
      BY <1>5, <3>5, <3>6, ListSame
    <3>8. R \ {e} = R
      BY <3>2, <3>3
    <3>9. QED
      BY <1>3, <2>1, <2>3, <3>7, <3>8
  <2>4. QED
    BY <2>2, <2>3
<1>8. EntriesOK(heads, after, G)
  <2>1. \A d \in Live(ents, F) : /\ ents[d].key \in Keys /\ ents[d].value \in Values
                                 /\ \E x \in 1..Len(cls) : cls[x].id = ClusterID(ents[d].key)
    BY DEF TableOK, EntriesOK
  <2>2. \A x, d \in Live(ents, F) : ents[x].key = ents[d].key => x = d
    BY DEF TableOK, EntriesOK
  <2>3. \A d \in Live(after, G) : d \in 1..n /\ d \in Live(ents, F)
    BY <1>4
  <2>4. \A d \in Live(after, G) :
           /\ after[d].key \in Keys /\ after[d].value \in Values
           /\ \E x \in 1..Len(heads) : heads[x].id = ClusterID(after[d].key)
    BY <1>2, <1>3, <2>1, <2>3
  <2>5. \A x, d \in Live(after, G) : after[x].key = after[d].key => x = d
    BY <1>2, <2>2, <2>3
  <2>6. QED
    BY <1>2, <1>3, <1>7, <2>4, <2>5 DEF EntriesOK
<1>9. ClustersOK(table, heads)
  BY <1>3, ClustersSame DEF TableOK
<1>10. QED
  BY <1>2, <1>4, <1>6, <1>8, <1>9 DEF TableOK

\* The other entries in use are what they were.
Frees(ents, F, after, e) ==
  /\ Live(after, F \cup {e}) = Live(ents, F) \ {e}
  /\ \A d \in Live(ents, F) : after[d].key = ents[d].key /\ after[d].value = ents[d].value

\* The pointer to it is the head of the block.
LEMMA UnlinkHead ==
  ASSUME NEW table, NEW free, NEW cls, NEW ents, NEW F, TableOK(table, free, cls, ents, F),
         NEW c \in 1..Len(cls), NEW b \in BlockIDs,
         NEW e \in InBlock(ents, F, cls[c].id, b), cls[c].blocks[b] = e
  PROVE  LET after == WithNext(ents, e, free) IN
         /\ TableOK(table, e, WithBlock(cls, c, b, ents[e].next), after, F \cup {e})
         /\ Frees(ents, F, after, e)
<1> DEFINE after == WithNext(ents, e, free)
           heads == WithBlock(cls, c, b, ents[e].next)
           S == InBlock(ents, F, cls[c].id, b)
<1>1. /\ cls \in Seq(Cluster) /\ ents \in Seq(Entry) /\ Len(ents) \in Nat /\ free \in Nat
      /\ e \in 1..Len(ents) /\ ents[e] \in Entry
  BY TableTypes DEF Live, InBlock, Pointer
<1>2. ents[e].next \in Nat
  BY <1>1 DEF Entry
<1>3. SameButBlock(cls, heads, c, b) /\ heads[c].blocks[b] = ents[e].next
  BY <1>1, <1>2, SetBlock
<1>4. SameButNext(ents, after, {e}) /\ PointsTo(after, e, free)
  BY <1>1, SetNext DEF PointsTo
<1> HIDE DEF heads, after
<1>5. IsListOf(ents, e, S) /\ S \subseteq 1..Len(ents) /\ e \in S
  BY <1>2 DEF TableOK, EntriesOK, InBlock, Live
<1> HIDE DEF S
<1>6. SameButNext(ents, after, S)
  BY <1>4, <1>5 DEF SameButNext
<1>7. IsListOf(after, ents[e].next, S \ {e})
  <2>1. KeepNext(ents, after, S \ {e})
    BY <1>4, <1>5 DEF KeepNext, SameButNext
  <2>2. e # 0 /\ Len(after) \in Nat /\ Len(ents) <= Len(after)
    BY <1>1, <1>4 DEF SameButNext
  <2>3. QED
    BY <1>1, <1>5, <2>1, <2>2, ListPop
<1>8. IsListOf(after, heads[c].blocks[b], S \ {e})
  BY <1>3, <1>7
<1>9. TableOK(table, e, heads, after, F \cup {e})
  <2>1. SameButBlock(cls, heads, c, b) /\ PointsTo(after, e, free)
    BY <1>3, <1>4
  <2>2. /\ SameButNext(ents, after, InBlock(ents, F, cls[c].id, b))
        /\ IsListOf(after, heads[c].blocks[b], InBlock(ents, F, cls[c].id, b) \ {e})
    BY <1>6, <1>8 DEF S
  <2>3. QED
    BY <2>1, <2>2, RemoveEntry, Zenon
<1>10. Frees(ents, F, after, e)
  BY <1>6 DEF SameButNext, Live, Frees
<1>11. QED
  BY <1>9, <1>10 DEF heads, after

\* The pointer to it is the next of the entry before it.
LEMMA UnlinkInside ==
  ASSUME NEW table, NEW free, NEW cls, NEW ents, NEW F, TableOK(table, free, cls, ents, F),
         NEW c \in 1..Len(cls), NEW b \in BlockIDs,
         NEW e \in InBlock(ents, F, cls[c].id, b),
         NEW p \in InBlock(ents, F, cls[c].id, b), PointsTo(ents, p, e)
  PROVE  LET after == WithNext(WithNext(ents, p, ents[e].next), e, free) IN
         /\ TableOK(table, e, cls, after, F \cup {e})
         /\ Frees(ents, F, after, e)
<1> DEFINE between == WithNext(ents, p, ents[e].next)
           after == WithNext(between, e, free)
           S == InBlock(ents, F, cls[c].id, b)
           head == cls[c].blocks[b]
<1>1. /\ cls \in Seq(Cluster) /\ ents \in Seq(Entry) /\ Len(ents) \in Nat /\ free \in Nat
      /\ e \in 1..Len(ents) /\ ents[e] \in Entry
  BY TableTypes DEF Live, InBlock, Pointer
<1>2. ents[e].next \in Nat
  BY <1>1 DEF Entry
<1>3. IsListOf(ents, head, S) /\ S \subseteq 1..Len(ents) /\ e \in S /\ p \in S
  BY <1>2 DEF TableOK, EntriesOK, InBlock, Live
<1> HIDE DEF S, head
<1>4. SameButNext(ents, between, {p}) /\ PointsTo(between, p, ents[e].next)
  BY <1>1, <1>2, <1>3, SetNext DEF PointsTo
<1> HIDE DEF between
<1>5. SameButNext(between, after, {e}) /\ PointsTo(after, e, free)
  <2>1. between \in Seq(Entry) /\ e \in 1..Len(between)
    BY <1>1, <1>4 DEF SameButNext
  <2>2. QED
    BY <1>1, <2>1, SetNext DEF PointsTo
<1> HIDE DEF after
<1>6. SameButNext(ents, after, S)
  BY <1>3, <1>4, <1>5 DEF SameButNext
<1>7. e # p
  <2>1. SUFFICES ASSUME e = p PROVE FALSE
    OBVIOUS
  <2>2. KeepNext(ents, ents, (S \ {e}) \ {p}) /\ PointsTo(ents, p, ents[e].next)
    BY <2>1 DEF KeepNext, PointsTo
  <2>3. Len(ents) <= Len(ents)
    BY <1>1
  <2>4. e # p
    BY <1>1, <1>3, <2>2, <2>3, ListDrop
  <2>5. QED
    BY <2>1, <2>4
<1>8. IsListOf(after, head, S \ {e})
  <2>1. KeepNext(ents, after, (S \ {e}) \ {p})
    BY <1>3, <1>4, <1>5 DEF KeepNext, SameButNext
  <2>2. Len(after) \in Nat /\ Len(ents) <= Len(after)
    BY <1>1, <1>6 DEF SameButNext
  <2>3. PointsTo(after, p, ents[e].next)
    BY <1>3, <1>4, <1>5, <1>7 DEF SameButNext, PointsTo
  <2>4. QED
    BY <1>1, <1>3, <2>1, <2>2, <2>3, ListDrop
<1>9. SameButBlock(cls, cls, c, b)
  BY <1>1 DEF SameButBlock
<1>10. TableOK(table, e, cls, after, F \cup {e})
  <2>1. SameButBlock(cls, cls, c, b) /\ PointsTo(after, e, free)
    BY <1>5, <1>9
  <2>2. /\ SameButNext(ents, after, InBlock(ents, F, cls[c].id, b))
        /\ IsListOf(after, cls[c].blocks[b], InBlock(ents, F, cls[c].id, b) \ {e})
    BY <1>6, <1>8 DEF S, head
  <2>3. QED
    BY <2>1, <2>2, RemoveEntry, Zenon
<1>11. Frees(ents, F, after, e)
  BY <1>6 DEF SameButNext, Live, Frees
<1>12. QED
  BY <1>10, <1>11 DEF after, between

-----------------------------------------------------------------------------
\* The invariant of the specification, with the free list there is.

FreeOf(ents, free) == {e \in 1..Len(ents) : Contains(List(ents, free), e)}

TableInv == TableOK(hashtable_, free_, clusters, entries, FreeOf(entries, free_))

LEMMA FreeIs ==
  ASSUME NEW table, NEW free, NEW cls, NEW ents, NEW F, TableOK(table, free, cls, ents, F)
  PROVE  F = FreeOf(ents, free)
<1>1. Len(ents) \in Nat /\ F \subseteq 1..Len(ents) /\ IsListOf(ents, free, F)
  BY TableTypes DEF TableOK
<1>2. \A x : Contains(List(ents, free), x) <=> x \in F
  BY <1>1, ListVisits
<1>3. QED
  BY <1>1, <1>2 DEF FreeOf

\* The keys and values of the entries in use.
Has(ents, free, key, value) ==
  \E e \in Live(ents, FreeOf(ents, free)) : ents[e].key = key /\ ents[e].value = value

LEMMA TableEmpty == TableOK([h \in Hashes |-> 0], 0, <<>>, <<>>, {})
<1>1. ClustersOK([h \in Hashes |-> 0], <<>>)
  <2> DEFINE table == [h \in Hashes |-> 0]
  <2>1. \A h : Chained(<<>>, h) = {}
    BY DEF Chained
  <2>2. table \in [Hashes -> Nat] /\ \A h \in Hashes : table[h] = 0
    OBVIOUS
  <2> HIDE DEF table
  <2>3. \A h \in Hashes : IsListOf(<<>>, table[h], Chained(<<>>, h))
    BY <2>1, <2>2, ListEmpty
  <2>4. <<>> \in Seq(Cluster) /\ 1..Len(<<>>) = {}
    OBVIOUS
  <2>5. ClustersOK(table, <<>>)
    BY <2>2, <2>3, <2>4 DEF ClustersOK
  <2>6. QED
    BY <2>5 DEF table
<1>2. EntriesOK(<<>>, <<>>, {})
  BY DEF EntriesOK, Live
<1>3. QED
  BY <1>1, <1>2, ListEmpty DEF TableOK

LEMMA FindMutableHas ==
  ASSUME TableInv, NEW key \in Keys
  PROVE  \/ /\ FindEntry(key) = 0 /\ FindMutable(key) = NoValue
            /\ \A value : ~Has(entries, free_, key, value)
         \/ /\ FindEntry(key) \in Live(entries, FreeOf(entries, free_))
            /\ entries[FindEntry(key)].key = key
            /\ FindMutable(key) = entries[FindEntry(key)].value
            /\ FindMutable(key) \in Values
            /\ \A value : Has(entries, free_, key, value) <=> value = FindMutable(key)
<1> DEFINE F == FreeOf(entries, free_)
<1>1. \/ FindEntry(key) = 0 /\ \A e \in Live(entries, F) : entries[e].key # key
      \/ FindEntry(key) \in Live(entries, F) /\ entries[FindEntry(key)].key = key
  BY FindEntryIs DEF TableInv
<1>2. /\ \A e \in Live(entries, F) : entries[e].value \in Values
      /\ \A d, e \in Live(entries, F) : entries[d].key = entries[e].key => d = e
  BY DEF TableInv, TableOK, EntriesOK
<1>3. 0 \notin Live(entries, F)
  BY DEF Live
<1> HIDE DEF F
<1>4. QED
  BY <1>1, <1>2, <1>3 DEF FindMutable, Has, F

\* A cluster that is found or created.
LEMMA FindOrCreateOK ==
  ASSUME NEW F, TableOK(hashtable_, free_, clusters, entries, F), NEW key \in Keys
  PROVE  LET found == FindOrCreateCluster(key)
         IN /\ TableOK(found.table, free_, found.clusters, entries, F)
            /\ found.c \in 1..Len(found.clusters)
            /\ found.clusters[found.c].id = ClusterID(key)
<1>1. HashInt(ClusterID(key)) \in Hashes
  BY KeyPlace
<1>2. \/ /\ FindCluster(key) = 0
         /\ \A d \in 1..Len(clusters) : clusters[d].id # ClusterID(key)
      \/ FindCluster(key) \in 1..Len(clusters) /\ clusters[FindCluster(key)].id = ClusterID(key)
  BY <1>1, FindClusterIs DEF TableOK
<1>3. CASE FindCluster(key) # 0
  <2>1. /\ FindOrCreateCluster(key).c = FindCluster(key)
        /\ FindOrCreateCluster(key).table = hashtable_
        /\ FindOrCreateCluster(key).clusters = clusters
    BY <1>3 DEF FindOrCreateCluster
  <2>2. QED
    BY <1>2, <1>3, <2>1
<1>4. CASE FindCluster(key) = 0
  <2> DEFINE h == HashInt(ClusterID(key))
             n == Len(clusters)
             new == [next |-> hashtable_[h], id |-> ClusterID(key),
                     blocks |-> [b \in BlockIDs |-> 0]]
  <2>1. /\ FindOrCreateCluster(key).c = n + 1
        /\ FindOrCreateCluster(key).table = [hashtable_ EXCEPT ![h] = n + 1]
        /\ FindOrCreateCluster(key).clusters = Append(clusters, new)
    BY <1>4 DEF FindOrCreateCluster
  <2>2. clusters \in Seq(Cluster) /\ n \in Nat
    BY TableTypes
  <2>3. \A d \in 1..Len(clusters) : clusters[d].id # ClusterID(key)
    <3>1. 0 \notin 1..Len(clusters)
      BY <2>2
    <3>2. QED
      BY <1>2, <1>4, <3>1
  <2>4. TableOK([hashtable_ EXCEPT ![h] = n + 1], free_, Append(clusters, new), entries, F)
    BY <2>3, AddCluster
  <2>5. new.id = ClusterID(key)
    OBVIOUS
  <2> HIDE DEF new
  <2>6. Len(Append(clusters, new)) = n + 1 /\ Append(clusters, new)[n + 1] = new
    BY <2>2
  <2>7. n + 1 \in 1..(n + 1)
    BY <2>2
  <2>8. QED
    BY <2>1, <2>4, <2>5, <2>6, <2>7
<1>5. QED
  BY <1>3, <1>4

LEMMA BatchType ==
  ASSUME Len(entries) \in Nat
  PROVE  IsBatch(Batch, Len(entries))
<1>1. ALLOC_COUNT \in Nat
  BY ConstantTypes
<1>2. \A i \in 1..ALLOC_COUNT : Batch[i] \in Entry
  BY <1>1 DEF Batch, Entry
<1>3. Batch = [i \in 1..ALLOC_COUNT |-> Batch[i]]
  BY DEF Batch
<1>4. Batch \in Seq(Entry) /\ Len(Batch) = ALLOC_COUNT
  BY <1>1, <1>2, <1>3
<1>5. QED
  BY <1>4 DEF Batch, IsBatch

\* A step of an operation keeps the invariant, and changes what the map has of
\* its own key only.
Changes(key, Becomes) ==
  \A k \in Keys : \A v :
    Has(entries', free_', k, v) <=> IF k = key THEN v \in Becomes ELSE Has(entries, free_, k, v)

LEMMA CreateEntryStep ==
  ASSUME TableInv, NEW key \in Keys, NEW value \in Values, CreateEntry(key, value),
         \A e \in Live(entries, FreeOf(entries, free_)) : entries[e].key # key
  PROVE  TableInv' /\ Changes(key, {value})
<1> DEFINE F == FreeOf(entries, free_)
           found == FindOrCreateCluster(key)
           c == found.c
           b == BlockID(key)
           pool == IF free_ = 0 THEN entries \o Batch ELSE entries
           e == IF free_ = 0 THEN Len(entries) + 1 ELSE free_
           G == IF free_ = 0 THEN InBatch(Len(entries)) ELSE F
           new == FilledEntry(key, value, found.clusters[c].blocks[b])
           after == WithEntry(pool, e, new)
<1>1. /\ TableOK(found.table, free_, found.clusters, entries, F)
      /\ c \in 1..Len(found.clusters) /\ found.clusters[c].id = ClusterID(key)
  BY FindOrCreateOK DEF TableInv
<1>2. /\ hashtable_' = found.table
      /\ clusters' = WithBlock(found.clusters, c, b, e)
      /\ entries' = after
      /\ free_' = pool[e].next
  BY DEF CreateEntry, WithBlock, WithEntry, FilledEntry
<1> HIDE DEF found
<1>3. /\ TableOK(found.table, e, found.clusters, pool, G) /\ e # 0
      /\ Live(pool, G) = Live(entries, F) /\ \A d \in Live(entries, F) : pool[d] = entries[d]
  <2>1. CASE free_ = 0
    <3>1. Len(entries) \in Nat /\ entries \in Seq(Entry) /\ F = {}
      BY <1>1, <2>1, TableTypes, ListMembers DEF TableOK
    <3>2. TableOK(found.table, 0, found.clusters, entries, F)
      BY <1>1, <2>1
    <3>3. IsBatch(Batch, Len(entries))
      BY <3>1, BatchType
    <3> HIDE DEF F
    <3>4. TableOK(found.table, Len(entries) + 1, found.clusters, entries \o Batch,
                  InBatch(Len(entries)))
      BY <3>2, <3>3, AddBatch, Zenon
    <3>5. /\ Live(entries \o Batch, InBatch(Len(entries))) = Live(entries, F)
          /\ \A d \in Live(entries, F) : (entries \o Batch)[d] = entries[d]
      BY <3>1, <3>3, BatchLive
    <3>6. pool = entries \o Batch /\ e = Len(entries) + 1 /\ G = InBatch(Len(entries))
      BY <2>1
    <3>7. Len(entries) + 1 # 0
      BY <3>1
    <3> HIDE DEF pool, e, G
    <3>8. QED
      BY <3>4, <3>5, <3>6, <3>7
  <2>2. CASE free_ # 0
    BY <1>1, <2>2
  <2>3. QED
    BY <2>1, <2>2
<1> HIDE DEF pool, e, G
<1>4. Absent(pool, G, key)
  BY <1>3 DEF Absent
<1> HIDE DEF F
<1>5. TableOK(found.table, pool[e].next, WithBlock(found.clusters, c, b, e), after, G \ {e})
  <2>1. c \in 1..Len(found.clusters) /\ found.clusters[c].id = ClusterID(key)
    BY <1>1
  <2>2. TableOK(found.table, e, found.clusters, pool, G) /\ e # 0
    BY <1>3
  <2> HIDE DEF c
  <2>3. QED
    BY <1>4, <2>1, <2>2, PushEntry, Zenon
<1>6. new \in Entry /\ new.key = key /\ new.value = value
  <2>1. found.clusters[c] \in Cluster /\ b \in BlockIDs
    BY <1>1, KeyPlace, TableTypes
  <2>2. found.clusters[c].blocks[b] \in Nat
    BY <2>1 DEF Cluster
  <2>3. QED
    BY <2>2 DEF Entry, FilledEntry
<1>7. pool \in Seq(Entry) /\ G \in SUBSET (1..Len(pool)) /\ e \in G
  BY <1>3, TableTypes, ListMembers DEF TableOK
<1> HIDE DEF new
<1>8. /\ Live(after, G \ {e}) = Live(pool, G) \cup {e}
      /\ e \notin Live(pool, G)
      /\ after[e].key = key /\ after[e].value = value
      /\ \A d \in Live(pool, G) : after[d] = pool[d]
  <2>1. /\ Len(after) = Len(pool) /\ after[e] = new
        /\ \A d \in 1..Len(pool) : d # e => after[d] = pool[d]
    BY <1>7 DEF WithEntry
  <2> HIDE DEF after
  <2>2. Live(after, G \ {e}) = Live(pool, G) \cup {e} /\ e \notin Live(pool, G)
    BY <1>7, <2>1 DEF Live
  <2>3. \A d \in Live(pool, G) : after[d] = pool[d]
    BY <1>7, <2>1 DEF Live
  <2>4. QED
    BY <1>6, <2>1, <2>2, <2>3
<1> HIDE DEF after
<1>9. G \ {e} = FreeOf(entries', free_')
  BY <1>2, <1>5, FreeIs
<1>10. TableInv'
  BY <1>2, <1>5, <1>9 DEF TableInv
<1>11. ASSUME NEW k \in Keys, NEW v
       PROVE  Has(entries', free_', k, v) <=>
                IF k = key THEN v \in {value} ELSE Has(entries, free_, k, v)
  <2>1. Live(entries', FreeOf(entries', free_')) = Live(entries, F) \cup {e}
    BY <1>2, <1>3, <1>8, <1>9
  <2>2. /\ entries'[e].key = key /\ entries'[e].value = value
        /\ \A d \in Live(entries, F) : entries'[d] = entries[d] /\ entries[d].key # key
    BY <1>2, <1>3, <1>8 DEF F
  <2>3. QED
    BY <2>1, <2>2 DEF Has, F
<1>12. QED
  BY <1>10, <1>11 DEF Changes

LEMMA InsertStep ==
  ASSUME TableInv, NEW key \in Keys, NEW value \in Values, Insert(key, value)
  PROVE  TableInv' /\ Changes(key, {value})
<1> DEFINE F == FreeOf(entries, free_)
           e == FindEntry(key)
<1>1. CASE e = 0
  <2>1. CreateEntry(key, value)
    BY <1>1 DEF Insert
  <2>2. \A d \in Live(entries, F) : entries[d].key # key
    BY <1>1, FindEntryIs DEF TableInv, Live
  <2>3. QED
    BY <2>1, <2>2, CreateEntryStep
<1>2. CASE e # 0
  <2>1. e \in Live(entries, F) /\ entries[e].key = key
    BY <1>2, FindMutableHas
  <2>2. /\ entries' = WithValue(entries, e, value)
        /\ hashtable_' = hashtable_ /\ free_' = free_ /\ clusters' = clusters
    BY <1>2 DEF Insert, WithValue
  <2> HIDE DEF e, F
  <2>3. /\ TableOK(hashtable_, free_, clusters, entries', F)
        /\ Live(entries', F) = Live(entries, F)
        /\ \A d \in Live(entries, F) :
              /\ entries'[d].key = entries[d].key
              /\ entries'[d].value = IF d = e THEN value ELSE entries[d].value
    BY <2>1, <2>2, SetValue DEF TableInv, F
  <2>4. F = FreeOf(entries', free_')
    BY <2>2, <2>3, FreeIs
  <2>5. TableInv'
    BY <2>2, <2>3, <2>4 DEF TableInv
  <2>6. \A d \in Live(entries, F) : entries[d].key = key => d = e
    BY <2>1 DEF TableInv, TableOK, EntriesOK, F
  <2>7. ASSUME NEW k \in Keys, NEW v
        PROVE  Has(entries', free_', k, v) <=>
                 IF k = key THEN v \in {value} ELSE Has(entries, free_, k, v)
    BY <2>1, <2>3, <2>4, <2>6 DEF Has, F
  <2>8. QED
    BY <2>5, <2>7 DEF Changes
<1>3. QED
  BY <1>1, <1>2

\* The pointer that is changed is the one that points to the entry.
LEMMA UnlinkStep ==
  ASSUME NEW F, TableOK(hashtable_, free_, clusters, entries, F), NEW key \in Keys,
         NEW e \in Live(entries, F), entries[e].key = key, e # 0, Unlink(key, e)
  PROVE  /\ TableOK(hashtable_, e, clusters', entries', F \cup {e})
         /\ Frees(entries, F, entries', e)
<1> DEFINE c == FindCluster(key)
           b == BlockID(key)
           S == InBlock(entries, F, clusters[c].id, b)
           before == First(entries, BlockHead(key), {x \in DOMAIN entries : entries[x].next = e})
<1>1. HashInt(ClusterID(key)) \in Hashes /\ b \in BlockIDs
  BY KeyPlace
<1>2. c \in 1..Len(clusters) /\ clusters[c].id = ClusterID(key) /\ c # 0
  <2>1. \E d \in 1..Len(clusters) : clusters[d].id = ClusterID(key)
    BY DEF TableOK, EntriesOK
  <2>2. 0 \notin 1..Len(clusters)
    BY TableTypes
  <2>3. QED
    BY <1>1, <2>1, <2>2, FindClusterIs DEF TableOK
<1>3. BlockHead(key) = clusters[c].blocks[b]
  BY <1>2 DEF BlockHead
<1>4. e \in S
  BY <1>2 DEF InBlock
<1>5. IsListOf(entries, BlockHead(key), S)
  BY <1>1, <1>2, <1>3 DEF TableOK, EntriesOK
<1> HIDE DEF c, b, S
<1>6. CASE BlockHead(key) = e
  <2>1. /\ clusters' = WithBlock(clusters, c, b, entries[e].next)
        /\ entries' = WithNext(entries, e, free_)
    BY <1>6 DEF Unlink, WithBlock, WithNext, c, b
  <2>2. e \in InBlock(entries, F, clusters[c].id, b)
    BY <1>4 DEF S
  <2>3. clusters[c].blocks[b] = e
    BY <1>3, <1>6
  <2>4. TableOK(hashtable_, e, WithBlock(clusters, c, b, entries[e].next),
                WithNext(entries, e, free_), F \cup {e})
    BY <1>1, <1>2, <2>2, <2>3, UnlinkHead, Zenon
  <2>5. Frees(entries, F, WithNext(entries, e, free_), e)
    BY <1>1, <1>2, <2>2, <2>3, UnlinkHead, Zenon
  <2>6. QED
    BY <2>1, <2>4, <2>5
<1>7. CASE BlockHead(key) # e
  <2>1. /\ clusters' = clusters
        /\ entries' = WithNext(WithNext(entries, before, entries[e].next), e, free_)
    BY <1>7 DEF Unlink, WithNext
  <2>2. Len(entries) \in Nat /\ DOMAIN entries = 1..Len(entries) /\ S \subseteq DOMAIN entries
    BY TableTypes DEF S, InBlock, Live
  <2>3. \E p \in S : entries[p].next = e
    BY <1>4, <1>5, <1>7, <2>2, ListBefore
  <2>4. before \in S /\ PointsTo(entries, before, e)
    <3> DEFINE T == {x \in DOMAIN entries : entries[x].next = e}
    <3>1. S \cap T # {}
      BY <2>2, <2>3
    <3>2. \A x : x \in T => entries[x].next = e
      OBVIOUS
    <3> HIDE DEF T
    <3>3. First(entries, BlockHead(key), T) \in S /\ First(entries, BlockHead(key), T) \in T
      BY <1>5, <2>2, <3>1, FirstIs
    <3>4. QED
      BY <3>2, <3>3 DEF PointsTo, T
  <2> HIDE DEF before
  <2>5. /\ before \in InBlock(entries, F, clusters[c].id, b)
        /\ e \in InBlock(entries, F, clusters[c].id, b)
    BY <1>4, <2>4 DEF S
  <2>6. TableOK(hashtable_, e, clusters,
                WithNext(WithNext(entries, before, entries[e].next), e, free_), F \cup {e})
    BY <1>1, <1>2, <2>4, <2>5, UnlinkInside, Zenon
  <2>7. Frees(entries, F, WithNext(WithNext(entries, before, entries[e].next), e, free_), e)
    BY <1>1, <1>2, <2>4, <2>5, UnlinkInside, Zenon
  <2>8. QED
    BY <2>1, <2>6, <2>7
<1>8. QED
  BY <1>6, <1>7

LEMMA FindAndRemoveStep ==
  ASSUME TableInv, NEW key \in Keys, FindAndRemove(key)
  PROVE  TableInv' /\ Changes(key, {})
<1> DEFINE F == FreeOf(entries, free_)
           e == FindEntry(key)
<1>1. CASE e = 0
  <2>1. entries' = entries /\ free_' = free_ /\ clusters' = clusters /\ hashtable_' = hashtable_
    BY <1>1 DEF FindAndRemove
  <2>2. \A d \in Live(entries, F) : entries[d].key # key
    BY <1>1, FindEntryIs DEF TableInv, Live
  <2>3. TableInv'
    BY <2>1 DEF TableInv
  <2> HIDE DEF e, F
  <2>4. ASSUME NEW k \in Keys, NEW v
        PROVE  Has(entries', free_', k, v) <=> IF k = key THEN v \in {} ELSE Has(entries, free_, k, v)
    BY <2>1, <2>2 DEF Has, F
  <2>5. QED
    BY <2>3, <2>4 DEF Changes
<1>2. CASE e # 0
  <2>1. e \in Live(entries, F) /\ entries[e].key = key
    BY <1>2, FindEntryIs DEF TableInv
  <2>2. Unlink(key, e) /\ free_' = e /\ hashtable_' = hashtable_
    BY <1>2 DEF FindAndRemove
  <2>3. \A d \in Live(entries, F) : entries[d].key = key => d = e
    BY <2>1 DEF TableInv, TableOK, EntriesOK
  <2>4. TableOK(hashtable_, free_, clusters, entries, F)
    BY DEF TableInv
  <2> HIDE DEF e, F
  <2>5. TableOK(hashtable_', free_', clusters', entries', F \cup {e})
    BY <1>2, <2>1, <2>2, <2>4, UnlinkStep
  <2>6. Frees(entries, F, entries', e)
    BY <1>2, <2>1, <2>2, <2>4, UnlinkStep
  <2>7. F \cup {e} = FreeOf(entries', free_')
    BY <2>5, FreeIs
  <2>8. TableInv'
    BY <2>5, <2>7 DEF TableInv
  <2>9. Live(entries', FreeOf(entries', free_')) = Live(entries, F) \ {e}
    BY <2>6, <2>7 DEF Frees
  <2>10. ASSUME NEW k \in Keys, NEW v
         PROVE  Has(entries', free_', k, v) <=>
                  IF k = key THEN v \in {} ELSE Has(entries, free_, k, v)
    BY <2>1, <2>3, <2>6, <2>9 DEF Has, Frees, F
  <2>11. QED
    BY <2>8, <2>10 DEF Changes
<1>3. QED
  BY <1>1, <1>2

LEMMA ResetStep ==
  ASSUME Reset
  PROVE  TableInv' /\ \A k, v : ~Has(entries', free_', k, v)
<1>1. /\ hashtable_' = [h \in Hashes |-> 0] /\ free_' = 0
      /\ clusters' = <<>> /\ entries' = <<>>
  BY DEF Reset, Hashes
<1>2. TableOK(hashtable_', free_', clusters', entries', {})
  BY <1>1, TableEmpty
<1>3. {} = FreeOf(entries', free_')
  BY <1>2, FreeIs
<1>4. Live(entries', {}) = {}
  BY <1>1 DEF Live
<1>5. QED
  BY <1>2, <1>3, <1>4 DEF TableInv, Has

LEMMA InitOK == Init => TableInv /\ \A k, v : ~Has(entries, free_, k, v)
<1>1. SUFFICES ASSUME Init PROVE TableInv /\ \A k, v : ~Has(entries, free_, k, v)
  OBVIOUS
<1>2. /\ hashtable_ = [h \in Hashes |-> 0] /\ free_ = 0
      /\ clusters = <<>> /\ entries = <<>>
  BY <1>1 DEF Init, Hashes
<1>3. TableOK(hashtable_, free_, clusters, entries, {})
  BY <1>2, TableEmpty
<1>4. {} = FreeOf(entries, free_)
  BY <1>3, FreeIs
<1>5. Live(entries, {}) = {}
  BY <1>2 DEF Live
<1>6. QED
  BY <1>3, <1>4, <1>5 DEF TableInv, Has

LEMMA NextKeeps == TableInv /\ [Next]_vars => TableInv'
<1>1. SUFFICES ASSUME TableInv, [Next]_vars PROVE TableInv'
  OBVIOUS
<1>2. ASSUME NEW key \in Keys, FindAndRemove(key) PROVE TableInv'
  BY <1>1, <1>2, FindAndRemoveStep
<1>3. ASSUME NEW key \in Keys, NEW value \in Values, Insert(key, value) PROVE TableInv'
  BY <1>1, <1>3, InsertStep
<1>4. CASE Reset
  BY <1>4, ResetStep
<1>5. CASE UNCHANGED vars
  BY <1>1, <1>5 DEF vars, TableInv
<1>6. QED
  BY <1>1, <1>2, <1>3, <1>4, <1>5 DEF Next

LEMMA TableKept == Spec => []TableInv
<1>1. Init => TableInv
  BY InitOK
<1>2. QED
  BY <1>1, NextKeeps, PTL DEF Spec

\* The pointers the invariant speaks of are those of every object.
LEMMA PointersRight ==
  ASSUME TableInv
  PROVE  /\ \A c \in 1..Len(clusters) :
              /\ clusters[c].next \in Pointer(clusters)
              /\ \A b \in BlockIDs : clusters[c].blocks[b] \in Pointer(entries)
         /\ \A e \in 1..Len(entries) : entries[e].next \in Pointer(entries)
<1> DEFINE F == FreeOf(entries, free_)
<1>1. /\ TableOK(hashtable_, free_, clusters, entries, F)
      /\ Len(entries) \in Nat /\ Len(clusters) \in Nat
  BY TableTypes DEF TableInv
<1>2. ASSUME NEW c \in 1..Len(clusters) PROVE clusters[c].next \in Pointer(clusters)
  <2> DEFINE h == HashInt(clusters[c].id)
  <2>1. h \in Hashes /\ c \in Chained(clusters, h)
    BY <1>1 DEF TableOK, ClustersOK, Chained
  <2> HIDE DEF h
  <2>2. IsListOf(clusters, hashtable_[h], Chained(clusters, h))
    BY <1>1, <2>1 DEF TableOK, ClustersOK
  <2>3. QED
    BY <1>1, <2>1, <2>2, ListNext
<1>3. ASSUME NEW c \in 1..Len(clusters), NEW b \in BlockIDs
      PROVE  IsListOf(entries, clusters[c].blocks[b], InBlock(entries, F, clusters[c].id, b))
  BY <1>1 DEF TableOK, EntriesOK
<1>4. ASSUME NEW c \in 1..Len(clusters), NEW b \in BlockIDs
      PROVE  clusters[c].blocks[b] \in Pointer(entries)
  BY <1>1, <1>3, ListMembers
<1>5. ASSUME NEW e \in 1..Len(entries) PROVE entries[e].next \in Pointer(entries)
  <2>1. CASE e \in F
    BY <1>1, <2>1, ListNext DEF TableOK
  <2>2. CASE e \notin F
    <3>1. e \in Live(entries, F)
      BY <2>2 DEF Live
    <3>2. PICK c \in 1..Len(clusters) : clusters[c].id = ClusterID(entries[e].key)
      BY <1>1, <3>1 DEF TableOK, EntriesOK
    <3> DEFINE b == BlockID(entries[e].key)
    <3>3. entries[e].key \in Keys
      BY <1>1, <3>1 DEF TableOK, EntriesOK
    <3>4. b \in BlockIDs /\ e \in InBlock(entries, F, clusters[c].id, b)
      BY <3>1, <3>2, <3>3, KeyPlace DEF InBlock
    <3> HIDE DEF b
    <3>5. QED
      BY <1>1, <1>3, <3>2, <3>4, ListNext
  <2>3. QED
    BY <2>1, <2>2
<1>6. QED
  BY <1>2, <1>4, <1>5

LEMMA TypesRight ==
  ASSUME TableInv, ret \in Values \cup {NoValue}
  PROVE  TypeOK
<1>1. /\ hashtable_ \in [Hashes -> Nat] /\ \A h \in Hashes : hashtable_[h] \in Pointer(clusters)
      /\ free_ \in Pointer(entries)
      /\ clusters \in Seq(Cluster) /\ \A c \in 1..Len(clusters) : clusters[c] \in Cluster
      /\ entries \in Seq(Entry) /\ \A e \in 1..Len(entries) : entries[e] \in Entry
  BY TableTypes DEF TableInv
<1>2. hashtable_ \in [0..HashSize-1 -> Pointer(clusters)]
  BY <1>1 DEF Hashes
<1>3. ASSUME NEW c \in 1..Len(clusters)
      PROVE  clusters[c] \in
               [next : Pointer(clusters), id : Nat, blocks : [BlockIDs -> Pointer(entries)]]
  <2>1. clusters[c] \in [next : Nat, id : Nat, blocks : [BlockIDs -> Nat]]
    BY <1>1 DEF Cluster
  <2>2. clusters[c].blocks \in [BlockIDs -> Pointer(entries)]
    BY <2>1, PointersRight
  <2>3. clusters[c].next \in Pointer(clusters)
    BY PointersRight
  <2>4. QED
    BY <2>1, <2>2, <2>3
<1>4. ASSUME NEW e \in 1..Len(entries)
      PROVE  entries[e] \in
               [next : Pointer(entries), key : Keys \cup {0}, value : Values \cup {NoValue}]
  BY <1>1, PointersRight DEF Entry
<1>5. ASSUME NEW S, NEW T, NEW s \in Seq(S), \A i \in 1..Len(s) : s[i] \in T
      PROVE  s \in Seq(T)
  BY <1>5
<1>6. clusters \in
        Seq([next : Pointer(clusters), id : Nat, blocks : [BlockIDs -> Pointer(entries)]])
  BY <1>1, <1>3, <1>5
<1>7. entries \in
        Seq([next : Pointer(entries), key : Keys \cup {0}, value : Values \cup {NoValue}])
  BY <1>1, <1>4, <1>5
<1>8. QED
  BY <1>1, <1>2, <1>6, <1>7 DEF TypeOK

\* Every pointer of the table is nullptr or points to an object of its kind that
\* New allocated and Reset has not freed (addressmap.h:262-305).
THEOREM TableTyped == Spec => []TypeOK
<1>1. Init => ret \in Values \cup {NoValue}
  BY DEF Init
<1>2. TableInv /\ ret \in Values \cup {NoValue} /\ [Next]_vars => (ret \in Values \cup {NoValue})'
  <2>1. SUFFICES ASSUME TableInv, ret \in Values \cup {NoValue}, [Next]_vars
                 PROVE  ret' \in Values \cup {NoValue}
    OBVIOUS
  <2>2. ASSUME NEW key \in Keys, FindAndRemove(key) PROVE ret' \in Values \cup {NoValue}
    BY <2>1, <2>2, FindMutableHas DEF FindAndRemove
  <2>3. ASSUME NEW key \in Keys, NEW value \in Values, Insert(key, value)
        PROVE  ret' \in Values \cup {NoValue}
    BY <2>3 DEF Insert
  <2>4. CASE Reset
    BY <2>4 DEF Reset
  <2>5. CASE UNCHANGED vars
    BY <2>1, <2>5 DEF vars
  <2>6. QED
    BY <2>1, <2>2, <2>3, <2>4, <2>5 DEF Next
<1>3. TableInv /\ ret \in Values \cup {NoValue} => TypeOK
  BY TypesRight
<1>4. QED
  BY <1>1, <1>2, <1>3, TableKept, PTL DEF Spec

-----------------------------------------------------------------------------
\* The refinement.  Find, read at every key, changes at the key of the call.

\* What the map says of a key, on both sides of a step.
FindsWhatItHas ==
  \A k \in Keys :
    \/ FindMutable(k) = NoValue /\ \A v : ~Has(entries, free_, k, v)
    \/ FindMutable(k) \in Values /\ \A v : Has(entries, free_, k, v) <=> v = FindMutable(k)

LEMMA FindsRight == TableInv => FindsWhatItHas
  BY FindMutableHas DEF FindsWhatItHas

\* The map that Find reads; its primed form is that of the next state.
Reads == [k \in Keys |-> FindMutable(k)]

LEMMA ChangesRead ==
  ASSUME FindsWhatItHas, FindsWhatItHas', NEW key \in Keys,
         NEW Becomes, NEW result, Changes(key, Becomes),
         \/ Becomes = {} /\ result = NoValue
         \/ result \in Values /\ Becomes = {result}
  PROVE  Reads' = [Reads EXCEPT ![key] = result]
<1>1. ASSUME NEW k \in Keys PROVE FindMutable(k)' = IF k = key THEN result ELSE FindMutable(k)
  <2>1. \/ FindMutable(k)' = NoValue /\ \A v : ~Has(entries', free_', k, v)
        \/ /\ FindMutable(k)' \in Values
           /\ \A v : Has(entries', free_', k, v) <=> v = FindMutable(k)'
    BY DEF FindsWhatItHas
  <2>2. \/ FindMutable(k) = NoValue /\ \A v : ~Has(entries, free_, k, v)
        \/ /\ FindMutable(k) \in Values
           /\ \A v : Has(entries, free_, k, v) <=> v = FindMutable(k)
    BY DEF FindsWhatItHas
  <2>3. \A v : Has(entries', free_', k, v) <=>
                 IF k = key THEN v \in Becomes ELSE Has(entries, free_, k, v)
    BY DEF Changes
  <2>4. CASE k = key
    BY <2>1, <2>3, <2>4
  <2>5. CASE k # key
    BY <2>1, <2>2, <2>3, <2>5
  <2>6. QED
    BY <2>4, <2>5
<1>2. QED
  BY <1>1 DEF Reads

(***************************************************************************)
(* The chained, blocked table is a partial function, for any keys, block   *)
(* and cluster sizes, hash function and batch size (addressmap.h:117-128): *)
(* each call returns and changes what the map of PartialMap does.          *)
(***************************************************************************)
THEOREM TableImplementsMap == Spec => ImplementsMap
<1>1. Init => Map!MInit
  <2>1. SUFFICES ASSUME Init PROVE Map!MInit
    OBVIOUS
  <2>2. FindsWhatItHas /\ \A k, v : ~Has(entries, free_, k, v)
    BY <2>1, InitOK, FindsRight
  <2>3. \A k \in Keys : FindMutable(k) = NoValue
    BY <2>2 DEF FindsWhatItHas
  <2>4. ret = NoValue
    BY <2>1 DEF Init
  <2>5. QED
    BY <2>3, <2>4 DEF Map!MInit
<1>2. TableInv /\ FindsWhatItHas /\ FindsWhatItHas' /\ [Next]_vars => [Map!MNext]_(Map!mvars)
  <2>1. SUFFICES ASSUME TableInv, FindsWhatItHas, FindsWhatItHas', [Next]_vars
                 PROVE  Map!MNext \/ UNCHANGED Map!mvars
    OBVIOUS
  <2>2. ASSUME NEW key \in Keys, FindAndRemove(key) PROVE Map!MFindAndRemove(key)
    <3>1. Changes(key, {})
      BY <2>1, <2>2, FindAndRemoveStep
    <3>2. Reads' = [Reads EXCEPT ![key] = NoValue]
      BY <2>1, <3>1, ChangesRead
    <3>3. ret' = Reads[key]
      BY <2>2 DEF FindAndRemove, Reads
    <3>4. QED
      BY <3>2, <3>3 DEF Map!MFindAndRemove, Reads
  <2>3. ASSUME NEW key \in Keys, NEW value \in Values, Insert(key, value)
        PROVE  Map!MInsert(key, value)
    <3>1. Changes(key, {value})
      BY <2>1, <2>3, InsertStep
    <3>2. Reads' = [Reads EXCEPT ![key] = value]
      BY <2>1, <3>1, ChangesRead
    <3>3. ret' = NoValue
      BY <2>3 DEF Insert
    <3>4. QED
      BY <3>2, <3>3 DEF Map!MInsert, Reads
  <2>4. CASE Reset
    <3>1. \A k, v : ~Has(entries', free_', k, v)
      BY <2>4, ResetStep
    <3>2. \A k \in Keys : FindMutable(k)' = NoValue
      BY <2>1, <3>1 DEF FindsWhatItHas
    <3>3. ret' = NoValue
      BY <2>4 DEF Reset
    <3>4. Map!MReset
      BY <3>2, <3>3 DEF Map!MReset
    <3>5. QED
      BY <3>4 DEF Map!MNext
  <2>5. CASE UNCHANGED vars
    <3>1. ret' = ret /\ entries' = entries /\ clusters' = clusters /\ hashtable_' = hashtable_
      BY <2>5 DEF vars
    <3>2. \A k \in Keys : FindMutable(k)' = FindMutable(k)
      BY <3>1 DEF FindMutable, FindEntry, BlockHead, FindCluster
    <3>3. UNCHANGED Map!mvars
      BY <3>1, <3>2 DEF Map!mvars
    <3>4. QED
      BY <3>3
  <2>6. QED
    BY <2>1, <2>2, <2>3, <2>4, <2>5 DEF Next, Map!MNext
<1>3. TableInv => FindsWhatItHas
  BY FindsRight
<1>4. QED
  BY <1>1, <1>2, <1>3, TableKept, PTL DEF Spec, ImplementsMap, Map!MSpec

-----------------------------------------------------------------------------
\* Sequences that have each member of a set once, and nothing else.

Visits(s, S) ==
  /\ s \in Seq(Nat)
  /\ \A x : Contains(s, x) <=> x \in S
  /\ \A i, j \in 1..Len(s) : s[i] = s[j] => i = j

LEMMA VisitsNone == Visits(<<>>, {})
  BY DEF Visits, Contains

LEMMA ConcatVisits ==
  ASSUME NEW s, NEW S, Visits(s, S), NEW t, NEW T, Visits(t, T), S \cap T = {}
  PROVE  Visits(s \o t, S \cup T)
<1> DEFINE u == s \o t
           m == Len(s)
<1>1. s \in Seq(Nat) /\ t \in Seq(Nat) /\ m \in Nat /\ Len(t) \in Nat
  BY DEF Visits
<1>2. /\ u \in Seq(Nat) /\ Len(u) = m + Len(t)
      /\ \A i \in 1..m : u[i] = s[i]
      /\ \A i \in 1..Len(t) : u[m + i] = t[i]
  BY <1>1
<1> HIDE DEF u
<1>3. \A i \in 1..Len(u) : i \in 1..m \/ (i - m \in 1..Len(t) /\ m + (i - m) = i)
  BY <1>1, <1>2
<1>4. \A i \in 1..m : i \in 1..Len(u) /\ s[i] \in S
  BY <1>1, <1>2 DEF Visits, Contains, m
<1>5. \A i \in 1..Len(t) : m + i \in 1..Len(u) /\ t[i] \in T
  BY <1>1, <1>2 DEF Visits, Contains
<1> HIDE DEF m
<1>6. ASSUME NEW x PROVE Contains(u, x) <=> x \in S \cup T
  <2>1. ASSUME NEW i \in 1..Len(u), u[i] = x PROVE x \in S \cup T
    BY <1>2, <1>3, <1>4, <1>5, <2>1
  <2>2. ASSUME x \in S PROVE Contains(u, x)
    <3>1. PICK i \in 1..m : s[i] = x
      BY <2>2 DEF Visits, Contains, m
    <3>2. QED
      BY <1>2, <1>4, <3>1 DEF Contains
  <2>3. ASSUME x \in T PROVE Contains(u, x)
    <3>1. PICK i \in 1..Len(t) : t[i] = x
      BY <2>3 DEF Visits, Contains
    <3>2. QED
      BY <1>2, <1>5, <3>1 DEF Contains
  <2>4. QED
    BY <2>1, <2>2, <2>3 DEF Contains
<1>7. ASSUME NEW i \in 1..Len(u), NEW j \in 1..Len(u), u[i] = u[j] PROVE i = j
  <2>1. CASE i \in 1..m /\ j \in 1..m
    BY <1>2, <1>7, <2>1 DEF Visits, m
  <2>2. CASE i \notin 1..m /\ j \notin 1..m
    <3>1. i - m \in 1..Len(t) /\ j - m \in 1..Len(t) /\ t[i - m] = t[j - m]
      BY <1>2, <1>3, <1>7, <2>2
    <3>2. i - m = j - m
      BY <3>1 DEF Visits
    <3>3. QED
      BY <1>1, <3>2 DEF m
  <2>3. CASE i \in 1..m /\ j \notin 1..m
    BY <1>2, <1>3, <1>4, <1>5, <1>7, <2>3
  <2>4. CASE i \notin 1..m /\ j \in 1..m
    BY <1>2, <1>3, <1>4, <1>5, <1>7, <2>4
  <2>5. QED
    BY <2>1, <2>2, <2>3, <2>4
<1>8. QED
  BY <1>2, <1>6, <1>7 DEF Visits, u

\* Sequence i of the n visits part i, and the parts are disjoint.
VisitParts(seqs, part, n) ==
  /\ seqs \in Seq(Seq(Nat)) /\ Len(seqs) = n
  /\ \A i \in 1..n : Visits(seqs[i], part[i])
  /\ \A i, j \in 1..n : i # j => part[i] \cap part[j] = {}

Parts(part, n) == UNION {part[i] : i \in 1..n}

LEMMA FlattenVisits ==
  ASSUME NEW n \in Nat, NEW seqs, NEW part, VisitParts(seqs, part, n)
  PROVE  Visits(FlattenSeq(seqs), Parts(part, n))
<1>1. /\ seqs \in Seq(Seq(Nat)) /\ Len(seqs) = n
      /\ \A i \in 1..n : Visits(seqs[i], part[i])
      /\ \A i, j \in 1..n : i # j => part[i] \cap part[j] = {}
  BY DEF VisitParts
<1>2. CASE n = 0
  <2>1. seqs = <<>> /\ FlattenSeq(seqs) = seqs /\ Parts(part, n) = {}
    BY <1>1, <1>2 DEF FlattenSeq, Parts
  <2>2. QED
    BY <2>1, VisitsNone
<1>3. CASE n # 0
  <2> DEFINE flat == CHOOSE flat : IsFlatten(flat, seqs, n)
             T == {k \in Nat : k \in 1..n => Visits(flat[k], Parts(part, k))}
  <2>1. IsFlatten(flat, seqs, n)
    BY FlattenExists
  <2>2. FlattenSeq(seqs) = flat[n]
    BY <1>1, <1>3 DEF FlattenSeq, IsFlatten, FlattenRow
  <2> HIDE DEF flat
  <2>3. \A i \in 1..n : flat[i] = FlattenRow(flat[i - 1], seqs, i)
    BY <2>1 DEF IsFlatten
  <2>4. 0 \in T
    OBVIOUS
  <2>5. ASSUME NEW k \in Nat, k \in T PROVE k + 1 \in T
    <3>1. SUFFICES ASSUME k + 1 \in 1..n
                   PROVE  Visits(flat[k + 1], Parts(part, k + 1))
      OBVIOUS
    <3>2. CASE k = 0
      <4>1. flat[k + 1] = seqs[1] /\ Visits(seqs[1], part[1])
        <5>1. 1 \in 1..n /\ k + 1 = 1
          BY <3>1, <3>2
        <5>2. flat[1] = FlattenRow(flat[1 - 1], seqs, 1)
          BY <2>3, <5>1
        <5>3. QED
          BY <1>1, <5>1, <5>2 DEF FlattenRow
      <4>2. Parts(part, k + 1) = part[1]
        BY <3>2 DEF Parts
      <4>3. QED
        BY <4>1, <4>2
    <3>3. CASE k # 0
      <4> DEFINE S == Parts(part, k)
      <4>1. k \in 1..n /\ k + 1 # 1 /\ (k + 1) - 1 = k
        BY <3>1, <3>3
      <4>2. Visits(flat[k], S)
        BY <2>5, <4>1
      <4>3. flat[k + 1] = flat[k] \o seqs[k + 1]
        BY <2>3, <3>1, <4>1 DEF FlattenRow
      <4>4. Visits(seqs[k + 1], part[k + 1])
        BY <1>1, <3>1
      <4>5. S \cap part[k + 1] = {}
        <5>1. \A i \in 1..k : i \in 1..n /\ i # k + 1
          BY <3>1
        <5>2. \A i \in 1..k : part[i] \cap part[k + 1] = {}
          BY <1>1, <3>1, <5>1
        <5>3. QED
          BY <5>2 DEF Parts
      <4>6. Parts(part, k + 1) = S \cup part[k + 1]
        <5>1. \A i : i \in 1..(k + 1) <=> i \in 1..k \/ i = k + 1
          OBVIOUS
        <5>2. QED
          BY <5>1 DEF Parts
      <4> HIDE DEF S
      <4>7. Visits(flat[k] \o seqs[k + 1], S \cup part[k + 1])
        BY <4>2, <4>4, <4>5, ConcatVisits
      <4>8. QED
        BY <4>3, <4>6, <4>7
    <3>4. QED
      BY <3>2, <3>3
  <2>6. n \in T
    <3> HIDE DEF T
    <3>1. QED
      BY <2>4, <2>5, SetInduction
  <2>7. QED
    BY <1>3, <2>2, <2>6
<1>4. QED
  BY <1>2, <1>3

LEMMA ListVisitsOnce ==
  ASSUME NEW objects, Len(objects) \in Nat, NEW head, NEW S, IsListOf(objects, head, S)
  PROVE  Visits(List(objects, head), S)
<1> DEFINE s == List(objects, head)
<1>1. s \in Seq(1..Len(objects)) /\ IsInjective(s) /\ \A x : Contains(s, x) <=> x \in S
  BY ListVisits
<1> HIDE DEF s
<1>2. s \in Seq(Nat) /\ DOMAIN s = 1..Len(s)
  BY <1>1
<1>3. \A i, j \in 1..Len(s) : s[i] = s[j] => i = j
  BY <1>1, <1>2 DEF IsInjective
<1>4. QED
  BY <1>1, <1>2, <1>3 DEF Visits, s

\* Block by block, cluster by cluster, hash by hash: the parts of the live
\* entries are disjoint, and there are no others.
LEMMA IterateVisits ==
  ASSUME TableInv
  PROVE  Visits(Iterate, Live(entries, FreeOf(entries, free_)))
<1> DEFINE F == FreeOf(entries, free_)
           L == Live(entries, F)
           BlockEntries(c) == FlattenSeq([b \in 1..ClusterBlocks |->
                                List(entries, clusters[c].blocks[b-1])])
           Chain(h) == List(clusters, hashtable_[h])
           ChainEntries(h) == FlattenSeq([n \in 1..Len(Chain(h)) |-> BlockEntries(Chain(h)[n])])
           OfCluster(c) == {e \in L : ClusterID(entries[e].key) = clusters[c].id}
           OfHash(h) == {e \in L : HashInt(ClusterID(entries[e].key)) = h}
<1>1. /\ Len(entries) \in Nat /\ Len(clusters) \in Nat
      /\ ClusterBlocks \in Nat /\ HashSize \in Nat
  BY TableTypes, ConstantTypes DEF TableInv
<1>2. \A e \in L : /\ entries[e].key \in Keys
                   /\ \E c \in 1..Len(clusters) : clusters[c].id = ClusterID(entries[e].key)
  BY DEF TableInv, TableOK, EntriesOK
<1>3. \A e \in L : /\ BlockID(entries[e].key) \in 0..(ClusterBlocks - 1)
                   /\ HashInt(ClusterID(entries[e].key)) \in 0..(HashSize - 1)
  BY <1>2, KeyPlace DEF BlockIDs, Hashes
<1>4. \A c, d \in 1..Len(clusters) : clusters[c].id = clusters[d].id => c = d
  BY DEF TableInv, TableOK, ClustersOK
<1> HIDE DEF L
<1>5. ASSUME NEW c \in 1..Len(clusters) PROVE Visits(BlockEntries(c), OfCluster(c))
  <2> DEFINE seqs == [b \in 1..ClusterBlocks |-> List(entries, clusters[c].blocks[b-1])]
             part == [b \in 1..ClusterBlocks |-> InBlock(entries, F, clusters[c].id, b-1)]
  <2>1. ASSUME NEW b \in 1..ClusterBlocks PROVE Visits(seqs[b], part[b])
    <3>1. b - 1 \in BlockIDs
      BY <1>1 DEF BlockIDs
    <3>2. IsListOf(entries, clusters[c].blocks[b-1], InBlock(entries, F, clusters[c].id, b-1))
      BY <3>1 DEF TableInv, TableOK, EntriesOK
    <3>3. Visits(List(entries, clusters[c].blocks[b-1]), InBlock(entries, F, clusters[c].id, b-1))
      BY <1>1, <3>2, ListVisitsOnce
    <3>4. QED
      BY <3>3
  <2>2. \A i, j \in 1..ClusterBlocks : i # j => part[i] \cap part[j] = {}
    BY DEF InBlock
  <2>3. Parts(part, ClusterBlocks) = OfCluster(c)
    <3>1. \A e \in L : BlockID(entries[e].key) + 1 \in 1..ClusterBlocks
                       /\ (BlockID(entries[e].key) + 1) - 1 = BlockID(entries[e].key)
      BY <1>1, <1>3
    <3>2. \A b \in 1..ClusterBlocks : part[b] = {e \in OfCluster(c) : BlockID(entries[e].key) = b-1}
      BY DEF InBlock, L
    <3> HIDE DEF part
    <3>3. QED
      BY <3>1, <3>2 DEF Parts
  <2>4. seqs \in Seq(Seq(Nat)) /\ Len(seqs) = ClusterBlocks
    <3>1. \A b \in 1..ClusterBlocks : seqs[b] \in Seq(Nat)
      BY <2>1 DEF Visits
    <3>2. seqs = [b \in 1..ClusterBlocks |-> seqs[b]]
      OBVIOUS
    <3> HIDE DEF seqs
    <3>3. QED
      BY <1>1, <3>1, <3>2
  <2>5. BlockEntries(c) = FlattenSeq(seqs)
    OBVIOUS
  <2> HIDE DEF seqs, part, BlockEntries, OfCluster
  <2>6. VisitParts(seqs, part, ClusterBlocks)
    BY <2>1, <2>2, <2>4 DEF VisitParts
  <2>7. QED
    BY <1>1, <2>3, <2>5, <2>6, FlattenVisits
<1> HIDE DEF BlockEntries
<1>6. ASSUME NEW h \in Hashes PROVE Visits(ChainEntries(h), OfHash(h))
  <2> DEFINE chain == Chain(h)
             seqs == [n \in 1..Len(chain) |-> BlockEntries(chain[n])]
             part == [n \in 1..Len(chain) |-> OfCluster(chain[n])]
  <2>1. Visits(chain, Chained(clusters, h))
    <3>1. IsListOf(clusters, hashtable_[h], Chained(clusters, h))
      BY DEF TableInv, TableOK, ClustersOK
    <3>2. QED
      BY <1>1, <3>1, ListVisitsOnce
  <2>2. Len(chain) \in Nat /\ \A n \in 1..Len(chain) : chain[n] \in Chained(clusters, h)
    BY <2>1 DEF Visits, Contains
  <2>3. \A c \in Chained(clusters, h) : c \in 1..Len(clusters) /\ HashInt(clusters[c].id) = h
    BY DEF Chained
  <2>4. ChainEntries(h) = FlattenSeq(seqs)
    OBVIOUS
  <2> HIDE DEF chain, ChainEntries
  <2>5. \A n \in 1..Len(chain) : Visits(seqs[n], part[n])
    BY <1>5, <2>2, <2>3
  <2>6. ASSUME NEW i \in 1..Len(chain), NEW j \in 1..Len(chain), i # j
        PROVE  part[i] \cap part[j] = {}
    <3>1. chain[i] # chain[j]
      BY <2>1, <2>6 DEF Visits
    <3>2. clusters[chain[i]].id # clusters[chain[j]].id
      BY <1>4, <2>2, <2>3, <3>1
    <3>3. QED
      BY <3>2
  <2>7. Parts(part, Len(chain)) = OfHash(h)
    <3>1. ASSUME NEW e \in OfHash(h) PROVE \E n \in 1..Len(chain) : e \in part[n]
      <4>1. PICK c \in 1..Len(clusters) : clusters[c].id = ClusterID(entries[e].key)
        BY <1>2
      <4>2. c \in Chained(clusters, h)
        BY <4>1 DEF Chained
      <4>3. PICK n \in 1..Len(chain) : chain[n] = c
        BY <2>1, <4>2 DEF Visits, Contains
      <4>4. QED
        BY <4>1, <4>3
    <3>2. ASSUME NEW n \in 1..Len(chain), NEW e \in part[n] PROVE e \in OfHash(h)
      BY <2>2, <2>3
    <3> HIDE DEF part, OfHash
    <3>3. QED
      BY <3>1, <3>2 DEF Parts
  <2>8. seqs \in Seq(Seq(Nat)) /\ Len(seqs) = Len(chain)
    <3>1. \A n \in 1..Len(chain) : seqs[n] \in Seq(Nat)
      BY <2>5 DEF Visits
    <3>2. QED
      BY <2>2, <3>1
  <2> HIDE DEF seqs, part, OfHash
  <2>9. VisitParts(seqs, part, Len(chain))
    BY <2>5, <2>6, <2>8 DEF VisitParts
  <2>10. QED
    BY <2>2, <2>4, <2>7, <2>9, FlattenVisits
<1>7. Iterate = FlattenSeq([h \in 1..HashSize |-> ChainEntries(h-1)])
  BY DEF Iterate, BlockEntries
<1> HIDE DEF ChainEntries
<1> DEFINE seqs == [h \in 1..HashSize |-> ChainEntries(h-1)]
           part == [h \in 1..HashSize |-> OfHash(h-1)]
<1>8. ASSUME NEW h \in 1..HashSize PROVE Visits(seqs[h], part[h])
  <2>1. h - 1 \in Hashes
    BY <1>1 DEF Hashes
  <2> HIDE DEF OfHash
  <2>2. QED
    BY <1>6, <2>1
<1>9. \A i, j \in 1..HashSize : i # j => part[i] \cap part[j] = {}
  OBVIOUS
<1>10. Parts(part, HashSize) = L
  <2>1. \A e \in L : HashInt(ClusterID(entries[e].key)) + 1 \in 1..HashSize
                     /\ (HashInt(ClusterID(entries[e].key)) + 1) - 1 = HashInt(ClusterID(entries[e].key))
    BY <1>1, <1>3
  <2>2. \A h \in 1..HashSize : part[h] = {e \in L : HashInt(ClusterID(entries[e].key)) = h-1}
    OBVIOUS
  <2> HIDE DEF part
  <2>3. QED
    BY <2>1, <2>2 DEF Parts
<1>11. seqs \in Seq(Seq(Nat)) /\ Len(seqs) = HashSize
  <2>1. \A h \in 1..HashSize : seqs[h] \in Seq(Nat)
    BY <1>8 DEF Visits
  <2>2. QED
    BY <1>1, <2>1
<1>12. Iterate = FlattenSeq(seqs)
  BY <1>7
<1> HIDE DEF seqs, part
<1>13. VisitParts(seqs, part, HashSize)
  BY <1>8, <1>9, <1>11 DEF VisitParts
<1>14. QED
  BY <1>1, <1>10, <1>12, <1>13, FlattenVisits DEF L

LEMMA VisitsInjective ==
  ASSUME NEW s, NEW S, Visits(s, S)
  PROVE  /\ ToSet(s) = S /\ IsInjective(s)
         /\ DOMAIN s = 1..Len(s) /\ \A n \in DOMAIN s : s[n] \in S
<1>1. DOMAIN s = 1..Len(s)
  BY DEF Visits
<1>2. ToSet(s) = S
  BY <1>1 DEF Visits, Contains, ToSet
<1>3. IsInjective(s)
  BY <1>1 DEF Visits, IsInjective
<1>4. \A n \in DOMAIN s : s[n] \in S
  BY <1>2 DEF ToSet
<1>5. QED
  BY <1>1, <1>2, <1>3, <1>4

(***************************************************************************)
(* CreateEntry and FindAndRemove move entries between the free list and    *)
(* the blocks and lose none (addressmap.h:340-375): Iterate and the free   *)
(* list together have each entry once, the block lists where Find looks.   *)
(***************************************************************************)
THEOREM NoEntryIsLost == Spec => []EntriesAccountedFor
<1>1. ASSUME TableInv PROVE EntriesAccountedFor
  <2> DEFINE F == FreeOf(entries, free_)
             L == Live(entries, F)
             lists == Iterate \o List(entries, free_)
  <2>1. /\ TableOK(hashtable_, free_, clusters, entries, F)
        /\ Len(entries) \in Nat /\ DOMAIN entries = 1..Len(entries)
        /\ F \subseteq 1..Len(entries) /\ IsListOf(entries, free_, F)
    BY <1>1, TableTypes DEF TableInv, TableOK
  <2>2. Visits(Iterate, L)
    BY <1>1, IterateVisits
  <2>3. Visits(List(entries, free_), F)
    BY <2>1, ListVisitsOnce
  <2>4. L \cap F = {} /\ L \cup F = DOMAIN entries
    BY <2>1 DEF Live
  <2>5. \A e \in L : entries[e].key \in Keys
    BY <2>1 DEF TableOK, EntriesOK
  <2>6. \A e \in L : FindEntry(entries[e].key) = e
    BY <2>1, <2>5, FindMutableIs
  <2> HIDE DEF F, L
  <2>7. Visits(lists, L \cup F)
    BY <2>2, <2>3, <2>4, ConcatVisits
  <2>8. ToSet(lists) = DOMAIN entries /\ IsInjective(lists)
    BY <2>4, <2>7, VisitsInjective
  <2>9. \A n \in DOMAIN Iterate : FindEntry(entries[Iterate[n]].key) = Iterate[n]
    BY <2>2, <2>6, VisitsInjective
  <2>10. QED
    BY <2>8, <2>9 DEF EntriesAccountedFor
<1>2. QED
  BY <1>1, TableKept, PTL

(***************************************************************************)
(* Iterate, from which NewHeapProfile takes its snapshot, calls back once  *)
(* for each key that Find finds and for no other (addressmap.h:423-438),   *)
(* for any chains, blocks and hash function.                               *)
(***************************************************************************)
THEOREM IterateIsExact == Spec => []IterateVisitsEach
<1>1. ASSUME TableInv PROVE IterateVisitsEach
  <2> DEFINE F == FreeOf(entries, free_)
             L == Live(entries, F)
  <2>1. Visits(Iterate, L)
    BY <1>1, IterateVisits
  <2>2. ToSet(Iterate) = L /\ IsInjective(Iterate) /\ \A n \in DOMAIN Iterate : Iterate[n] \in L
    BY <2>1, VisitsInjective
  <2>3. /\ \A e \in L : entries[e].key \in Keys
        /\ \A d, e \in L : entries[d].key = entries[e].key => d = e
    BY <1>1 DEF TableInv, TableOK, EntriesOK
  <2>4. \A k \in Keys : \/ FindMutable(k) = NoValue /\ \A e \in L : entries[e].key # k
                        \/ FindMutable(k) # NoValue /\ \E e \in L : entries[e].key = k
    <3>1. SUFFICES ASSUME NEW k \in Keys
                   PROVE  \/ FindMutable(k) = NoValue /\ \A e \in L : entries[e].key # k
                          \/ FindMutable(k) # NoValue /\ \E e \in L : entries[e].key = k
      OBVIOUS
    <3>2. CASE FindEntry(k) = 0 /\ FindMutable(k) = NoValue
               /\ \A value : ~Has(entries, free_, k, value)
      BY <3>2 DEF Has
    <3>3. CASE /\ FindEntry(k) \in L /\ entries[FindEntry(k)].key = k
               /\ FindMutable(k) \in Values
      BY <3>3, AddressMapAssumption
    <3>4. QED
      BY <1>1, <3>2, <3>3, FindMutableHas
  <2> HIDE DEF L
  <2>5. {entries[Iterate[n]].key : n \in DOMAIN Iterate} = {k \in Keys : FindMutable(k) # NoValue}
    <3>1. ASSUME NEW n \in DOMAIN Iterate
          PROVE  /\ entries[Iterate[n]].key \in Keys
                 /\ FindMutable(entries[Iterate[n]].key) # NoValue
      BY <2>2, <2>3, <2>4
    <3>2. ASSUME NEW k \in Keys, FindMutable(k) # NoValue
          PROVE  \E n \in DOMAIN Iterate : entries[Iterate[n]].key = k
      BY <2>2, <2>4, <3>2 DEF ToSet
    <3>3. QED
      BY <3>1, <3>2
  <2>6. \A m, n \in DOMAIN Iterate :
          entries[Iterate[m]].key = entries[Iterate[n]].key => m = n
    BY <2>2, <2>3 DEF IsInjective
  <2>7. QED
    BY <2>5, <2>6 DEF IterateVisitsEach
<1>2. QED
  BY <1>1, TableKept, PTL

-----------------------------------------------------------------------------
\* Division, which blocks and clusters are made by.

LEMMA TimesMonotone ==
  ASSUME NEW d \in Nat, NEW x \in Int, NEW y \in Int, x <= y
  PROVE  d * x <= d * y
<1>1. \A m, n \in Nat : m * n \in Nat
  OBVIOUS
<1>2. y - x \in Nat /\ d * (y - x) \in Nat
  BY <1>1
<1>3. d * (y - x) = d * y - d * x
  OBVIOUS
<1>4. QED
  BY <1>2, <1>3

LEMMA DivIs ==
  ASSUME NEW n \in Nat, NEW d \in Nat \ {0}
  PROVE  n \div d \in Nat /\ d * (n \div d) <= n /\ n < d * (n \div d) + d
  OBVIOUS

LEMMA DivUnique ==
  ASSUME NEW n \in Nat, NEW d \in Nat \ {0}, NEW q \in Int, d * q <= n, n < d * q + d
  PROVE  n \div d = q
<1> DEFINE p == n \div d
<1>1. p \in Nat /\ d * p <= n /\ n < d * p + d
  BY DivIs
<1> HIDE DEF p
<1>2. \A z \in Int : d * (z + 1) = d * z + d
  OBVIOUS
<1>3. d * p \in Int /\ d * q \in Int
  BY <1>1
<1>4. ~ p < q
  <2>1. SUFFICES ASSUME p + 1 <= q PROVE FALSE
    BY <1>1
  <2>2. d * (p + 1) <= d * q
    BY <1>1, <2>1, TimesMonotone
  <2>3. QED
    BY <1>1, <1>2, <1>3, <2>2
<1>5. ~ q < p
  <2>1. SUFFICES ASSUME q + 1 <= p PROVE FALSE
    BY <1>1
  <2>2. d * (q + 1) <= d * p
    BY <1>1, <2>1, TimesMonotone
  <2>3. QED
    BY <1>1, <1>2, <1>3, <2>2
<1>6. QED
  BY <1>1, <1>4, <1>5 DEF p

LEMMA DivOrder ==
  ASSUME NEW m \in Nat, NEW n \in Nat, NEW d \in Nat \ {0}, m \div d < n \div d
  PROVE  m < n /\ m < d * (n \div d)
<1> DEFINE p == m \div d
           q == n \div d
<1>1. /\ p \in Nat /\ m < d * p + d
      /\ q \in Nat /\ d * q <= n
  BY DivIs
<1>2. p + 1 <= q
  BY <1>1
<1> HIDE DEF p, q
<1>3. d * (p + 1) <= d * q
  BY <1>1, <1>2, TimesMonotone
<1>4. d * (p + 1) = d * p + d /\ d * p \in Int /\ d * q \in Int
  BY <1>1
<1>5. m < d * q /\ m < n
  BY <1>1, <1>3, <1>4
<1>6. QED
  BY <1>5 DEF q

LEMMA DivMonotone ==
  ASSUME NEW m \in Nat, NEW n \in Nat, NEW d \in Nat \ {0}, m <= n
  PROVE  m \div d <= n \div d
<1>1. ~ n \div d < m \div d
  BY DivOrder
<1>2. m \div d \in Nat /\ n \div d \in Nat
  BY DivIs
<1>3. QED
  BY <1>1, <1>2

\* The number of the block of an address, among all blocks.
Block(n) == n \div BlockSize

\* A cluster is ClusterBlocks blocks, and BlockID counts them.
LEMMA ClusterOfBlock ==
  ASSUME NEW n \in Nat
  PROVE  /\ Block(n) \in Nat /\ ClusterID(n) \in Nat
         /\ ClusterID(n) = Block(n) \div ClusterBlocks
         /\ BlockID(n) = Block(n) - ClusterBlocks * ClusterID(n)
         /\ BlockID(n) \in 0..(ClusterBlocks - 1)
<1> DEFINE b == Block(n)
           c == b \div ClusterBlocks
<1>1. BlockSize \in Nat \ {0} /\ ClusterBlocks \in Nat \ {0} /\ ClusterSize \in Nat \ {0}
  BY ConstantTypes
<1>2. b \in Nat /\ BlockSize * b <= n /\ n < BlockSize * b + BlockSize
  BY <1>1, DivIs DEF Block
<1>3. c \in Nat /\ ClusterBlocks * c <= b /\ b < ClusterBlocks * c + ClusterBlocks
  BY <1>1, <1>2, DivIs
<1>4. BlockID(n) = b % ClusterBlocks
  BY DEF BlockID, Block
<1> HIDE DEF b
<1>5. b % ClusterBlocks = b - ClusterBlocks * c
  BY <1>1, <1>2
<1> HIDE DEF c
<1>6. ClusterBlocks * c \in Nat
  BY <1>1, <1>3
<1>7. BlockSize * (ClusterBlocks * c) <= BlockSize * b
  BY <1>1, <1>2, <1>3, <1>6, TimesMonotone
<1>8. BlockSize * (b + 1) <= BlockSize * (ClusterBlocks * c + ClusterBlocks)
  BY <1>1, <1>2, <1>3, <1>6, TimesMonotone
<1>9. /\ BlockSize * (ClusterBlocks * c) = ClusterSize * c
      /\ BlockSize * (ClusterBlocks * c + ClusterBlocks) = ClusterSize * c + ClusterSize
      /\ BlockSize * (b + 1) = BlockSize * b + BlockSize
      /\ BlockSize * b \in Int /\ ClusterSize * c \in Int
  BY <1>1, <1>2, <1>3, <1>6 DEF ClusterSize
<1>10. ClusterSize * c <= n /\ n < ClusterSize * c + ClusterSize
  BY <1>1, <1>2, <1>7, <1>8, <1>9
<1>11. ClusterID(n) = c
  BY <1>1, <1>3, <1>10, DivUnique DEF ClusterID
<1>12. QED
  BY <1>1, <1>2, <1>3, <1>4, <1>5, <1>6, <1>11 DEF b, c

\* Two addresses are of one block if it has one place in one cluster.
LEMMA SameBlock ==
  ASSUME NEW m \in Nat, NEW n \in Nat
  PROVE  (ClusterID(m) = ClusterID(n) /\ BlockID(m) = BlockID(n)) <=> Block(m) = Block(n)
<1>1. /\ Block(m) \in Nat /\ ClusterID(m) = Block(m) \div ClusterBlocks
      /\ BlockID(m) = Block(m) - ClusterBlocks * ClusterID(m)
      /\ Block(n) \in Nat /\ ClusterID(n) = Block(n) \div ClusterBlocks
      /\ BlockID(n) = Block(n) - ClusterBlocks * ClusterID(n)
      /\ ClusterID(n) \in Nat /\ ClusterBlocks \in Nat
  BY ClusterOfBlock, ConstantTypes
<1>2. ClusterBlocks * ClusterID(n) \in Int
  BY <1>1
<1>3. QED
  BY <1>1, <1>2

-----------------------------------------------------------------------------
\* FindInside.  Where it looks from num, and where it goes back to: before that
\* address there are all the entries of the blocks before num's.

InsideBlock(num) == ToSet(List(entries, BlockHead(num)))
Before(key, num) == {e \in InsideBlock(num) : entries[e].key <= key}
Within(key, num) ==
  {e \in Before(key, num) : \/ entries[e].key = key
                            \/ key < entries[e].key + SizeFunc(entries[e].value)}
Back(num) ==
  LET unit == IF FindCluster(num) # 0 /\ BlockID(num) # 0 THEN BlockSize ELSE ClusterSize
  IN (num \div unit) * unit - 1

LEMMA LiveTypes ==
  ASSUME NEW F, TableOK(hashtable_, free_, clusters, entries, F), NEW e \in Live(entries, F)
  PROVE  /\ entries[e].key \in Keys /\ entries[e].key \in Nat
         /\ entries[e].value \in Values
         /\ SizeFunc(entries[e].value) \in Nat /\ SizeFunc(entries[e].value) <= MaxSize
         /\ \E c \in 1..Len(clusters) : clusters[c].id = ClusterID(entries[e].key)
<1>1. /\ entries[e].key \in Keys /\ entries[e].value \in Values
      /\ \E c \in 1..Len(clusters) : clusters[c].id = ClusterID(entries[e].key)
  BY DEF TableOK, EntriesOK
<1>2. entries[e].key \in Nat
  <2>1. Keys \subseteq Addresses
    BY AddressMapAssumption
  <2>2. Addresses \subseteq Nat
    BY AddressMapAssumption DEF Addresses
  <2>3. entries[e].key \in Keys
    BY <1>1
  <2>4. QED
    BY <2>1, <2>2, <2>3
<1>3. \A v \in Values : SizeFunc(v) \in 0..MaxSize
  BY AddressMapAssumption
<1>4. SizeFunc(entries[e].value) \in 0..MaxSize /\ MaxSize \in Nat
  <2>1. MaxSize \in Nat
    BY AddressMapAssumption
  <2>2. entries[e].value \in Values
    BY <1>1
  <2>3. QED
    BY <1>3, <2>1, <2>2
<1>5. QED
  BY <1>1, <1>2, <1>4

LEMMA BackIs ==
  ASSUME NEW F, TableOK(hashtable_, free_, clusters, entries, F), NEW num \in Addresses
  PROVE  /\ Back(num) \in Int /\ Back(num) < num
         /\ \A e \in Live(entries, F) :
              Block(entries[e].key) < Block(num) => entries[e].key <= Back(num)
<1>1. num \in Nat /\ {BlockSize, ClusterBlocks, ClusterSize} \subseteq Nat \ {0}
  BY ConstantTypes DEF Addresses
<1>2. ASSUME NEW unit \in {BlockSize, ClusterSize}, Back(num) = (num \div unit) * unit - 1,
             \A e \in Live(entries, F) : Block(entries[e].key) < Block(num) =>
                                           entries[e].key \div unit < num \div unit
      PROVE  /\ Back(num) \in Int /\ Back(num) < num
             /\ \A e \in Live(entries, F) :
                  Block(entries[e].key) < Block(num) => entries[e].key <= Back(num)
  <2> DEFINE q == num \div unit
  <2>1. unit \in Nat \ {0}
    BY <1>1
  <2>2. q \in Nat /\ unit * q <= num
    BY <1>1, <2>1, DivIs
  <2>3. ASSUME NEW e \in Live(entries, F), Block(entries[e].key) < Block(num)
        PROVE  entries[e].key \in Nat /\ entries[e].key < unit * q
    <3>1. entries[e].key \in Nat /\ entries[e].key \div unit < num \div unit
      BY <1>2, <2>3, LiveTypes
    <3>2. QED
      BY <1>1, <2>1, <3>1, DivOrder
  <2> HIDE DEF q
  <2>4. unit * q \in Int /\ q * unit = unit * q
    BY <2>1, <2>2
  <2>5. Back(num) = unit * q - 1
    BY <1>2, <2>4 DEF q
  <2>6. QED
    BY <1>1, <2>2, <2>3, <2>4, <2>5
<1>3. CASE FindCluster(num) # 0 /\ BlockID(num) # 0
  <2>1. Back(num) = (num \div BlockSize) * BlockSize - 1
    BY <1>3 DEF Back
  <2>2. QED
    BY <1>2, <2>1 DEF Block
<1>4. CASE ~(FindCluster(num) # 0 /\ BlockID(num) # 0)
  <2>1. Back(num) = (num \div ClusterSize) * ClusterSize - 1
    BY <1>4 DEF Back
  <2>2. ASSUME NEW e \in Live(entries, F), Block(entries[e].key) < Block(num)
        PROVE  ClusterID(entries[e].key) < ClusterID(num)
    <3> DEFINE k == entries[e].key
    <3>1. k \in Nat
      BY LiveTypes
    <3>2. \E c \in 1..Len(clusters) : clusters[c].id = ClusterID(k)
      BY LiveTypes
    <3> HIDE DEF k
    <3>3. /\ Block(k) \in Nat /\ ClusterID(k) \in Nat
          /\ ClusterID(k) = Block(k) \div ClusterBlocks
          /\ BlockID(k) = Block(k) - ClusterBlocks * ClusterID(k) /\ BlockID(k) >= 0
      BY <1>1, <3>1, ClusterOfBlock
    <3>4. /\ Block(num) \in Nat /\ ClusterID(num) \in Nat
          /\ ClusterID(num) = Block(num) \div ClusterBlocks
          /\ BlockID(num) = Block(num) - ClusterBlocks * ClusterID(num)
      BY <1>1, ClusterOfBlock
    <3>5. ClusterID(k) <= ClusterID(num)
      <4>1. Block(k) <= Block(num) /\ ClusterBlocks \in Nat \ {0}
        BY <1>1, <2>2, <3>3, <3>4, ConstantTypes DEF k
      <4>2. Block(k) \div ClusterBlocks <= Block(num) \div ClusterBlocks
        BY <3>3, <3>4, <4>1, DivMonotone
      <4>3. QED
        BY <3>3, <3>4, <4>2
    <3>6. ClusterID(k) # ClusterID(num)
      <4>1. CASE FindCluster(num) = 0
        <5>1. \A d \in 1..Len(clusters) : clusters[d].id # ClusterID(num)
          BY <4>1, FindClusterIs, AddressPlace DEF TableOK
        <5>2. QED
          BY <3>2, <5>1
      <4>2. CASE BlockID(num) = 0
        <5>1. SUFFICES ASSUME ClusterID(k) = ClusterID(num) PROVE FALSE
          OBVIOUS
        <5>2. ClusterBlocks * ClusterID(num) \in Int
          BY <1>1, <3>4
        <5>3. QED
          BY <2>2, <3>3, <3>4, <4>2, <5>1, <5>2 DEF k
      <4>3. QED
        BY <1>4, <4>1, <4>2
    <3>7. QED
      BY <3>3, <3>4, <3>5, <3>6 DEF k
  <2>3. QED
    BY <1>2, <2>1, <2>2 DEF ClusterID
<1>5. QED
  BY <1>3, <1>4

\* The entries of the list it looks through are those of the block.
LEMMA InsideBlockIs ==
  ASSUME NEW F, TableOK(hashtable_, free_, clusters, entries, F), NEW num \in Addresses
  PROVE  /\ IsListOf(entries, BlockHead(num), InsideBlock(num))
         /\ InsideBlock(num) = {e \in Live(entries, F) : Block(entries[e].key) = Block(num)}
<1> DEFINE S == InBlock(entries, F, ClusterID(num), BlockID(num))
<1>1. num \in Nat /\ Len(entries) \in Nat
  BY TableTypes, AddressMapAssumption DEF Addresses
<1>2. IsListOf(entries, BlockHead(num), S)
  BY BlockHeadIs, AddressPlace
<1>3. \A e \in Live(entries, F) :
        (ClusterID(entries[e].key) = ClusterID(num) /\ BlockID(entries[e].key) = BlockID(num))
          <=> Block(entries[e].key) = Block(num)
  BY <1>1, LiveTypes, SameBlock
<1>4. S = {e \in Live(entries, F) : Block(entries[e].key) = Block(num)}
  BY <1>3 DEF InBlock
<1> HIDE DEF S
<1>5. Visits(List(entries, BlockHead(num)), S)
  BY <1>1, <1>2, ListVisitsOnce
<1>6. InsideBlock(num) = S
  BY <1>5, VisitsInjective DEF InsideBlock
<1>7. QED
  BY <1>2, <1>4, <1>6

\* The loop of FindInside.
SearchRow(rest, max_size, key, num) ==
  IF First(entries, BlockHead(num), Before(key, num)) # 0
  THEN First(entries, BlockHead(num), Within(key, num))
  ELSE IF Back(num) < 0 \/ key - Back(num) > max_size THEN 0
  ELSE rest[Back(num)]
IsSearch(search, max_size, key, n) ==
  search = [num \in 0..n |-> SearchRow(search, max_size, key, num)]

LEMMA SearchExists ==
  ASSUME NEW F, TableOK(hashtable_, free_, clusters, entries, F),
         NEW max_size, NEW key \in Addresses
  PROVE  \E search : IsSearch(search, max_size, key, key)
<1> DEFINE T == {n \in Nat : n <= key => \E search : IsSearch(search, max_size, key, n)}
<1>1. key \in Nat /\ \A n \in 0..key : n \in Addresses
  BY AddressMapAssumption DEF Addresses
<1>2. \A num \in 0..key : Back(num) \in Int /\ Back(num) < num
  BY <1>1, BackIs
<1>3. 0 \in T
  <2> DEFINE search == [num \in 0..0 |-> SearchRow(<<>>, max_size, key, num)]
  <2>1. \A num \in 0..0 : SearchRow(search, max_size, key, num) = SearchRow(<<>>, max_size, key, num)
    <3> HIDE DEF search
    <3>1. Back(0) \in Int /\ Back(0) < 0
      BY <1>1, <1>2
    <3>2. QED
      BY <3>1 DEF SearchRow
  <2>2. IsSearch(search, max_size, key, 0)
    BY <2>1 DEF IsSearch
  <2> HIDE DEF search
  <2>3. QED
    BY <2>2
<1>4. ASSUME NEW n \in Nat, n \in T PROVE n + 1 \in T
  <2>1. SUFFICES ASSUME n + 1 <= key
                 PROVE  \E search : IsSearch(search, max_size, key, n + 1)
    OBVIOUS
  <2>2. PICK search : IsSearch(search, max_size, key, n)
    BY <1>1, <1>4, <2>1
  <2> DEFINE next == [num \in 0..(n + 1) |-> SearchRow(search, max_size, key, num)]
  <2>3. \A num \in 0..n : next[num] = search[num]
    BY <2>2 DEF IsSearch
  <2> HIDE DEF next
  <2>4. ASSUME NEW num \in 0..(n + 1)
        PROVE  SearchRow(next, max_size, key, num) = SearchRow(search, max_size, key, num)
    <3>1. Back(num) \in Int /\ Back(num) < num
      BY <1>1, <1>2, <2>1
    <3>2. Back(num) >= 0 => next[Back(num)] = search[Back(num)]
      BY <2>3, <3>1
    <3>3. QED
      BY <3>1, <3>2 DEF SearchRow
  <2>5. next = [num \in 0..(n + 1) |-> SearchRow(next, max_size, key, num)]
    BY <2>4 DEF next
  <2>6. QED
    BY <2>5 DEF IsSearch
<1>5. key \in T
  <2> HIDE DEF T
  <2>1. QED
    BY <1>1, <1>3, <1>4, SetInduction
<1>6. QED
  BY <1>1, <1>5

LEMMA FindInsideIs ==
  ASSUME NEW F, TableOK(hashtable_, free_, clusters, entries, F),
         NEW max_size, NEW key \in Addresses
  PROVE  \E search : IsSearch(search, max_size, key, key)
                     /\ FindInside(max_size, key) = search[key]
<1> DEFINE search == CHOOSE search : IsSearch(search, max_size, key, key)
<1>1. IsSearch(search, max_size, key, key)
  BY SearchExists
<1>2. FindInside(max_size, key) = search[key]
  BY DEF FindInside, IsSearch, SearchRow, Before, Within, InsideBlock, Back
<1> HIDE DEF search
<1>3. QED
  BY <1>1, <1>2

\* The entry e is of a range the address is in.
InEntry(e, address) ==
  \/ entries[e].key = address
  \/ /\ entries[e].key <= address
     /\ address < entries[e].key + SizeFunc(entries[e].value)

Apart(S) ==
  \A d, e \in S : entries[d].key < entries[e].key =>
                    entries[d].key + SizeFunc(entries[d].value) <= entries[e].key

\* What is to be found among the entries S.
FindsIn(S, address, o) ==
  IF \E e \in S : InEntry(e, address) THEN o \in S /\ InEntry(o, address) ELSE o = 0

\* Once the search has come to num, no entry of a later block is at or before
\* the address: if one of num's block is, then that one decides.
NoneAfter(S, key, num) ==
  \A e \in S : entries[e].key <= key => Block(entries[e].key) <= Block(num)

LEMMA SearchFinds ==
  ASSUME NEW F, TableOK(hashtable_, free_, clusters, entries, F),
         Apart(Live(entries, F)), NEW key \in Addresses,
         NEW search, IsSearch(search, MaxSize, key, key)
  PROVE  FindsIn(Live(entries, F), key, search[key])
<1> DEFINE L == Live(entries, F)
           Right(num) == NoneAfter(L, key, num) => FindsIn(L, key, search[num])
           T == {num \in Nat : num <= key => Right(num)}
<1>1. key \in Nat /\ MaxSize \in Nat /\ \A n \in 0..key : n \in Addresses /\ n \in Nat
  BY AddressMapAssumption DEF Addresses
<1>2. \A e \in L : /\ entries[e].key \in Nat /\ SizeFunc(entries[e].value) \in Nat
                   /\ SizeFunc(entries[e].value) <= MaxSize /\ e # 0
  BY LiveTypes DEF Live
<1>3. Len(entries) \in Nat
  BY TableTypes
<1>4. \A n \in Nat : Block(n) \in Nat
  BY ClusterOfBlock
<1> HIDE DEF L
<1>5. ASSUME NEW num \in 0..key, \A m \in 0..(num - 1) : Right(m), NoneAfter(L, key, num)
      PROVE  FindsIn(L, key, search[num])
  <2>1. num \in Addresses /\ num \in Nat
    BY <1>1
  <2>2. search[num] = SearchRow(search, MaxSize, key, num)
    BY <1>5 DEF IsSearch
  <2>3. /\ IsListOf(entries, BlockHead(num), InsideBlock(num))
        /\ InsideBlock(num) = {e \in L : Block(entries[e].key) = Block(num)}
    BY <2>1, InsideBlockIs DEF L
  <2>4. /\ Back(num) \in Int /\ Back(num) < num
        /\ \A e \in L : Block(entries[e].key) < Block(num) => entries[e].key <= Back(num)
    BY <2>1, BackIs DEF L
  <2> DEFINE before == First(entries, BlockHead(num), Before(key, num))
             within == First(entries, BlockHead(num), Within(key, num))
  <2>5. /\ \/ before = 0 /\ InsideBlock(num) \cap Before(key, num) = {}
           \/ before \in InsideBlock(num) /\ before \in Before(key, num)
        /\ \/ within = 0 /\ InsideBlock(num) \cap Within(key, num) = {}
           \/ within \in InsideBlock(num) /\ within \in Within(key, num)
    BY <1>3, <2>3, FirstIs
  <2>6. search[num] = IF before # 0 THEN within
                      ELSE IF Back(num) < 0 \/ key - Back(num) > MaxSize THEN 0
                      ELSE search[Back(num)]
    BY <2>2 DEF SearchRow
  <2> HIDE DEF before, within
  <2>7. CASE before # 0
    <3>1. before \in L /\ entries[before].key <= key /\ Block(entries[before].key) = Block(num)
      BY <2>3, <2>5, <2>7 DEF Before
    <3>2. CASE within # 0
      <4>1. within \in L /\ InEntry(within, key)
        BY <2>3, <2>5, <3>2 DEF Within, Before, InEntry
      <4>2. QED
        BY <2>6, <2>7, <4>1 DEF FindsIn
    <3>3. CASE within = 0
      <4>1. ASSUME NEW e \in L, InEntry(e, key) PROVE FALSE
        <5>1. entries[e].key \in Nat /\ entries[e].key <= key
          BY <1>1, <1>2, <4>1 DEF InEntry
        <5>2. Block(entries[e].key) # Block(num)
          <6>1. SUFFICES ASSUME Block(entries[e].key) = Block(num) PROVE FALSE
            OBVIOUS
          <6>2. e \in InsideBlock(num) /\ e \in Within(key, num)
            BY <2>3, <4>1, <5>1, <6>1 DEF Within, Before, InEntry
          <6>3. \A x \in InsideBlock(num) : x # 0
            BY <1>2, <2>3
          <6>4. QED
            BY <2>5, <3>3, <6>2, <6>3
        <5>3. Block(entries[e].key) < Block(entries[before].key)
          BY <1>2, <1>4, <1>5, <2>1, <3>1, <5>1, <5>2 DEF NoneAfter
        <5>4. entries[e].key < entries[before].key
          BY <1>2, <3>1, <5>1, <5>3, DivOrder, ConstantTypes DEF Block
        <5>5. entries[e].key + SizeFunc(entries[e].value) <= entries[before].key
          BY <3>1, <5>4 DEF Apart, L
        <5>6. QED
          BY <1>1, <1>2, <3>1, <4>1, <5>4, <5>5 DEF InEntry
      <4>2. QED
        BY <2>6, <2>7, <3>3, <4>1 DEF FindsIn
    <3>4. QED
      BY <3>2, <3>3
  <2>8. CASE before = 0
    <3>1. ASSUME NEW e \in L, entries[e].key <= key
          PROVE  Block(entries[e].key) < Block(num) /\ entries[e].key <= Back(num)
      <4>1. Block(entries[e].key) <= Block(num)
        BY <1>5, <3>1 DEF NoneAfter
      <4>2. Block(entries[e].key) # Block(num)
        <5>1. SUFFICES ASSUME Block(entries[e].key) = Block(num) PROVE FALSE
          OBVIOUS
        <5>2. e \in InsideBlock(num) /\ e \in Before(key, num)
          BY <2>3, <3>1, <5>1 DEF Before
        <5>3. \A x \in InsideBlock(num) : x # 0
          BY <1>2, <2>3
        <5>4. QED
          BY <2>5, <2>8, <5>2, <5>3
      <4>3. QED
        BY <1>2, <1>4, <2>1, <2>4, <4>1, <4>2
    <3>2. CASE Back(num) < 0 \/ key - Back(num) > MaxSize
      <4>1. \A e \in L : ~InEntry(e, key)
        BY <1>1, <1>2, <2>4, <3>1, <3>2 DEF InEntry
      <4>2. QED
        BY <2>6, <2>8, <3>2, <4>1 DEF FindsIn
    <3>3. CASE ~(Back(num) < 0 \/ key - Back(num) > MaxSize)
      <4>1. Back(num) \in 0..(num - 1) /\ Back(num) \in Nat
        BY <2>1, <2>4, <3>3
      <4>2. ASSUME NEW e \in L, entries[e].key <= key
            PROVE  Block(entries[e].key) <= Block(Back(num))
        <5>1. entries[e].key \in Nat /\ entries[e].key <= Back(num)
          BY <1>2, <3>1, <4>2
        <5>2. QED
          BY <4>1, <5>1, DivMonotone, ConstantTypes DEF Block
      <4>3. NoneAfter(L, key, Back(num))
        BY <4>2 DEF NoneAfter
      <4>4. QED
        BY <1>5, <2>6, <2>8, <3>3, <4>1, <4>3
    <3>4. QED
      BY <3>2, <3>3
  <2>9. QED
    BY <2>7, <2>8
<1>6. \A num \in Nat : num \in T
  <2>1. ASSUME NEW num \in Nat, \A m \in 0..(num - 1) : m \in T PROVE num \in T
    <3>1. SUFFICES ASSUME num <= key PROVE Right(num)
      OBVIOUS
    <3>2. \A m \in 0..(num - 1) : Right(m)
      BY <1>1, <2>1, <3>1
    <3> HIDE DEF FindsIn
    <3>3. QED
      BY <1>1, <1>5, <3>1, <3>2
  <2> HIDE DEF T
  <2>2. QED
    BY <2>1, StrongInduction
<1>7. NoneAfter(L, key, key)
  <2>1. ASSUME NEW e \in L, entries[e].key <= key PROVE Block(entries[e].key) <= Block(key)
    BY <1>1, <1>2, <2>1, DivMonotone, ConstantTypes DEF Block
  <2>2. QED
    BY <2>1 DEF NoneAfter
<1>8. QED
  BY <1>1, <1>6, <1>7 DEF L

(***************************************************************************)
(* FindInside returns the entry of the range an address points into, and   *)
(* none if there is no such range, as addressmap.h:130-137 says, although  *)
(* it gives up at the first block with an entry before the address and     *)
(* jumps over clusters: for any sizes of blocks, clusters and ranges.      *)
(***************************************************************************)
THEOREM FindInsideIsRight == Spec => []FindInsideFindsRange
<1>1. ASSUME TableInv PROVE FindInsideFindsRange
  <2> DEFINE F == FreeOf(entries, free_)
             L == Live(entries, F)
             used == {k \in Keys : FindMutable(k) # NoValue}
             Ends(k) == k + SizeFunc(FindMutable(k))
  <2>1. TableOK(hashtable_, free_, clusters, entries, F)
    BY <1>1 DEF TableInv
  <2> HIDE DEF F
  <2>2. ASSUME NEW e \in L
        PROVE  /\ entries[e].key \in used /\ FindEntry(entries[e].key) = e
               /\ FindMutable(entries[e].key) = entries[e].value /\ e # 0
    <3>1. entries[e].key \in Keys /\ entries[e].value \in Values
      BY <2>1, LiveTypes
    <3>2. FindEntry(entries[e].key) = e /\ FindMutable(entries[e].key) = entries[e].value
      BY <2>1, <3>1, FindMutableIs
    <3>3. e # 0
      BY DEF Live
    <3>4. QED
      BY <3>1, <3>2, <3>3, AddressMapAssumption
  <2>3. ASSUME NEW k \in used PROVE \E e \in L : entries[e].key = k
    <3>1. SUFFICES ASSUME \A e \in L : entries[e].key # k PROVE FALSE
      OBVIOUS
    <3>2. FindMutable(k) = NoValue
      BY <2>1, <3>1, FindMutableIs
    <3>3. QED
      BY <3>2
  <2> HIDE DEF L, used
  <2>4. SUFFICES ASSUME \A k, l \in used : k < l => Ends(k) <= l,
                        NEW a \in Addresses
                 PROVE  LET e == FindInside(MaxSize, a)
                        IN IF \E k \in used : Inside(k, a)
                           THEN /\ e # 0 /\ FindEntry(entries[e].key) = e
                                /\ Inside(entries[e].key, a)
                           ELSE e = 0
    BY DEF FindInsideFindsRange, used
  <2> DEFINE o == FindInside(MaxSize, a)
  <2>5. Apart(L)
    BY <2>2, <2>4 DEF Apart
  <2>6. FindsIn(L, a, o)
    <3>1. PICK search : IsSearch(search, MaxSize, a, a) /\ o = search[a]
      BY <2>1, FindInsideIs
    <3>2. QED
      BY <2>1, <2>5, <3>1, SearchFinds DEF L
  <2>7. \A e \in L : InEntry(e, a) <=> Inside(entries[e].key, a)
    BY <2>2 DEF InEntry, Inside
  <2> HIDE DEF o
  <2>8. CASE \E k \in used : Inside(k, a)
    <3>1. \E e \in L : InEntry(e, a)
      BY <2>3, <2>7, <2>8
    <3>2. o \in L /\ InEntry(o, a)
      BY <2>6, <3>1 DEF FindsIn
    <3>3. QED
      BY <2>2, <2>7, <2>8, <3>2 DEF o
  <2>9. CASE ~\E k \in used : Inside(k, a)
    <3>1. ~\E e \in L : InEntry(e, a)
      BY <2>2, <2>7, <2>9
    <3>2. o = 0
      BY <2>6, <3>1 DEF FindsIn
    <3>3. QED
      BY <2>9, <3>2 DEF o
  <2>10. QED
    BY <2>8, <2>9
<1>2. QED
  BY <1>1, TableKept, PTL
=============================================================================
