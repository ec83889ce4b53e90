------------------------------ MODULE AddressMap ------------------------------
(***************************************************************************)
(* addressmap.h, the table behind live_set_: a chained hash table of       *)
(* clusters, each an array of blocks, each block a linked list of entries. *)
(* Entries come from a free list that is refilled a batch at a time.       *)
(*                                                                         *)
(* The objects New allocates are the elements of two sequences, and a      *)
(* pointer is an index, 0 for nullptr.  The list that allocated_ heads is  *)
(* all there is in them.  The map is not thread-safe: its caller holds     *)
(* mu_, so that one call is one step.                                      *)
(***************************************************************************)
EXTENDS Integers, Sequences, SequencesExt

CONSTANTS
  LastAddress,     \* addresses are 0..LastAddress
  Keys,            \* those that are used as keys
  Values, NoValue,
  BlockSize,       \* kBlockSize
  ClusterBlocks,   \* kClusterBlocks
  HashSize,        \* kHashSize
  HashInt(_),      \* the hash function on cluster ids
  ALLOC_COUNT,
  SizeFunc(_),     \* the size of the range a value stands for, for FindInside
  MaxSize          \* its max_size: no range is larger

Addresses == 0..LastAddress

ASSUME AddressMapAssumption ==
  /\ LastAddress \in Nat /\ Keys \subseteq Addresses /\ NoValue \notin Values
  /\ {BlockSize, ClusterBlocks, HashSize, ALLOC_COUNT} \subseteq Nat \ {0}
  /\ \A a \in Addresses : HashInt(a \div (BlockSize * ClusterBlocks)) \in 0..HashSize-1
  /\ MaxSize \in Nat /\ \A v \in Values : SizeFunc(v) \in 0..MaxSize

VARIABLES
  hashtable_,   \* hash -> first cluster of the chain
  free_,        \* first entry of the free list
  clusters,     \* the Cluster objects
  entries,      \* the Entry objects
  ret           \* what the last call returned, NoValue when it returns nothing

vars == <<hashtable_, free_, clusters, entries, ret>>

Pointer(objects) == 0..Len(objects)
BlockIDs == 0..ClusterBlocks-1
ClusterSize == BlockSize * ClusterBlocks

TypeOK ==
  /\ hashtable_ \in [0..HashSize-1 -> Pointer(clusters)]
  /\ free_ \in Pointer(entries)
  /\ clusters \in
       Seq([next : Pointer(clusters), id : Nat, blocks : [BlockIDs -> Pointer(entries)]])
  /\ entries \in
       Seq([next : Pointer(entries), key : Keys \cup {0}, value : Values \cup {NoValue}])
  /\ ret \in Values \cup {NoValue}

Init ==
  /\ hashtable_ = [h \in 0..HashSize-1 |-> 0]
  /\ free_ = 0
  /\ clusters = <<>> /\ entries = <<>>
  /\ ret = NoValue

-----------------------------------------------------------------------------
\* The objects a loop over next pointers visits, up to one more than there are:
\* a list with a cycle shows as one that repeats.
List(objects, head) ==
  LET walk[hops \in 0..Len(objects)+1] == [o \in Pointer(objects) |->
        IF o = 0 \/ hops = 0 THEN <<>> ELSE <<o>> \o walk[hops - 1][objects[o].next]]
  IN walk[Len(objects) + 1][head]

\* The first object of a list that is in hits, or 0: such a loop that returns.
First(objects, head, hits) ==
  LET look[hops \in 0..Len(objects)+1] == [o \in Pointer(objects) |->
        IF o = 0 \/ hops = 0 THEN 0
        ELSE IF o \in hits THEN o ELSE look[hops - 1][objects[o].next]]
  IN look[Len(objects) + 1][head]

ClusterID(num) == num \div ClusterSize
BlockID(num) == (num \div BlockSize) % ClusterBlocks

FindCluster(num) ==
  First(clusters, hashtable_[HashInt(ClusterID(num))],
        {c \in DOMAIN clusters : clusters[c].id = ClusterID(num)})

\* The head of the linked list for the block of an address.
BlockHead(num) ==
  LET c == FindCluster(num) IN IF c = 0 THEN 0 ELSE clusters[c].blocks[BlockID(num)]

FindEntry(key) ==
  First(entries, BlockHead(key), {e \in DOMAIN entries : entries[e].key = key})

FindMutable(key) ==
  LET e == FindEntry(key) IN IF e = 0 THEN NoValue ELSE entries[e].value

\* Slip: the new cluster does not get the rest of the chain.
CreateUnchained(num) ==
  IF FindCluster(num) # 0
  THEN [c |-> FindCluster(num), table |-> hashtable_, clusters |-> clusters]
  ELSE LET h == HashInt(ClusterID(num))
           c == Len(clusters) + 1
       IN [c |-> c, table |-> [hashtable_ EXCEPT ![h] = c],
           clusters |-> Append(clusters, [next |-> 0, id |-> ClusterID(num),
                                          blocks |-> [b \in BlockIDs |-> 0]])]

\* FindCluster when it may create: the cluster, and the tables after it.
FindOrCreateCluster(num) ==
  IF FindCluster(num) # 0
  THEN [c |-> FindCluster(num), table |-> hashtable_, clusters |-> clusters]
  ELSE LET h == HashInt(ClusterID(num))
           c == Len(clusters) + 1
       IN [c |-> c, table |-> [hashtable_ EXCEPT ![h] = c],
           clusters |-> Append(clusters, [next |-> hashtable_[h], id |-> ClusterID(num),
                                          blocks |-> [b \in BlockIDs |-> 0]])]

\* A batch of entries, linked from first to last.
Batch == [i \in 1..ALLOC_COUNT |->
  [key |-> 0, value |-> NoValue,
   next |-> IF i < ALLOC_COUNT THEN Len(entries) + i + 1 ELSE 0]]

\* An entry from the free list goes to the front of the block's list.
CreateEntry(key, value) ==
  LET found == FindOrCreateCluster(key)
      c == found.c
      b == BlockID(key)
      pool == IF free_ = 0 THEN entries \o Batch ELSE entries
      e == IF free_ = 0 THEN Len(entries) + 1 ELSE free_
  IN /\ hashtable_' = found.table
     /\ clusters' = [found.clusters EXCEPT ![c].blocks[b] = e]
     /\ entries' = [pool EXCEPT ![e] = [key |-> key, value |-> value,
                                        next |-> found.clusters[c].blocks[b]]]
     /\ free_' = pool[e].next

\* Slip: the block's list is not searched for the key.
InsertAnyway(key, value) == CreateEntry(key, value) /\ ret' = NoValue

\* A key that is found has its cluster, so none is created then.
Insert(key, value) ==
  /\ IF FindEntry(key) # 0
     THEN /\ entries' = [entries EXCEPT ![FindEntry(key)].value = value]
          /\ UNCHANGED <<hashtable_, free_, clusters>>
     ELSE CreateEntry(key, value)
  /\ ret' = NoValue

\* The pointer that points to entry e is given e's next: the head of the list
\* or the next of the entry before it.
Unlink(key, e) ==
  LET next == entries[e].next
      before == First(entries, BlockHead(key),
                      {x \in DOMAIN entries : entries[x].next = e})
  IN IF BlockHead(key) = e
     THEN /\ clusters' = [clusters EXCEPT ![FindCluster(key)].blocks[BlockID(key)] = next]
          /\ entries' = [entries EXCEPT ![e].next = free_]
     ELSE /\ entries' = [entries EXCEPT ![before].next = next, ![e].next = free_]
          /\ UNCHANGED clusters

\* Slip: the entry is unlinked and not put on the free list.
FindAndRemoveDrops(key) ==
  LET e == FindEntry(key) IN
    /\ ret' = FindMutable(key)
    /\ IF e = 0 THEN UNCHANGED <<clusters, entries>> ELSE Unlink(key, e)
    /\ UNCHANGED <<hashtable_, free_>>

FindAndRemove(key) ==
  LET e == FindEntry(key) IN
    /\ ret' = FindMutable(key)
    /\ IF e = 0 THEN UNCHANGED <<clusters, entries, free_>>
       ELSE Unlink(key, e) /\ free_' = e
    /\ UNCHANGED hashtable_

\* Every object goes back to the allocator, and the table starts again.
Reset ==
  /\ hashtable_' = [h \in 0..HashSize-1 |-> 0]
  /\ free_' = 0
  /\ clusters' = <<>> /\ entries' = <<>>
  /\ ret' = NoValue

Next ==
  \/ \E key \in Keys : FindAndRemove(key) \/ \E value \in Values : Insert(key, value)
  \/ Reset

Spec == Init /\ [][Next]_vars

-----------------------------------------------------------------------------
\* The entries Iterate calls back for, in its order.
Iterate ==
  LET BlockEntries(c) == FlattenSeq([b \in 1..ClusterBlocks |->
                           List(entries, clusters[c].blocks[b-1])])
      ChainEntries(h) == FlattenSeq([n \in 1..Len(List(clusters, hashtable_[h])) |->
                           BlockEntries(List(clusters, hashtable_[h])[n])])
  IN FlattenSeq([h \in 1..HashSize |-> ChainEntries(h-1)])

\* Slip: the search goes back by a block without going to that block's end.
FindInsideUnrounded(max_size, key) ==
  LET Search[num \in 0..key] ==
        LET block == ToSet(List(entries, BlockHead(num)))
            before == {e \in block : entries[e].key <= key}
            within == {e \in before : \/ entries[e].key = key
                                      \/ key < entries[e].key + SizeFunc(entries[e].value)}
            back == IF FindCluster(num) # 0 /\ BlockID(num) # 0 THEN num - BlockSize
                    ELSE num - ClusterSize
        IN IF First(entries, BlockHead(num), before) # 0
           THEN First(entries, BlockHead(num), within)
           ELSE IF back < 0 \/ key - back > max_size THEN 0
           ELSE Search[back]
  IN Search[key]

(***************************************************************************)
(* FindInside: from the block of the key back, block by block inside a     *)
(* cluster there is and cluster by cluster elsewhere, until a block has an *)
(* entry at or before the key.                                             *)
(***************************************************************************)
FindInside(max_size, key) ==
  LET Search[num \in 0..key] ==
        LET block == ToSet(List(entries, BlockHead(num)))
            before == {e \in block : entries[e].key <= key}
            within == {e \in before : \/ entries[e].key = key
                                      \/ key < entries[e].key + SizeFunc(entries[e].value)}
            unit == IF FindCluster(num) # 0 /\ BlockID(num) # 0 THEN BlockSize
                    ELSE ClusterSize
            back == (num \div unit) * unit - 1
        IN IF First(entries, BlockHead(num), before) # 0
           THEN First(entries, BlockHead(num), within)
           ELSE IF back < 0 \/ key - back > max_size THEN 0
           ELSE Search[back]
  IN Search[key]

-----------------------------------------------------------------------------
(***************************************************************************)
(* The table implements a partial function, read with its own Find: a call *)
(* changes what Find says of its own key only, also when the entries of    *)
(* several keys share a block, blocks a cluster and clusters a chain, and  *)
(* "any old value associated with key is forgotten" (addressmap.h:121).    *)
(***************************************************************************)
Map == INSTANCE PartialMap WITH map <- [k \in Keys |-> FindMutable(k)]

ImplementsMap == Map!MSpec

(***************************************************************************)
(* No entry is lost or shared: each is once on the free list or on the     *)
(* list of a block, where Find looks for its key, so that the table        *)
(* allocates a batch only when every entry it has is in use.               *)
(***************************************************************************)
EntriesAccountedFor ==
  LET lists == Iterate \o List(entries, free_)
  IN /\ ToSet(lists) = DOMAIN entries /\ IsInjective(lists)
     /\ \A n \in DOMAIN Iterate :
          FindEntry(entries[Iterate[n]].key) = Iterate[n]

\* Iterate, which a snapshot is taken with, calls back exactly once for each
\* key in the map, with the value Find gives.
IterateVisitsEach ==
  /\ {entries[Iterate[n]].key : n \in DOMAIN Iterate} =
       {k \in Keys : FindMutable(k) # NoValue}
  /\ \A m, n \in DOMAIN Iterate :
       entries[Iterate[m]].key = entries[Iterate[n]].key => m = n

Inside(key, address) ==
  key = address \/ (key <= address /\ address < key + SizeFunc(FindMutable(key)))

(***************************************************************************)
(* FindInside (addressmap.h:130) finds the range an address points into,   *)
(* wherever the range starts: provided the ranges do not overlap and none  *)
(* is larger than max_size.                                                *)
(***************************************************************************)
FindInsideFindsRange ==
  LET used == {k \in Keys : FindMutable(k) # NoValue}
  IN (\A k, l \in used : k < l => k + SizeFunc(FindMutable(k)) <= l) =>
       \A a \in Addresses :
         LET e == FindInside(MaxSize, a)
         IN IF \E k \in used : Inside(k, a)
            THEN e # 0 /\ FindEntry(entries[e].key) = e /\ Inside(entries[e].key, a)
            ELSE e = 0
=============================================================================
