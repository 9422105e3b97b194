----------------------------- MODULE AddressMap -----------------------------
(***************************************************************************)
(* AddressMap: the hash table of clusters of blocks of linked lists that   *)
(* maps the start of every live object to its record.  Keys are addresses  *)
(* and the record of a key is, here, the size of its object.               *)
(***************************************************************************)
EXTENDS Integers, Sequences, SequencesExt, FiniteSets

CONSTANTS
  kBlockSize, kClusterBlocks, \* addresses in a block, blocks in a cluster
  AmSpace,                    \* the addresses are 0 .. AmSpace - 1
  kHashBits, AmWordBits, kHashMultiplier,
  ALLOC_COUNT,                \* entries allocated at a time
  AmSizes,                    \* the sizes of objects
  AmMaxObjects                \* bound on the objects alive together

ASSUME AddressMapAssumption ==
  /\ kBlockSize \in Nat \ {0} /\ kClusterBlocks \in Nat \ {0}
  /\ ALLOC_COUNT \in Nat \ {0} /\ AmSizes \subseteq Nat
  /\ kHashBits \in 0..AmWordBits

VARIABLES
  hashtable_, \* per hash value, the clusters of its chain
  free_,      \* length of the free list of entries
  allocated_, \* entries in the arrays obtained from the allocator
  amRanges    \* what was inserted and not removed: start -> size

amVars == <<hashtable_, free_, allocated_, amRanges>>

kClusterSize == kBlockSize * kClusterBlocks
kHashSize == 2 ^ kHashBits
Addresses == 0..(AmSpace - 1)
NoEntry == [key |-> -1, size |-> -1]

AmInit ==
  /\ hashtable_ = [h \in 0..(kHashSize - 1) |-> <<>>]
  /\ free_ = 0 /\ allocated_ = 0
  /\ amRanges = [k \in {} |-> 0]

HashInt(x) ==
  ((x * kHashMultiplier) % (2 ^ AmWordBits)) \div (2 ^ (AmWordBits - kHashBits))

BlockID(address) == (address \div kBlockSize) % kClusterBlocks

\* The position in its chain of the cluster of an address, 0 if there is none.
FindCluster(address) ==
  LET id == address \div kClusterSize
      chain == hashtable_[HashInt(id)]
      at == {i \in DOMAIN chain : chain[i].id = id}
  IN IF at = {} THEN 0 ELSE CHOOSE i \in at : \A j \in at : i <= j

CreatedNever(address) ==
  LET chain == hashtable_[HashInt(address \div kClusterSize)]
      cluster == [id |-> address \div kClusterSize,
                  blocks |-> [b \in 0..(kClusterBlocks - 1) |-> <<>>]]
  IN IF chain = <<>> THEN <<cluster>> ELSE chain

\* The chain of an address once its cluster exists: a new one goes in front.
Created(address) ==
  LET chain == hashtable_[HashInt(address \div kClusterSize)]
      cluster == [id |-> address \div kClusterSize,
                  blocks |-> [b \in 0..(kClusterBlocks - 1) |-> <<>>]]
  IN IF FindCluster(address) = 0 THEN <<cluster>> \o chain ELSE chain

Block(address) ==
  LET c == FindCluster(address)
  IN IF c = 0 THEN <<>>
     ELSE hashtable_[HashInt(address \div kClusterSize)][c].blocks[BlockID(address)]

WithKey(list, key) == {i \in DOMAIN list : list[i].key = key}

FindMutable(key) ==
  LET at == WithKey(Block(key), key)
  IN IF at = {} THEN NoEntry ELSE Block(key)[CHOOSE i \in at : \A j \in at : i <= j]

-----------------------------------------------------------------------------
\* The keys of the map are the starts of objects that do not overlap.
Fits(key, size) ==
  /\ key + size <= AmSpace
  /\ \A k \in DOMAIN amRanges \ {key} : k + amRanges[k] <= key \/ key + size <= k
  /\ \A k \in DOMAIN amRanges \ {key} : k # key + size \/ size > 0

Insert(key, size) ==
  LET chain == Created(key)
      h == HashInt(key \div kClusterSize)
      c == IF FindCluster(key) = 0 THEN 1 ELSE FindCluster(key)
      list == chain[c].blocks[BlockID(key)]
      at == WithKey(list, key)
      entry == [key |-> key, size |-> size]
      new == IF at # {} THEN [i \in DOMAIN list |-> IF i \in at THEN entry ELSE list[i]]
             ELSE <<entry>> \o list
  IN /\ Fits(key, size) /\ Cardinality(DOMAIN amRanges \cup {key}) <= AmMaxObjects
     /\ hashtable_' = [hashtable_ EXCEPT ![h] =
                         [chain EXCEPT ![c].blocks[BlockID(key)] = new]]
     /\ IF at # {} THEN UNCHANGED <<free_, allocated_>>
        ELSE IF free_ = 0 THEN /\ free_' = ALLOC_COUNT - 1
                               /\ allocated_' = allocated_ + ALLOC_COUNT
        ELSE free_' = free_ - 1 /\ UNCHANGED allocated_
     /\ amRanges' = [k \in DOMAIN amRanges \cup {key} |->
                       IF k = key THEN size ELSE amRanges[k]]

FindAndRemove(key) ==
  LET list == Block(key)
      at == WithKey(list, key)
      h == HashInt(key \div kClusterSize)
  IN /\ IF at = {} THEN UNCHANGED <<hashtable_, free_>>
        ELSE /\ hashtable_' = [hashtable_ EXCEPT ![h][FindCluster(key)].blocks[BlockID(key)] =
                                 RemoveAt(list, CHOOSE i \in at : \A j \in at : i <= j)]
             /\ free_' = free_ + 1
     /\ amRanges' = [k \in DOMAIN amRanges \ {key} |-> amRanges[k]]
     /\ UNCHANGED allocated_

AmNext ==
  \/ \E key \in Addresses, size \in AmSizes : Insert(key, size)
  \/ \E key \in Addresses : FindAndRemove(key)

AmSpec == AmInit /\ [][AmNext]_amVars

-----------------------------------------------------------------------------
\* Where the search of FindInside goes after the block of num: the last address
\* of the block before it, or, from the first block of a cluster and from a
\* cluster that does not exist, of the cluster before it.
PreviousBlock(num) == (num \div kBlockSize) * kBlockSize - 1
PreviousCluster(num) == (num \div kClusterSize) * kClusterSize - 1

Previous(num) ==
  IF FindCluster(num) # 0 /\ BlockID(num) # 0 THEN PreviousBlock(num)
  ELSE PreviousCluster(num)

Covers(e, key) == e.key <= key /\ (e.key = key \/ key < e.key + e.size)

FindInside(max_size, key) ==
  LET search[num \in -1..(AmSpace - 1)] ==
        IF num < 0 THEN NoEntry
        ELSE LET list == Block(num)
                 hits == SelectSeq(list, LAMBDA e : Covers(e, key))
             IN IF hits # <<>> THEN hits[1]
                ELSE IF \E i \in DOMAIN list : list[i].key <= key THEN NoEntry
                ELSE IF key - Previous(num) > max_size THEN NoEntry
                ELSE search[Previous(num)]
  IN search[key]

-----------------------------------------------------------------------------
MaxSize == CHOOSE s \in AmSizes : \A t \in AmSizes : t <= s

\* FindMutable and FindInside find, across blocks, clusters and hash chains,
\* exactly the object that starts at, or that covers, an address: the bound on
\* the walk backwards never stops it before the object that covers the address.
LookupsExact ==
  \A key \in Addresses :
    /\ FindMutable(key).size = IF key \in DOMAIN amRanges THEN amRanges[key] ELSE -1
    /\ LET over == {k \in DOMAIN amRanges : k = key \/ (k <= key /\ key < k + amRanges[k])}
           found == FindInside(MaxSize, key)
       IN IF over = {} THEN found = NoEntry ELSE found.key \in over

\* No entry is lost or duplicated: the arrays obtained from the allocator hold
\* the free list and the entries of the lists, one for every object.
EntriesAccounted ==
  /\ allocated_ = free_ + Cardinality(DOMAIN amRanges)
  /\ \A h \in DOMAIN hashtable_ : \A i, j \in DOMAIN hashtable_[h] :
       hashtable_[h][i].id = hashtable_[h][j].id => i = j
=============================================================================
