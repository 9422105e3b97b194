-------------------------- MODULE ThreadCacheLists --------------------------
(***************************************************************************)
(* The free lists of one thread cache (thread_cache.h, thread_cache.cc):   *)
(* their lengths, low-water marks and adaptive maximum lengths, and the    *)
(* bytes in the cache.  The lists are private to their thread; the central *)
(* free list may return fewer objects than asked for, and other threads    *)
(* change max_size at any time.                                            *)
(***************************************************************************)
EXTENDS Integers, FiniteSets, FiniteSetsExt

CONSTANTS
  Class,
  ClassSize,                    \* [Class -> ByteSizeForClass]
  Batch,                        \* [Class -> num_objects_to_move]
  kMaxDynamicFreeListLength,
  kMaxOverages,
  MaxSizes,                     \* the values max_size_ takes
  Supply                        \* most objects that are out of the spans

ASSUME ListsAssumption ==
  /\ ClassSize \in [Class -> Nat \ {0}] /\ Batch \in [Class -> Nat \ {0}]
  /\ {kMaxDynamicFreeListLength, kMaxOverages, Supply} \subseteq Nat
  /\ \A c \in Class : Batch[c] <= kMaxDynamicFreeListLength
  /\ MaxSizes \subseteq Nat /\ MaxSizes # {}

VARIABLES
  list,       \* [Class -> [length, lowater, max_length, length_overages]]
  size,       \* size_
  max_size,   \* max_size_
  inuse,      \* [Class -> objects of the program]
  cleaned     \* Cleanup has run, and the cache is about to be deleted

listVars == <<list, size, max_size, inuse, cleaned>>

LeastOf(a, b) == IF a < b THEN a ELSE b
MostOf(a, b) == IF a > b THEN a ELSE b
SumOver(f) == MapThenSumSet(LAMBDA c : f[c], DOMAIN f)

NewList == [length |-> 0, lowater |-> 0, max_length |-> 1, length_overages |-> 0]

ListsInit ==
  /\ list = [c \in Class |-> NewList]
  /\ size = 0
  /\ max_size \in MaxSizes
  /\ inuse = [c \in Class |-> 0]
  /\ cleaned = FALSE

\* Mutant: the mark is left behind.
PopNoMark(l, n) == [l EXCEPT !.length = @ - n]

\* FreeList::Pop, and PopRange of n objects.
PopRange(l, n) ==
  [l EXCEPT !.length = @ - n, !.lowater = LeastOf(@, l.length - n)]

\* The state of the cache in the middle of an operation.
Cache == [list |-> list, size |-> size]

\* ReleaseToCentralCache of n objects, at most the whole list.
ReleaseToCentralCache(k, c, n) ==
  LET N == LeastOf(n, k.list[c].length)
  IN  [list |-> [k.list EXCEPT ![c] = PopRange(@, N)],
       size |-> k.size - N * ClassSize[c]]

\* max_length after FetchFromCentralCache.
Grown(m, batch) ==
  LET new == LeastOf(m + batch, kMaxDynamicFreeListLength)
  IN  IF m < batch THEN m + 1 ELSE new - (new % batch)

\* ListTooLong.
ListTooLong(k, c) ==
  LET r == ReleaseToCentralCache(k, c, Batch[c])
      l == r.list[c]
      new == IF l.max_length < Batch[c] THEN [l EXCEPT !.max_length = @ + 1]
             ELSE IF l.max_length = Batch[c] THEN l
             ELSE IF l.length_overages + 1 > kMaxOverages
             THEN [l EXCEPT !.max_length = @ - Batch[c], !.length_overages = 0]
             ELSE [l EXCEPT !.length_overages = @ + 1]
  IN  [r EXCEPT !.list[c] = new]

\* Scavenge of one list: half of the low-water mark goes.
ScavengeList(c, k) ==
  LET low == k.list[c].lowater
      r == ReleaseToCentralCache(k, c, IF low > 1 THEN low \div 2 ELSE 1)
      m == r.list[c].max_length
      swept == IF low = 0 THEN k
               ELSE [r EXCEPT !.list[c].max_length =
                       IF m > Batch[c] THEN MostOf(m - Batch[c], Batch[c]) ELSE m]
  IN  [swept EXCEPT !.list[c].lowater = swept.list[c].length]

Scavenge(k) == FoldSet(ScavengeList, k, Class)

-----------------------------------------------------------------------------
\* ThreadCache::Allocate from a list that is not empty.
Allocate(c) ==
  /\ ~ cleaned
  /\ list[c].length > 0
  /\ list' = [list EXCEPT ![c] = PopRange(@, 1)]
  /\ size' = size - ClassSize[c]
  /\ inuse' = [inuse EXCEPT ![c] = @ + 1]
  /\ UNCHANGED <<max_size, cleaned>>

\* FetchFromCentralCache: RemoveRange returns some of the objects, or none.
FetchFromCentralCache(c) ==
  LET l == list[c]
      away == SumOver(inuse) + SumOver([d \in Class |-> list[d].length])
  IN  /\ ~ cleaned
      /\ l.length = 0
      /\ \E got \in 0 .. LeastOf(LeastOf(l.max_length, Batch[c]), Supply - away) :
           LET more == MostOf(got - 1, 0)
           IN  /\ list' = [list EXCEPT ![c].length = more,
                                       ![c].max_length = Grown(@, Batch[c])]
               /\ size' = size + ClassSize[c] * more
               /\ inuse' = [inuse EXCEPT ![c] = @ + LeastOf(got, 1)]
      /\ UNCHANGED <<max_size, cleaned>>

\* ThreadCache::Deallocate.
Deallocate(c) ==
  LET pushed == [list |-> [list EXCEPT ![c].length = @ + 1],
                 size |-> size + ClassSize[c]]
      l == pushed.list[c]
      cut == IF l.length > l.max_length THEN ListTooLong(pushed, c) ELSE pushed
      new == IF cut.size >= max_size THEN Scavenge(cut) ELSE cut
  IN  /\ ~ cleaned
      /\ inuse[c] > 0
      /\ inuse' = [inuse EXCEPT ![c] = @ - 1]
      /\ list' = new.list
      /\ size' = new.size
      /\ UNCHANGED <<max_size, cleaned>>

\* ThreadCache::Cleanup: every list is released whole.
Cleanup ==
  LET ReleaseAll(c, k) == ReleaseToCentralCache(k, c, k.list[c].length)
      new == FoldSet(ReleaseAll, Cache, Class)
  IN  /\ ~ cleaned
      /\ list' = new.list
      /\ size' = new.size
      /\ cleaned' = TRUE
      /\ UNCHANGED <<max_size, inuse>>

\* The cache is deleted; the next one of the thread starts with Init.
NewCache ==
  /\ cleaned
  /\ list' = [c \in Class |-> NewList]
  /\ size' = 0
  /\ cleaned' = FALSE
  /\ UNCHANGED <<max_size, inuse>>

\* This thread's limit is raised, or lowered by others.
LimitChanges ==
  /\ max_size' \in MaxSizes \ {max_size}
  /\ UNCHANGED <<list, size, inuse, cleaned>>

ListsNext ==
  \/ \E c \in Class : Allocate(c)
  \/ \E c \in Class : FetchFromCentralCache(c)
  \/ \E c \in Class : Deallocate(c)
  \/ Cleanup
  \/ NewCache
  \/ LimitChanges

ListsSpec == ListsInit /\ [][ListsNext]_listVars

-----------------------------------------------------------------------------
(* Properties.                                                             *)

\* Type invariant: no unsigned count goes below zero.
ListsTypeOK ==
  /\ list \in [Class -> [length : Nat, lowater : Nat, max_length : Nat \ {0},
                         length_overages : 0 .. kMaxOverages]]
  /\ size \in Nat /\ max_size \in MaxSizes /\ inuse \in [Class -> Nat]
  /\ cleaned \in BOOLEAN

\* size_ is the bytes on the lists, whatever part of a list each release gives
\* away: Deallocate decides by it when to scavenge.  Cleanup leaves nothing.
SizeExact ==
  /\ size = SumOver([c \in Class |-> list[c].length * ClassSize[c]])
  /\ cleaned => size = 0

\* The low-water mark is one: Scavenge never drops more than the list has.
LowWaterMark == \A c \in Class : list[c].lowater <= list[c].length

\* "The list's max_length must always be a multiple of batch_size" once the
\* slow start is over.
MaxLengthMultiple ==
  \A c \in Class : LET m == list[c].max_length
                   IN  m < Batch[c] \/ m % Batch[c] = 0

\* "Don't let the list get too long": although max_length is cut below the
\* length of a list, and the length is raised before it is compared, no list
\* outgrows kMaxDynamicFreeListLength between two operations.
ListBounded ==
  \A c \in Class : /\ list[c].length <= kMaxDynamicFreeListLength
                   /\ list[c].max_length <= kMaxDynamicFreeListLength

=============================================================================
