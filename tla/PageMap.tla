------------------------------ MODULE PageMap ------------------------------
(***************************************************************************)
(* The maps from page numbers to spans (pagemap.h) and the cache of size   *)
(* classes in front of them (packed-cache-inl.h).                          *)
(*                                                                         *)
(* The page heap writes the radix tree under its lock, pointer by pointer; *)
(* free() and realloc() read it with get() and no lock.  A tree is the set *)
(* of the second-level nodes it has and a function from the paths of its   *)
(* leaves to their arrays.  The flat map and the two-level tree have their *)
(* upper levels from the start.                                            *)
(***************************************************************************)
EXTENDS Integers, FiniteSets, FiniteSetsExt, Sequences, TLC

CONSTANTS
    PmKinds,       \* the maps to consider
    PmNull,        \* the NULL pointer
    BITS,          \* bits of a page number
    ROOT_BITS,     \* bits the two-level tree consumes in its root
    NumberBits,    \* bits of a Number
    PmStarts,      \* first pages of the regions the system grants
    PmLengths,     \* lengths of those regions, in pages
    PmSpans,       \* span descriptors
    PmBudgets,     \* how many nodes the metadata allocator can still supply
    PmMaxOps,      \* bound on the operations of the lock's holder
    PmMaxReads,    \* bound on the lock-free reads
    kKeybits,      \* bits of a cached key
    kHashbits,     \* bits of the cache's index
    kValuebits,    \* bits of a cached size class
    NarrowTbits,   \* bits of an entry that cannot hold a whole key
    WideTbits      \* bits of an entry that can

VARIABLES
    pmKind,        \* which map this is
    pmNodes,       \* second-level nodes in the tree
    pmLeaf,        \* path of each leaf in the tree |-> its array
    pmBudget,      \* allocations left
    pmWriter,      \* what the lock's holder is doing
    pmReader,      \* the get() in flight
    pmEnsured,     \* page numbers a successful Ensure has covered
    pmMapped,      \* page number |-> the span last set for it
    pmCache,       \* array_ of the PackedCache
    pmKnown,       \* key |-> the value last put, and whether its slot is still its own
    pmOps, pmReads

pmVars == <<pmKind, pmNodes, pmLeaf, pmBudget, pmWriter, pmReader, pmEnsured,
            pmMapped, pmCache, pmKnown, pmOps, pmReads>>

Trees == {"PageMap1", "PageMap2", "PageMap3"}
Caches == {"whole", "packed"}

ASSUME PageMapAssumption ==
    /\ PmKinds \subseteq Trees \cup Caches
    /\ ROOT_BITS < BITS /\ BITS < NumberBits
    /\ kHashbits >= kValuebits /\ kHashbits <= kKeybits
    /\ kKeybits - kHashbits + kValuebits <= NarrowTbits
    /\ NarrowTbits < kKeybits + kValuebits /\ kKeybits + kValuebits <= WideTbits

Keys == 0 .. (2 ^ BITS - 1)
Number(n) == n % (2 ^ NumberBits)

-----------------------------------------------------------------------------
(* The shape of the three trees.                                           *)

\* (BITS + 2) / 3, rounded up
INTERIOR_BITS == (BITS + 2) \div 3

LEAF_BITS == CASE pmKind = "PageMap1" -> BITS
               [] pmKind = "PageMap2" -> BITS - ROOT_BITS
               [] OTHER -> BITS - 2 * INTERIOR_BITS
LEAF_LENGTH == 2 ^ LEAF_BITS

\* How many bits the level above the leaves consumes
UpperBits == CASE pmKind = "PageMap1" -> 0
               [] pmKind = "PageMap2" -> ROOT_BITS
               [] OTHER -> INTERIOR_BITS

\* i1 and i2: which leaf holds page number k.  The flat map and the two-level
\* tree have a single upper node, 0.
Path(k) ==
    LET leaves == k \div LEAF_LENGTH
    IN  <<leaves \div (2 ^ UpperBits), leaves % (2 ^ UpperBits)>>

\* Where in its leaf page number k is
Slot(k) == k % LEAF_LENGTH

\* The upper nodes there is room for
UpperNodes == IF pmKind = "PageMap3" THEN 2 ^ INTERIOR_BITS ELSE 1

\* (*allocator_)(sizeof(Leaf)) and the memset that follows
NewLeaf == [i \in 0 .. LEAF_LENGTH - 1 |-> PmNull]

\* get, as the holder of the lock sees it
PmGet(k) ==
    IF k >= 2 ^ BITS \/ Path(k) \notin DOMAIN pmLeaf
    THEN PmNull
    ELSE pmLeaf[Path(k)][Slot(k)]

\* Next: the first non-NULL pointer at page number k0 or above it
PmNext(k0) ==
    LET From[k \in 0 .. 2 ^ (BITS + 1)] ==
          IF k >= 2 ^ BITS THEN PmNull
          ELSE IF Path(k)[1] \notin pmNodes
          THEN From[(Path(k)[1] + 1) * (LEAF_LENGTH * 2 ^ UpperBits)]
          ELSE LET i1 == k \div LEAF_LENGTH
                   hits == IF Path(k) \notin DOMAIN pmLeaf THEN {}
                           ELSE {i \in Slot(k) .. LEAF_LENGTH - 1 :
                                    pmLeaf[Path(k)][i] # PmNull}
               IN  IF hits # {} THEN pmLeaf[Path(k)][Min(hits)]
                   ELSE From[(i1 + 1) * LEAF_LENGTH]
    IN  From[k0]

-----------------------------------------------------------------------------
(* The lock's holder: Ensure one leaf at a time, then set.                  *)

PmIdle == [pc |-> "idle"]

\* PageHeap::GrowHeap calls Ensure(p-1, ask+2) for a region of ask pages at p.
\* The flat map only compares; the trees start their loop.
PmGrowHeap(p, ask, s) ==
    LET start == p - 1
        n == ask + 2
        last == Number(start + n - 1)
        job == [p |-> p, ask |-> ask, span |-> s, key |-> start, last |-> last]
    IN  /\ pmKind \in Trees
        /\ pmWriter.pc = "idle"
        /\ pmOps < PmMaxOps
        /\ pmOps' = pmOps + 1
        /\ pmWriter' = IF pmKind = "PageMap1"
                       THEN IF n <= Number(2 ^ BITS - start)
                            THEN job @@ [pc |-> "ensured"] ELSE PmIdle
                       ELSE job @@ [pc |-> "ensure"]
        /\ UNCHANGED <<pmKind, pmNodes, pmLeaf, pmBudget, pmReader, pmEnsured,
                       pmMapped, pmCache, pmKnown, pmReads>>

\* One turn of Ensure's loop: give up past the last upper node or when the
\* allocator does, link a node or a leaf where one is missing, go on past
\* whatever the leaf covers.
EnsureStep ==
    LET key == pmWriter.key
        path == Path(key)
        full == path[1] >= UpperNodes
        missing == path[1] \notin pmNodes \/ path \notin DOMAIN pmLeaf
    IN  /\ pmWriter.pc = "ensure"
        /\ \/ /\ key > pmWriter.last
              /\ pmWriter' = [pmWriter EXCEPT !.pc = "ensured"]
              /\ UNCHANGED <<pmNodes, pmLeaf, pmBudget>>
           \/ /\ key <= pmWriter.last
              /\ full \/ (missing /\ pmBudget = 0)
              /\ pmWriter' = PmIdle
              /\ UNCHANGED <<pmNodes, pmLeaf, pmBudget>>
           \/ /\ key <= pmWriter.last /\ ~full /\ missing /\ pmBudget > 0
              /\ pmBudget' = pmBudget - 1
              /\ IF path[1] \notin pmNodes
                 THEN /\ pmNodes' = pmNodes \cup {path[1]}
                      /\ UNCHANGED pmLeaf
                 ELSE /\ pmLeaf' = pmLeaf @@ (path :> NewLeaf)
                      /\ UNCHANGED pmNodes
              /\ UNCHANGED pmWriter
           \/ /\ key <= pmWriter.last /\ ~full /\ ~missing
              /\ pmWriter' = [pmWriter EXCEPT
                                !.key = ((key \div LEAF_LENGTH) + 1) * LEAF_LENGTH]
              /\ UNCHANGED <<pmNodes, pmLeaf, pmBudget>>
        /\ UNCHANGED <<pmKind, pmReader, pmEnsured, pmMapped, pmCache, pmKnown,
                       pmOps, pmReads>>

\* Ensure has returned true: the region gets its span
EnsuredPages ==
    /\ pmWriter.pc = "ensured"
    /\ pmEnsured' = pmEnsured \cup ((pmWriter.p - 1) .. (pmWriter.p + pmWriter.ask))
    /\ pmWriter' = [pc |-> "set", span |-> pmWriter.span,
                    todo |-> IF pmWriter.ask > 1
                             THEN <<pmWriter.p, pmWriter.p + pmWriter.ask - 1>>
                             ELSE <<pmWriter.p>>]
    /\ UNCHANGED <<pmKind, pmNodes, pmLeaf, pmBudget, pmReader, pmMapped,
                   pmCache, pmKnown, pmOps, pmReads>>

\* What a reader of key k has been able to see, once v is there too
Witnessed(k, v) ==
    IF pmReader.pc \in {"node", "leaf", "value"} /\ pmReader.k = k
    THEN [pmReader EXCEPT !.seen = @ \cup {v}]
    ELSE pmReader

\* set: the store goes through the pointers without looking at them; a path
\* that is not there would be a wild store.
SetStep ==
    LET k == Head(pmWriter.todo)
        v == pmWriter.span
    IN  /\ pmWriter.pc = "set"
        /\ IF Path(k) \in DOMAIN pmLeaf /\ k < 2 ^ BITS
           THEN /\ pmLeaf' = [pmLeaf EXCEPT ![Path(k)][Slot(k)] = v]
                /\ pmMapped' = [pmMapped EXCEPT ![k] = v]
                /\ pmReader' = Witnessed(k, v)
                /\ pmWriter' = IF Len(pmWriter.todo) = 1 THEN PmIdle
                               ELSE [pmWriter EXCEPT !.todo = Tail(@)]
           ELSE /\ pmWriter' = [pc |-> "wild"]
                /\ UNCHANGED <<pmLeaf, pmMapped, pmReader>>
        /\ UNCHANGED <<pmKind, pmNodes, pmBudget, pmEnsured, pmCache, pmKnown,
                       pmOps, pmReads>>

\* RecordSpan for a span carved, split or merged out of a region in the map
PmRecordSpan(first, last, s) ==
    /\ pmKind \in Trees
    /\ pmWriter.pc = "idle"
    /\ pmOps < PmMaxOps
    /\ first <= last /\ first .. last \subseteq pmEnsured
    /\ \A k \in first .. last : k - 1 \in pmEnsured /\ k + 1 \in pmEnsured
    /\ pmWriter' = [pc |-> "set", span |-> s,
                    todo |-> IF first < last THEN <<first, last>> ELSE <<first>>]
    /\ pmOps' = pmOps + 1
    /\ UNCHANGED <<pmKind, pmNodes, pmLeaf, pmBudget, pmReader, pmEnsured,
                   pmMapped, pmCache, pmKnown, pmReads>>

-----------------------------------------------------------------------------
(* get without the lock: one load per level.                               *)

NoRead == [pc |-> "none"]

GetCall(k) ==
    /\ pmKind \in Trees
    /\ pmReader.pc \in {"none", "done"}
    /\ pmReads < PmMaxReads
    /\ pmReads' = pmReads + 1
    /\ pmReader' = IF k >= 2 ^ BITS
                   THEN [pc |-> "done", k |-> k, seen |-> {PmNull}, got |-> PmNull]
                   ELSE [pc |-> "node", k |-> k, seen |-> {pmMapped[k]}]
    /\ UNCHANGED <<pmKind, pmNodes, pmLeaf, pmBudget, pmWriter, pmEnsured,
                   pmMapped, pmCache, pmKnown, pmOps>>

GetStep ==
    LET k == pmReader.k
        Returns(v) == [pc |-> "done", k |-> k, seen |-> pmReader.seen, got |-> v]
    IN  /\ \/ /\ pmReader.pc = "node"
              /\ pmReader' = IF Path(k)[1] \in pmNodes
                             THEN [pmReader EXCEPT !.pc = "leaf"]
                             ELSE Returns(PmNull)
           \/ /\ pmReader.pc = "leaf"
              /\ pmReader' = IF Path(k) \in DOMAIN pmLeaf
                             THEN [pmReader EXCEPT !.pc = "value"]
                             ELSE Returns(PmNull)
           \/ /\ pmReader.pc = "value"
              /\ pmReader' = Returns(pmLeaf[Path(k)][Slot(k)])
        /\ UNCHANGED <<pmKind, pmNodes, pmLeaf, pmBudget, pmWriter, pmEnsured,
                       pmMapped, pmCache, pmKnown, pmOps, pmReads>>

-----------------------------------------------------------------------------
(* PackedCache                                                             *)

kTbits == IF pmKind = "whole" THEN WideTbits ELSE NarrowTbits
kUseWholeKeys == kKeybits + kValuebits <= kTbits
kUpperbits == IF kUseWholeKeys THEN kKeybits ELSE kKeybits - kHashbits

\* x & (N_ONES_(n) << shift)
Field(x, n, shift) == ((x \div 2 ^ shift) % 2 ^ n) * 2 ^ shift

Hash(key) == key % 2 ^ kHashbits

\* A bug: a narrow entry keeps the low bits of the key, the ones its place in
\* the array already tells.
KeyToUpperLow(k) ==
    IF kUseWholeKeys
    THEN (k * 2 ^ kValuebits) % 2 ^ kTbits
    ELSE Field(k * 2 ^ kValuebits, kUpperbits, kValuebits)

KeyToUpper(k) ==
    IF kUseWholeKeys
    THEN (k * 2 ^ kValuebits) % 2 ^ kTbits
    ELSE Field((k \div 2 ^ (kHashbits - kValuebits)) % 2 ^ kTbits,
               kUpperbits, kValuebits)

EntryToValue(t) == t % 2 ^ kValuebits

KeyMatch(entry, key) ==
    IF kUseWholeKeys
    THEN entry \div 2 ^ kValuebits = key
    ELSE Field(KeyToUpper(key), kUpperbits, kValuebits)
           = Field(entry, kUpperbits, kValuebits)

GetOrDefault(key, default_value) ==
    LET entry == pmCache[Hash(key)]
    IN  IF KeyMatch(entry, key) THEN EntryToValue(entry) ELSE default_value

\* Clear, as the constructor calls it
Cleared(value) ==
    [i \in 0 .. 2 ^ kHashbits - 1 |->
        IF kUseWholeKeys THEN value + KeyToUpper(i) ELSE value]

CacheKeys == 0 .. 2 ^ kKeybits - 1
CacheValues == 0 .. 2 ^ kValuebits - 1

\* Put, by any thread, with no lock: one store
Put(key, value) ==
    /\ pmKind \in Caches
    /\ pmOps < PmMaxOps
    /\ pmOps' = pmOps + 1
    /\ pmCache' = [pmCache EXCEPT ![Hash(key)] = KeyToUpper(key) + value]
    /\ pmKnown' = [k \in CacheKeys |->
                     IF k = key THEN value
                     ELSE IF Hash(k) = Hash(key) THEN 0 ELSE pmKnown[k]]
    /\ UNCHANGED <<pmKind, pmNodes, pmLeaf, pmBudget, pmWriter, pmReader,
                   pmEnsured, pmMapped, pmReads>>

-----------------------------------------------------------------------------

PageMapInit ==
    /\ pmKind \in PmKinds
    /\ pmNodes = IF pmKind \in {"PageMap1", "PageMap2"} THEN {0} ELSE {}
    /\ pmLeaf = IF pmKind = "PageMap1" THEN <<0, 0>> :> NewLeaf ELSE <<>>
    /\ pmBudget \in IF pmKind \in {"PageMap2", "PageMap3"} THEN PmBudgets ELSE {0}
    /\ pmWriter = PmIdle
    /\ pmReader = NoRead
    /\ pmEnsured = {}
    /\ pmMapped = [k \in Keys |-> PmNull]
    /\ pmCache = IF pmKind \in Caches THEN Cleared(0) ELSE <<>>
    /\ pmKnown = IF pmKind \in Caches THEN [k \in CacheKeys |-> 0] ELSE <<>>
    /\ pmOps = 0 /\ pmReads = 0

PageMapNext ==
    \/ \E p \in PmStarts, ask \in PmLengths, s \in PmSpans : PmGrowHeap(p, ask, s)
    \/ EnsureStep \/ EnsuredPages \/ SetStep
    \/ \E first, last \in pmEnsured, s \in PmSpans : PmRecordSpan(first, last, s)
    \/ \E k \in pmEnsured \cup {2 ^ BITS} : GetCall(k)
    \/ GetStep
    \/ \E k \in CacheKeys, v \in CacheValues : Put(k, v)

PageMapSpec == PageMapInit /\ [][PageMapNext]_pmVars

-----------------------------------------------------------------------------

\* GetDescriptor's promise (page_heap.h:133-138): a get() that takes no lock
\* returns a value its page had at some moment of the call, however the writer
\* interleaves; the lock's holder reads exactly what was last set, and Next,
\* which GetNextRange walks the heap with, finds the first page that has a span.
\* A page Ensure has returned true for can be stored to: no store goes through
\* a missing pointer, at the last page of the address space either.
LookupsLinearizable ==
    pmKind \in Trees =>
      /\ pmReader.pc = "done" => pmReader.got \in pmReader.seen
      /\ \A k \in Keys : PmGet(k) = pmMapped[k]
      /\ \A k \in Keys :
           LET set == {j \in Keys : j >= k /\ pmMapped[j] # PmNull}
           IN  PmNext(k) = IF set = {} THEN PmNull ELSE pmMapped[Min(set)]
      /\ pmWriter.pc # "wild"
      /\ \A k \in pmEnsured : Path(k) \in DOMAIN pmLeaf

\* GetSizeClassIfCached's comment (page_heap.h:185-189), "0 if we have no
\* information, or else the correct sizeclass": a key whose entry has not been
\* taken by another key reads back the value last put, any other key reads 0,
\* whether an entry holds whole keys or only their upper bits.
CacheExact ==
    pmKind \in Caches =>
      \A k \in CacheKeys : GetOrDefault(k, 0) = pmKnown[k]

=============================================================================
