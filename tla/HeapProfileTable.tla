-------------------------- MODULE HeapProfileTable --------------------------
(***************************************************************************)
(* HeapProfileTable: what it records of every live object and of every     *)
(* call stack, as operators on a table.  A table has the record of every   *)
(* live object (map), the statistics of every call stack that has a bucket *)
(* (buckets) and the totals (total).  The map is AddressMap's; buckets are *)
(* found by their whole stack, so two stacks with one hash stay apart.     *)
(***************************************************************************)
EXTENDS Integers, Sequences, SequencesExt, FiniteSets, FiniteSetsExt, Functions

CONSTANTS
  HtStacks,   \* the call stacks
  DepthOfStack, \* stack -> its depth
  HtBuffer,   \* bytes of the buffer a profile is written to
  HtMapsLens, \* lengths of the text of /proc/self/maps
  HtHead, HtFrame \* length of the head of a bucket's line, and of a frame in it

NoStats == [allocs |-> 0, alloc_size |-> 0, frees |-> 0, free_size |-> 0]
NewTable == [buckets |-> << >>, total |-> NoStats, map |-> << >>]

InUseBytes(stats) == stats.alloc_size - stats.free_size

GetBucket(table, stack) ==
  IF stack \in DOMAIN table.buckets THEN table.buckets[stack] ELSE NoStats

CountAlloc(stats, bytes) ==
  [stats EXCEPT !.allocs = @ + 1, !.alloc_size = @ + bytes]
CountFree(stats, bytes) ==
  [stats EXCEPT !.frees = @ + 1, !.free_size = @ + bytes]

SetAt(f, x, v) == [y \in DOMAIN f \cup {x} |-> IF y = x THEN v ELSE f[y]]
RemoveKey(f, x) == [y \in DOMAIN f \ {x} |-> f[y]]

TableRecordAlloc(table, ptr, bytes, stack) ==
  [buckets |-> SetAt(table.buckets, stack, CountAlloc(GetBucket(table, stack), bytes)),
   total |-> CountAlloc(table.total, bytes),
   map |-> SetAt(table.map, ptr,
                 [bytes |-> bytes, stack |-> stack, live |-> FALSE, ignore |-> FALSE])]

TableRecordFree(table, ptr) ==
  IF ptr \notin DOMAIN table.map THEN table
  ELSE LET v == table.map[ptr]
       IN [buckets |-> SetAt(table.buckets, v.stack, CountFree(GetBucket(table, v.stack), v.bytes)),
           total |-> CountFree(table.total, v.bytes),
           map |-> RemoveKey(table.map, ptr)]

-----------------------------------------------------------------------------
\* The marks of the leak checker.  MarkAsLive answers whether it can set the mark.
MayMarkAsLive(table, ptr) == ptr \in DOMAIN table.map /\ ~table.map[ptr].live
MarkAsIgnored(table, ptr) ==
  IF ptr \in DOMAIN table.map THEN [table EXCEPT !.map[ptr].ignore = TRUE] ELSE table

\* A snapshot is the map of the objects in it; TakeSnapshot copies every one.
TakeSnapshot(table) == table.map

\* The objects not marked live and not in the snapshot base.  The marks are
\* cleared on the way.
NonLive(table, base) == {p \in DOMAIN table.map : ~table.map[p].live /\ p \notin base}
NonLiveSnapshot(table, base) ==
  [p \in NonLive(table, base) |-> table.map[p]]
ClearLive(table) ==
  [table EXCEPT !.map = [p \in DOMAIN @ |-> [@[p] EXCEPT !.live = FALSE]]]

-----------------------------------------------------------------------------
\* The lists MakeSortedBucketList may make: sort() leaves ties in any order.
MakeSortedBucketList(table) ==
  {l \in SetToSeqs(DOMAIN table.buckets) :
     \A i, j \in DOMAIN l : i < j =>
       InUseBytes(table.buckets[l[i]]) >= InUseBytes(table.buckets[l[j]])}

\* What UnparseBucket appends piece by piece: the head of the line, a piece per
\* frame, the end of the line.  It gives up at the first piece that snprintf
\* could not write whole with its terminating zero, and keeps those before it.
UnparseBucket(out, size, stack, depth) ==
  LET pieces == <<HtHead>> \o [d \in 1..depth |-> HtFrame] \o <<1>>
      ends == [i \in DOMAIN pieces |->
                 out.len + FoldLeft(LAMBDA a, b : a + b, 0, SubSeq(pieces, 1, i))]
      fits == Cardinality({i \in DOMAIN pieces : \A j \in 1..i : ends[j] < size})
  IN IF fits = 0 THEN out
     ELSE [len |-> ends[fits],
           lines |-> Append(out.lines, [stack |-> stack, whole |-> fits = Len(pieces)])]

\* The buffer of a profile: a header, the line of the totals, a line per bucket
\* and the maps, which are written first and moved to the end.
FillOrderedProfile(table, list, maps) ==
  LET size == HtBuffer - maps
      total == UnparseBucket([len |-> 1, lines |-> <<>>], size, "total", 0)
  IN IF maps >= HtBuffer \/ 1 >= size THEN [len |-> 0, lines |-> <<>>]
     ELSE FoldLeft(LAMBDA out, stack : UnparseBucket(out, size, stack, DepthOfStack[stack]),
                   total, list)
=============================================================================
