------------------------------ MODULE RegionMap ------------------------------
(***************************************************************************)
(* MemoryRegionMap: the set of regions obtained with mmap, mremap and      *)
(* sbrk, kept by the hooks of those calls, and the buckets that add up     *)
(* what every call stack obtained and gave back.  Recording allocates, the *)
(* allocation may map pages itself, and those calls reach the same hooks.  *)
(* What a thread does under lock_ is one step; between the kernel's work   *)
(* and the hook, and around every step of Lock, other threads run.  The    *)
(* calls before the first Init and after the last Shutdown reach no hook   *)
(* and are left out.                                                       *)
(***************************************************************************)
EXTENDS Integers, Sequences, FiniteSets, FiniteSetsExt, SequencesExt

CONSTANTS
  RmThreads,
  RmUnits,      \* pages of the address space
  RmArenaPage,  \* the page LowLevelAlloc maps for its arena, when it grows
  RmMaxCalls    \* bound on the hooked calls

ASSUME RegionMapAssumption ==
  RmUnits \in Nat /\ RmMaxCalls \in Nat /\ RmArenaPage \in 0..(RmUnits - 1)

VARIABLES
  rmMapped,     \* the pages mapped since the first Init, as the kernel has them
  regions_,     \* set of regions; NullSet before the first insertion
  saved_regions, recursive_insert,
  bucket_table_,    \* key -> bucket, or NullTable
  saved_buckets_,   \* keys of the buckets that live in the static array
  client_count_,
  lockOwner,    \* who holds lock_
  lock_owner_tid_, recursion_count_,
  rmPc, rmCall, \* per thread: its step, and the call it is in
  rmCalls, rmRaced, rmCrashed

rmVars == <<rmMapped, regions_, saved_regions, recursive_insert, bucket_table_,
            saved_buckets_, client_count_, lockOwner, lock_owner_tid_,
            recursion_count_, rmPc, rmCall, rmCalls, rmRaced, rmCrashed>>

NullSet == {[null |-> TRUE]}
NullTable == [k \in {"null"} |-> 0]
EmptyTable == [k \in {} |-> 0]
Nobody == "nobody"

\* The call stacks the buckets tell apart: one obtained with the unwinder, and
\* the empty one of a region recorded with the lock held.  (The table hashes
\* its keys; the stacks here have slots of their own.)
Keys == {"none", "stack"}

RmRange(r) == r.start_addr .. (r.end_addr - 1)
RmSize(r) == r.end_addr - r.start_addr
NewRegion(s, e, key) == [start_addr |-> s, end_addr |-> e, key |-> key, is_stack |-> FALSE]
RmSpans == {[start_addr |-> s, end_addr |-> e] : s \in 0..(RmUnits - 1), e \in 1..RmUnits}
ValidSpans == {r \in RmSpans : r.start_addr < r.end_addr /\ RmArenaPage \notin RmRange(r)}

RegionMapInit ==
  /\ rmMapped = {} /\ regions_ = NullSet /\ saved_regions = <<>>
  /\ recursive_insert = FALSE
  /\ bucket_table_ = NullTable /\ saved_buckets_ = <<>>
  /\ client_count_ = 0
  /\ lockOwner = Nobody /\ lock_owner_tid_ = Nobody /\ recursion_count_ = 0
  /\ rmPc = [t \in RmThreads |-> "idle"]
  /\ rmCall = [t \in RmThreads |-> [op |-> "none"]]
  /\ rmCalls = 0 /\ rmRaced = FALSE /\ rmCrashed = FALSE

-----------------------------------------------------------------------------
(* The locked work, on a record of the locked state.                       *)

Locked == [regions |-> regions_, saved |-> saved_regions, rec |-> recursive_insert,
           table |-> bucket_table_, statics |-> saved_buckets_]

SetLocked(m) ==
  /\ regions_' = m.regions /\ saved_regions' = m.saved /\ recursive_insert' = m.rec
  /\ bucket_table_' = m.table /\ saved_buckets_' = m.statics

\* The first region of the set, in the order of the end addresses, that ends
\* at addr or after.
LowerBound(set, addr) ==
  LET after == {r \in set : r.end_addr >= addr}
  IN  {r \in after : \A q \in after : r.end_addr <= q.end_addr}

DoFindRegionLocked(set, addr) ==
  IF set = NullSet THEN {}
  ELSE {r \in LowerBound(set, addr) : addr \in RmRange(r)}

DoInsertRegionLocked(set, region) ==
  LET i == LowerBound(set, region.end_addr)
  IN  IF \E r \in i : r.start_addr <= region.start_addr \/ r.end_addr = region.end_addr
      THEN set
      ELSE set \cup {region}

\* HandleSavedRegionsLocked takes the saved regions from the end.
HandleSavedRegionsLocked(m) ==
  [m EXCEPT !.regions = FoldRight(LAMBDA r, s : DoInsertRegionLocked(s, r), m.saved, @),
            !.saved = <<>>]

\* GetBucket: a bucket created inside a recursive call is one of the static
\* ones.
GetRegionBucket(m, key) ==
  IF key \in DOMAIN m.table THEN m
  ELSE [m EXCEPT !.table = [k \in DOMAIN @ \cup {key} |->
                              IF k = key THEN [alloc_size |-> 0, free_size |-> 0] ELSE @[k]],
                 !.statics = IF m.rec THEN Append(@, key) ELSE @]

RecordRegionRemovalInBucket(m, key, size) ==
  IF m.table = NullTable THEN m
  ELSE [GetRegionBucket(m, key) EXCEPT !.table[key].free_size = @ + size]

\* RestoreSavedBucketsLocked finds in the table the static bucket itself and
\* adds it to itself.
RestoreSavedBucketsLocked(m) ==
  [m EXCEPT !.statics = <<>>,
            !.table = [k \in DOMAIN @ |->
                         IF Contains(m.statics, k)
                         THEN [alloc_size |-> 2 * @[k].alloc_size,
                               free_size |-> 2 * @[k].free_size]
                         ELSE @[k]]]

\* The bucket part of RecordRegionAddition.
CountAddition(m, key, size) ==
  IF m.table = NullTable THEN m
  ELSE LET b == [GetRegionBucket(m, key) EXCEPT !.table[key].alloc_size = @ + size]
       IN  IF m.rec THEN b ELSE RestoreSavedBucketsLocked(b)

\* An addition from inside the allocation of another: the region is saved.
NestedAddition(m, r) ==
  CountAddition([m EXCEPT !.saved = Append(@, r), !.rec = TRUE], r.key, RmSize(r))

\* A removal from inside an allocation drops the saved region it matches; the
\* set knows nothing of it yet.
NestedRemoval(m, r) ==
  LET same == SelectSeq(m.saved, LAMBDA s : RmRange(s) = RmRange(r))
      counted == FoldLeft(LAMBDA x, s : RecordRegionRemovalInBucket(x, s.key, RmSize(s)),
                          m, same)
  IN  [counted EXCEPT !.saved = SelectSeq(@, LAMBDA s : RmRange(s) # RmRange(r))]

\* What allocating a node or a bucket does: nothing, or LowLevelAlloc maps a
\* page for the arena ("keep"), or something below maps and unmaps one.
Allocates(m, nested) ==
  LET page == NewRegion(RmArenaPage, RmArenaPage + 1, "none")
  IN  CASE nested = "none" -> m
        [] nested = "keep" -> [NestedAddition(m, page) EXCEPT !.rec = m.rec]
        [] nested = "drop" -> [NestedRemoval(NestedAddition(m, page), page) EXCEPT !.rec = m.rec]

\* InsertRegionLocked outside a recursive call.
InsertRegionLocked(m, region, nested) ==
  LET set == IF m.regions = NullSet THEN HandleSavedRegionsLocked([m EXCEPT !.regions = {}])
                                    ELSE m
      in == [set EXCEPT !.regions = DoInsertRegionLocked(@, region)]
  IN  HandleSavedRegionsLocked(Allocates(in, nested))

\* RecordRegionAddition from Lock to Unlock.
Addition(m, region, nested) ==
  CountAddition(InsertRegionLocked(m, region, nested), region.key, RmSize(region))

\* One turn of the loop of RecordRegionRemoval: the region loses start..end.
CutOne(m, region, s, e) ==
  LET lost == RmRange(region) \cap (s .. (e - 1))
      counted == RecordRegionRemovalInBucket(m, region.key, Cardinality(lost))
      without == [counted EXCEPT !.regions = @ \ {region}]
      head == [region EXCEPT !.end_addr = s]
      tail == [region EXCEPT !.start_addr = e]
  IN  CASE lost = {} -> m
        [] lost = RmRange(region) -> without
        [] region.start_addr < s /\ e < region.end_addr ->
             [InsertRegionLocked(without, head, "none") EXCEPT !.regions = @ \cup {tail}]
        [] s <= region.start_addr -> [without EXCEPT !.regions = @ \cup {tail}]
        [] OTHER -> InsertRegionLocked(without, head, "none")

\* RecordRegionRemoval from Lock to Unlock, outside a recursive call.
Removal(m, s, e) ==
  IF m.regions = NullSet THEN m
  ELSE LET h == HandleSavedRegionsLocked(m)
           cut == {r \in h.regions : r.end_addr >= s /\ r.start_addr < e}
       IN  FoldSet(LAMBDA r, x : CutOne(x, r, s, e), h, cut)

-----------------------------------------------------------------------------
(* Calls.  The mmap, mremap and sbrk hooks run after the call, the munmap  *)
(* hook before it.                                                         *)

InHook == {t \in RmThreads : rmPc[t] # "idle"}
Moving == {t \in InHook : rmCall[t].op = "mremap"}

StartCall(t, call) ==
  /\ rmPc[t] = "idle" /\ ~rmCrashed /\ rmCalls < RmMaxCalls /\ client_count_ > 0
  /\ rmCalls' = rmCalls + 1
  /\ rmCall' = [rmCall EXCEPT ![t] = call]
  /\ rmPc' = [rmPc EXCEPT ![t] = "trace"]
  /\ rmRaced' = (rmRaced \/ Moving # {} \/ (call.op = "mremap" /\ InHook # {}))
  /\ UNCHANGED <<regions_, saved_regions, recursive_insert, bucket_table_, saved_buckets_,
                 client_count_, lockOwner, lock_owner_tid_, recursion_count_, rmCrashed>>

\* A mapping, of mmap or of an sbrk that grows.
MmapCall(t) ==
  \E r \in ValidSpans :
    /\ RmRange(r) \cap rmMapped = {}
    /\ rmMapped' = rmMapped \cup RmRange(r)
    /\ StartCall(t, [op |-> "mmap", s |-> r.start_addr, e |-> r.end_addr, key |-> "none"])

MunmapCall(t) ==
  \E r \in ValidSpans :
    /\ RmRange(r) \subseteq rmMapped
    /\ \A u \in InHook : RmRange(r) \cap (rmCall[u].s .. (rmCall[u].e - 1)) = {}
    /\ rmMapped' = rmMapped
    /\ StartCall(t, [op |-> "munmap", s |-> r.start_addr, e |-> r.end_addr, key |-> "none"])

\* mremap: the kernel moves the pages; the hook removes and adds later.
MremapCall(t) ==
  \E old, new \in ValidSpans :
    /\ RmRange(old) \subseteq rmMapped /\ RmRange(new) \cap rmMapped = {}
    /\ \A u \in InHook : RmRange(old) \cap (rmCall[u].s .. (rmCall[u].e - 1)) = {}
    /\ rmMapped' = (rmMapped \ RmRange(old)) \cup RmRange(new)
    /\ StartCall(t, [op |-> "mremap", os |-> old.start_addr, oe |-> old.end_addr,
                     s |-> new.start_addr, e |-> new.end_addr, key |-> "none"])

LockIsHeld(t) == lockOwner # Nobody /\ lock_owner_tid_ = t

\* RecordRegionAddition, before Lock: the stack is unwound unless the lock is
\* held.
GetCallerStack(t) ==
  /\ rmPc[t] = "trace"
  /\ rmCall' = [rmCall EXCEPT ![t].key = IF LockIsHeld(t) THEN "none" ELSE "stack"]
  /\ rmPc' = [rmPc EXCEPT ![t] = "lock"]
  /\ UNCHANGED <<rmMapped, regions_, saved_regions, recursive_insert, bucket_table_,
                 saved_buckets_, client_count_, lockOwner, lock_owner_tid_,
                 recursion_count_, rmCalls, rmRaced, rmCrashed>>

\* Lock: take lock_, then, under owner_lock_, say whose it is.
TakeLock(t) ==
  /\ rmPc[t] = "lock" /\ lockOwner = Nobody
  /\ lockOwner' = t
  /\ rmPc' = [rmPc EXCEPT ![t] = "own"]
  /\ UNCHANGED <<rmMapped, regions_, saved_regions, recursive_insert, bucket_table_,
                 saved_buckets_, client_count_, lock_owner_tid_, recursion_count_,
                 rmCall, rmCalls, rmRaced, rmCrashed>>

SetOwner(t) ==
  /\ rmPc[t] = "own"
  /\ lock_owner_tid_' = t /\ recursion_count_' = 1
  /\ rmPc' = [rmPc EXCEPT ![t] = "body"]
  /\ UNCHANGED <<rmMapped, regions_, saved_regions, recursive_insert, bucket_table_,
                 saved_buckets_, client_count_, lockOwner, rmCall, rmCalls, rmRaced,
                 rmCrashed>>

\* The work under the lock, then Unlock.  After Shutdown there is no arena to
\* allocate from.
HookBody(t) ==
  LET c == rmCall[t]
      region == NewRegion(c.s, c.e, c.key)
      removed == CASE c.op = "mremap" -> Removal(Locked, c.os, c.oe)
                   [] c.op = "munmap" -> Removal(Locked, c.s, c.e)
                   [] OTHER -> Locked
      adds == c.op \in {"mmap", "mremap"}
  IN  /\ rmPc[t] = "body"
      /\ rmCrashed' = (adds /\ client_count_ = 0)
      /\ \E nested \in {"none", "keep", "drop"} :
           /\ nested = "keep" => RmArenaPage \notin rmMapped
           /\ nested = "drop" => RmArenaPage \notin rmMapped
           /\ nested # "none" => adds /\ client_count_ > 0
           /\ rmMapped' = IF nested = "keep" THEN rmMapped \cup {RmArenaPage} ELSE rmMapped
           /\ SetLocked(IF adds /\ client_count_ > 0 THEN Addition(removed, region, nested)
                                                     ELSE removed)
      /\ rmPc' = [rmPc EXCEPT ![t] = IF c.op = "munmap" THEN "kernel" ELSE "idle"]
      /\ rmCall' = [rmCall EXCEPT ![t] = IF c.op = "munmap" THEN @ ELSE [op |-> "none"]]
      /\ lockOwner' = Nobody /\ recursion_count_' = 0
      /\ UNCHANGED <<lock_owner_tid_, client_count_, rmCalls, rmRaced>>

\* The kernel's part of munmap, after the hook.
KernelEnd(t) ==
  /\ rmPc[t] = "kernel"
  /\ rmMapped' = rmMapped \ (rmCall[t].s .. (rmCall[t].e - 1))
  /\ rmPc' = [rmPc EXCEPT ![t] = "idle"]
  /\ rmCall' = [rmCall EXCEPT ![t] = [op |-> "none"]]
  /\ UNCHANGED <<regions_, saved_regions, recursive_insert, bucket_table_, saved_buckets_,
                 client_count_, lockOwner, lock_owner_tid_, recursion_count_, rmCalls,
                 rmRaced, rmCrashed>>

\* FindAndMarkStackRegion, of the heap checker.
FindAndMarkStackRegion ==
  /\ InHook = {} /\ ~rmCrashed
  /\ \E addr \in 0..(RmUnits - 1) : \E r \in DoFindRegionLocked(regions_, addr) :
       /\ ~r.is_stack
       /\ regions_' = (regions_ \ {r}) \cup {[r EXCEPT !.is_stack = TRUE]}
  /\ UNCHANGED <<rmMapped, saved_regions, recursive_insert, bucket_table_, saved_buckets_,
                 client_count_, lockOwner, lock_owner_tid_, recursion_count_, rmPc, rmCall,
                 rmCalls, rmRaced, rmCrashed>>

\* Init of the first client, with the lock held: the arena is created, which
\* may map its page, and the table is allocated.  rmMapped starts over: the
\* map knows nothing of what was there before.
MapInit ==
  /\ lockOwner = Nobody /\ ~rmCrashed /\ client_count_ < 2
  /\ client_count_' = client_count_ + 1
  /\ IF client_count_ > 0
     THEN UNCHANGED <<rmMapped, regions_, saved_regions, recursive_insert, bucket_table_,
                      saved_buckets_, rmRaced>>
     ELSE \E page \in BOOLEAN, use_buckets \in BOOLEAN :
            /\ InHook = {} /\ rmCalls = 0
            /\ rmMapped' = IF page THEN {RmArenaPage} ELSE {}
            /\ SetLocked([regions |-> IF page
                                      THEN {NewRegion(RmArenaPage, RmArenaPage + 1, "none")}
                                      ELSE NullSet,
                          saved |-> <<>>, rec |-> FALSE,
                          table |-> IF use_buckets THEN EmptyTable ELSE NullTable,
                          statics |-> <<>>])
            /\ UNCHANGED rmRaced
  /\ UNCHANGED <<lockOwner, lock_owner_tid_, recursion_count_, rmPc, rmCall, rmCalls,
                 rmCrashed>>

\* Shutdown of the last client: the buckets are given back, the hooks and the
\* set go, the arena is deleted with its pages.
MapShutdown ==
  /\ lockOwner = Nobody /\ ~rmCrashed /\ client_count_ > 0
  /\ client_count_' = client_count_ - 1
  /\ IF client_count_ > 1
     THEN UNCHANGED <<rmMapped, regions_, saved_regions, recursive_insert, bucket_table_,
                      saved_buckets_>>
     ELSE /\ rmMapped' = rmMapped \ {RmArenaPage}
          /\ SetLocked([regions |-> NullSet, saved |-> saved_regions, rec |-> FALSE,
                        table |-> NullTable, statics |-> saved_buckets_])
  /\ UNCHANGED <<lockOwner, lock_owner_tid_, recursion_count_, rmPc, rmCall, rmCalls,
                 rmRaced, rmCrashed>>

RegionMapNext ==
  \/ \E t \in RmThreads :
       \/ MmapCall(t) \/ MunmapCall(t) \/ MremapCall(t)
       \/ GetCallerStack(t) \/ TakeLock(t) \/ SetOwner(t) \/ HookBody(t) \/ KernelEnd(t)
  \/ FindAndMarkStackRegion \/ MapInit \/ MapShutdown

RegionMapSpec == RegionMapInit /\ [][RegionMapNext]_rmVars

-----------------------------------------------------------------------------
RecordedPages == UNION {RmRange(r) : r \in IF regions_ = NullSet THEN {} ELSE regions_}

\* RecordRegionAddition, RecordRegionRemoval: between hooks, the regions are
\* disjoint and are the mapped pages exactly, whatever was split, chopped,
\* saved in a recursive insertion or dropped from the saved ones, as long as
\* no mremap ran beside another call.
RegionsExact ==
  InHook = {} /\ client_count_ > 0 /\ ~rmRaced =>
    /\ RecordedPages = rmMapped
    /\ saved_regions = <<>>
    /\ regions_ # NullSet => \A p, q \in regions_ : p # q => RmRange(p) \cap RmRange(q) = {}

\* RecordRegionRemovalInBucket: what a call stack obtained and has not given
\* back is the size of the regions recorded for it, however they were cut.
BucketsBalance ==
  InHook = {} /\ client_count_ > 0 /\ ~rmRaced /\ bucket_table_ # NullTable =>
    LET b == GetRegionBucket(Locked, "stack").table["stack"]
        own == {r \in IF regions_ = NullSet THEN {} ELSE regions_ : r.key = "stack"}
    IN  b.alloc_size - b.free_size = MapThenSumSet(RmSize, own)

=============================================================================
