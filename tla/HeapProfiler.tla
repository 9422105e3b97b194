---------------------------- MODULE HeapProfiler ----------------------------
(***************************************************************************)
(* The heap profiler: threads that allocate and free objects, whose hooks  *)
(* record them in a HeapProfileTable under heap_lock, while the profiler   *)
(* is started, stopped and asked for dumps, also by a signal.  What is     *)
(* done under heap_lock is one step, except that adding and removing the   *)
(* hooks of MallocHook, which other threads read without that lock, are    *)
(* steps of their own.                                                     *)
(***************************************************************************)
EXTENDS HeapProfileTable

CONSTANTS
  HpThreads, HpPtrs, HpSizes,
  alloc_interval, free_interval, inuse_interval, time_interval, \* the flags, 0 is off
  HpMaxOps, HpMaxTime \* bounds on the calls and on the clock

ASSUME HeapProfilerAssumption == HpMaxOps \in Nat /\ HpMaxTime \in Nat

VARIABLES
  heap_lock,      \* the thread that holds it, or "nobody"
  only_mmap_profile, mmap_profile,
  hpHooks,        \* the hooks of MallocHook that are installed
  is_on, filename_prefix, dump_count,
  last_dump,      \* alloc, free and time of the last dump, and high_water_mark
  heap_profile,   \* the table
  heap_profiler_memory, \* blocks of the arena that are in use
  mmapClients,    \* times MemoryRegionMap is initialised
  hpHeap,         \* the objects of the program: ptr -> bytes, stack, and the
                  \* number of the Start it was allocated after
  hpPc, hpArg,    \* per thread: its step, and the object it is about
  hpStarts, hpNow, hpOps, hpFatal

hpVars == <<heap_lock, only_mmap_profile, mmap_profile, hpHooks, is_on, filename_prefix, dump_count,
            last_dump, heap_profile, heap_profiler_memory, mmapClients, hpHeap, hpPc,
            hpArg, hpStarts, hpNow, hpOps, hpFatal>>

NullPrefix == "NULL"
NoDump == [alloc |-> 0, free |-> 0, time |-> 0, high_water_mark |-> 0]

HpInit ==
  /\ heap_lock = "nobody" /\ only_mmap_profile \in BOOLEAN
  /\ mmap_profile \in {only_mmap_profile, TRUE} /\ hpHooks = {}
  /\ is_on = FALSE /\ filename_prefix = NullPrefix /\ dump_count = 0
  /\ last_dump = NoDump /\ heap_profile = NewTable
  /\ heap_profiler_memory = {} /\ mmapClients = 0 /\ hpHeap = << >>
  /\ hpPc = [t \in HpThreads |-> "idle"] /\ hpArg = [t \in HpThreads |-> "none"]
  /\ hpStarts = 0 /\ hpNow = 1 /\ hpOps = 0 /\ hpFatal = FALSE

HpGoto(t, from, to) == hpPc[t] = from /\ hpPc' = [hpPc EXCEPT ![t] = to]
HpCall == hpOps < HpMaxOps /\ hpOps' = hpOps + 1
Unlocked == heap_lock = "nobody"

-----------------------------------------------------------------------------
\* DumpProfileLocked numbers the file it is about to write; opening it may fail
\* and the number stays taken.
DumpProfileLocked ==
  dump_count' = IF filename_prefix = NullPrefix THEN dump_count ELSE dump_count + 1

\* The conditions of MaybeDumpProfileLocked, in its order.
DueByAlloc(total) == alloc_interval > 0 /\ total.alloc_size >= last_dump.alloc + alloc_interval
DueByFree(total) == free_interval > 0 /\ total.free_size >= last_dump.free + free_interval
DueByUse(total) == inuse_interval > 0 /\ InUseBytes(total) > last_dump.high_water_mark + inuse_interval
DueByTime == time_interval > 0 /\ hpNow - last_dump.time >= time_interval

MaybeDumpProfileLocked(total) ==
  LET by_size == DueByAlloc(total) \/ DueByFree(total) \/ DueByUse(total)
      inuse == InUseBytes(total)
  IN IF by_size \/ DueByTime
     THEN /\ DumpProfileLocked
          /\ last_dump' = [alloc |-> total.alloc_size, free |-> total.free_size,
                           time |-> IF by_size THEN last_dump.time ELSE hpNow,
                           high_water_mark |-> IF inuse > last_dump.high_water_mark
                                               THEN inuse ELSE last_dump.high_water_mark]
     ELSE UNCHANGED <<dump_count, last_dump>>

RecordUnlessOff(table) ==
  IF is_on
  THEN /\ heap_profile' = table
       /\ heap_profiler_memory' = heap_profiler_memory
            \cup {<<"bucket", s>> : s \in DOMAIN table.buckets}
            \cup {<<"stack", s>> : s \in DOMAIN table.buckets}
       /\ MaybeDumpProfileLocked(table.total)
  ELSE UNCHANGED <<heap_profile, heap_profiler_memory, dump_count, last_dump>>

-----------------------------------------------------------------------------
\* A thread allocates an object; InvokeNewHook comes after, and the record of
\* NewHook after that.
Malloc(t) ==
  \E p \in HpPtrs \ DOMAIN hpHeap, bytes \in HpSizes, stack \in HtStacks :
    /\ HpGoto(t, "idle", "allocated") /\ HpCall
    /\ hpHeap' = SetAt(hpHeap, p, [bytes |-> bytes, stack |-> stack, start |-> hpStarts])
    /\ hpArg' = [hpArg EXCEPT ![t] = p]
    /\ UNCHANGED <<heap_lock, only_mmap_profile, mmap_profile, hpHooks, is_on, filename_prefix, dump_count,
                   last_dump, heap_profile, heap_profiler_memory, mmapClients, hpStarts,
                   hpNow, hpFatal>>

NewHookCall(t) ==
  /\ HpGoto(t, "allocated", IF "New" \in hpHooks THEN "NewHook" ELSE "idle")
  /\ hpArg' = IF "New" \in hpHooks THEN hpArg ELSE [hpArg EXCEPT ![t] = "none"]
  /\ UNCHANGED <<heap_lock, only_mmap_profile, mmap_profile, hpHooks, is_on, filename_prefix, dump_count,
                 last_dump, heap_profile, heap_profiler_memory, mmapClients, hpHeap,
                 hpStarts, hpNow, hpOps, hpFatal>>

RecordAlloc(t) ==
  LET o == hpHeap[hpArg[t]]
  IN /\ HpGoto(t, "NewHook", "idle") /\ Unlocked
     /\ RecordUnlessOff(TableRecordAlloc(heap_profile, hpArg[t], o.bytes, o.stack))
     /\ hpArg' = [hpArg EXCEPT ![t] = "none"]
     /\ UNCHANGED <<heap_lock, only_mmap_profile, mmap_profile, hpHooks, is_on, filename_prefix,
                    mmapClients, hpHeap, hpStarts, hpNow, hpOps, hpFatal>>

\* Objects are freed by any thread, once the call that allocated them is over.
HpInUse(p) == \E t \in HpThreads : hpPc[t] \in {"allocated", "NewHook", "DeleteHook", "freeing"}
                                 /\ hpArg[t] = p

DeleteHookCall(t) ==
  \E p \in DOMAIN hpHeap :
    /\ ~HpInUse(p) /\ HpCall
    /\ HpGoto(t, "idle", IF "Delete" \in hpHooks THEN "DeleteHook" ELSE "freeing")
    /\ hpArg' = [hpArg EXCEPT ![t] = p]
    /\ UNCHANGED <<heap_lock, only_mmap_profile, mmap_profile, hpHooks, is_on, filename_prefix, dump_count,
                   last_dump, heap_profile, heap_profiler_memory, mmapClients, hpHeap,
                   hpStarts, hpNow, hpFatal>>

RecordFree(t) ==
  /\ HpGoto(t, "DeleteHook", "freeing") /\ Unlocked
  /\ RecordUnlessOff(TableRecordFree(heap_profile, hpArg[t]))
  /\ UNCHANGED <<heap_lock, only_mmap_profile, mmap_profile, hpHooks, is_on, filename_prefix,
                 mmapClients, hpHeap, hpArg, hpStarts, hpNow, hpOps, hpFatal>>

HpFree(t) ==
  /\ HpGoto(t, "freeing", "idle")
  /\ hpHeap' = RemoveKey(hpHeap, hpArg[t])
  /\ hpArg' = [hpArg EXCEPT ![t] = "none"]
  /\ UNCHANGED <<heap_lock, only_mmap_profile, mmap_profile, hpHooks, is_on, filename_prefix, dump_count,
                 last_dump, heap_profile, heap_profiler_memory, mmapClients,
                 hpStarts, hpNow, hpOps, hpFatal>>

-----------------------------------------------------------------------------
TableMemory == {<<"table", "">>, <<"bucket_table", "">>, <<"address_map", "">>}

\* HeapProfilerStart up to the hook for allocations.
HeapProfilerStart(t) ==
  /\ Unlocked /\ ~is_on /\ HpCall
  /\ HpGoto(t, "idle", IF only_mmap_profile THEN "started" ELSE "starting")
  /\ heap_lock' = t /\ is_on' = TRUE
  /\ mmapClients' = IF mmap_profile THEN mmapClients + 1 ELSE mmapClients
  /\ heap_profiler_memory' = TableMemory \cup {<<"buffer", "">>}
  /\ heap_profile' = NewTable /\ last_dump' = NoDump
  /\ hpHooks' = IF only_mmap_profile THEN hpHooks ELSE hpHooks \cup {"New"}
  /\ hpFatal' = (hpFatal \/ "New" \in hpHooks \/ heap_profiler_memory # {})
  /\ UNCHANGED <<only_mmap_profile, mmap_profile, filename_prefix, dump_count, hpHeap, hpArg, hpStarts, hpNow>>

AddDeleteHook(t) ==
  /\ HpGoto(t, "starting", "started")
  /\ hpHooks' = hpHooks \cup {"Delete"}
  /\ hpFatal' = (hpFatal \/ "Delete" \in hpHooks)
  /\ UNCHANGED <<heap_lock, only_mmap_profile, mmap_profile, is_on, filename_prefix, dump_count, last_dump,
                 heap_profile, heap_profiler_memory, mmapClients, hpHeap, hpArg, hpStarts,
                 hpNow, hpOps>>

CopyPrefix(t) ==
  /\ HpGoto(t, "started", "idle")
  /\ heap_lock' = "nobody"
  /\ filename_prefix' = "prefix" /\ hpFatal' = (hpFatal \/ filename_prefix # NullPrefix)
  /\ heap_profiler_memory' = heap_profiler_memory \cup {<<"prefix", "">>}
  /\ hpStarts' = hpStarts + 1
  /\ UNCHANGED <<only_mmap_profile, mmap_profile, hpHooks, is_on, dump_count, last_dump, heap_profile,
                 mmapClients, hpHeap, hpArg, hpNow, hpOps>>

\* HeapProfilerStop up to the removal of the hook for allocations.
HeapProfilerStop(t) ==
  /\ Unlocked /\ is_on /\ HpCall
  /\ HpGoto(t, "idle", IF only_mmap_profile THEN "stopped" ELSE "stopping")
  /\ heap_lock' = t
  /\ hpHooks' = hpHooks \ {"New"}
  /\ hpFatal' = (hpFatal \/ (~only_mmap_profile /\ "New" \notin hpHooks))
  /\ UNCHANGED <<only_mmap_profile, mmap_profile, is_on, filename_prefix, dump_count, last_dump, heap_profile,
                 heap_profiler_memory, mmapClients, hpHeap, hpArg, hpStarts, hpNow>>

RemoveDeleteHook(t) ==
  /\ HpGoto(t, "stopping", "stopped")
  /\ hpHooks' = hpHooks \ {"Delete"}
  /\ hpFatal' = (hpFatal \/ "Delete" \notin hpHooks)
  /\ UNCHANGED <<heap_lock, only_mmap_profile, mmap_profile, is_on, filename_prefix, dump_count, last_dump,
                 heap_profile, heap_profiler_memory, mmapClients, hpHeap, hpArg, hpStarts,
                 hpNow, hpOps>>

\* What the destructor of the table frees: the map, and the buckets it can reach.
FreedByDestructor ==
  TableMemory \cup {<<"bucket", s>> : s \in DOMAIN heap_profile.buckets}
              \cup {<<"stack", s>> : s \in DOMAIN heap_profile.buckets}

\* The rest of HeapProfilerStop.  DeleteArena refuses while a block is in use.
FreeProfile(t) ==
  LET left == heap_profiler_memory \ (FreedByDestructor \cup {<<"buffer", "">>, <<"prefix", "">>})
  IN /\ HpGoto(t, "stopped", "idle")
     /\ heap_lock' = "nobody" /\ is_on' = FALSE
     /\ heap_profile' = NewTable /\ filename_prefix' = NullPrefix
     /\ heap_profiler_memory' = left /\ hpFatal' = (hpFatal \/ left # {})
     /\ mmapClients' = IF mmap_profile THEN mmapClients - 1 ELSE mmapClients
     /\ UNCHANGED <<only_mmap_profile, mmap_profile, hpHooks, dump_count, last_dump, hpHeap, hpArg,
                    hpStarts, hpNow, hpOps>>

\* HeapProfilerDump and the signal, which gives up when the lock is taken.
HeapProfilerDump ==
  /\ Unlocked /\ is_on /\ HpCall /\ DumpProfileLocked
  /\ UNCHANGED <<heap_lock, only_mmap_profile, mmap_profile, hpHooks, is_on, filename_prefix, last_dump,
                 heap_profile, heap_profiler_memory, mmapClients, hpHeap, hpPc, hpArg,
                 hpStarts, hpNow, hpFatal>>

HpTick ==
  /\ hpNow < HpMaxTime /\ hpNow' = hpNow + 1
  /\ UNCHANGED <<heap_lock, only_mmap_profile, mmap_profile, hpHooks, is_on, filename_prefix, dump_count,
                 last_dump, heap_profile, heap_profiler_memory, mmapClients, hpHeap, hpPc,
                 hpArg, hpStarts, hpOps, hpFatal>>

HpNext ==
  \/ \E t \in HpThreads :
       \/ Malloc(t) \/ NewHookCall(t) \/ RecordAlloc(t)
       \/ DeleteHookCall(t) \/ RecordFree(t) \/ HpFree(t)
       \/ HeapProfilerStart(t) \/ AddDeleteHook(t) \/ CopyPrefix(t)
       \/ HeapProfilerStop(t) \/ RemoveDeleteHook(t) \/ FreeProfile(t)
  \/ HeapProfilerDump \/ HpTick

HpSpec == HpInit /\ [][HpNext]_hpVars

-----------------------------------------------------------------------------
Pending(p) == \E t \in HpThreads : hpPc[t] \in {"allocated", "NewHook"} /\ hpArg[t] = p
Going(p) == \E t \in HpThreads : hpPc[t] = "freeing" /\ hpArg[t] = p

\* While the profiler runs, its table has every object allocated since it was
\* started, once NewHook recorded it and until DeleteHook removed it, with its
\* size and stack, and nothing that was freed: whatever Start and Stop did
\* between the moment a thread read the list of hooks and its record.  The
\* buckets and the totals add up to the objects of the table.
ProfileMatchesHeap ==
  is_on /\ Unlocked =>
    /\ \A p \in DOMAIN heap_profile.map :
         /\ p \in DOMAIN hpHeap /\ ~Going(p)
         /\ heap_profile.map[p].bytes = hpHeap[p].bytes
         /\ heap_profile.map[p].stack = hpHeap[p].stack
    /\ ~only_mmap_profile =>
         \A p \in DOMAIN hpHeap :
           hpHeap[p].start = hpStarts /\ ~Pending(p) /\ ~Going(p) => p \in DOMAIN heap_profile.map
    /\ \A s \in DOMAIN heap_profile.buckets :
         InUseBytes(heap_profile.buckets[s]) =
           MapThenSumSet(LAMBDA p : heap_profile.map[p].bytes,
                         {p \in DOMAIN heap_profile.map : heap_profile.map[p].stack = s})
    /\ InUseBytes(heap_profile.total) =
         MapThenSumSet(LAMBDA s : InUseBytes(heap_profile.buckets[s]), DOMAIN heap_profile.buckets)

\* However often the profiler is started and stopped, the checks in Start and
\* Stop hold: the hooks are there to be removed and not there to be added, and
\* the arena is empty when it is deleted.
StartStopBalanced ==
  /\ ~hpFatal
  /\ Unlocked => mmapClients = IF is_on /\ mmap_profile THEN 1 ELSE 0

\* A profile that does not fit leaves out the buckets with the least memory in
\* use: the lines are a prefix of the sorted list, all whole but perhaps the
\* last one, and the maps still fit behind them.
ProfileKeepsLargest ==
  is_on => \A maps \in HtMapsLens : \A list \in MakeSortedBucketList(heap_profile) :
    LET out == FillOrderedProfile(heap_profile, list, maps)
        n == Len(out.lines)
    IN /\ out.len + maps <= HtBuffer
       /\ n <= Len(list) + 1
       /\ \A i \in 2..n : out.lines[i].stack = list[i - 1]
       /\ \A i \in 1..(n - 1) : out.lines[i].whole
=============================================================================
