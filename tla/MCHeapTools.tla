----------------------------- MODULE MCHeapTools -----------------------------
(*****************************************************************************)
(* Model checking of the interface of the allocator (MallocApi), of the      *)
(* thread caches' budget (ThreadCacheBudget) and of the tools that watch the *)
(* heap: the heap profiler and its hash table (HeapProfiler, AddressMap),    *)
(* the leak checker (HeapLeakChecker, LeakRoots), the debug allocator        *)
(* (DebugAllocation), the map of memory regions (RegionMap) and the arenas   *)
(* the tools allocate from (LowLevelAlloc). They share no state, so a        *)
(* behaviour runs one of them, chosen in its first state. n1 and n2 are two  *)
(* threads, or two objects, of a component; m1, m2 and m3 are three.         *)
(*****************************************************************************)
EXTENDS MallocApi, ThreadCacheBudget, HeapProfiler, HeapLeakChecker,
        DebugAllocation, AddressMap, LeakRoots, RegionMap, LowLevelAlloc, TLC

CONSTANTS n1, n2, m1, m2, m3

VARIABLE part   \* the component this behaviour runs

\* Stacks of allocations: one in the libraries is deeper than one of the user.
MCDepths == [s \in HtStacks |-> IF s = "library" THEN 3 ELSE 1]

\* Sizes of the two kinds of magic numbers, MALLOC and NEW.
MCTypes == {-10, -11}

\* The value of every variable of a component that is not the one that runs.
NotRun == "not run"

ApiOff ==
  /\ mem = NotRun /\ live = NotRun /\ known = NotRun /\ mc = NotRun
  /\ handler = NotRun /\ set_new_handler_lock = NotRun
  /\ tc_new_mode = NotRun /\ reserve = NotRun /\ lastSet = NotRun
  /\ raced = NotRun /\ apiCalls = NotRun

BudgetOff ==
  /\ thread_heaps = NotRun /\ next_memory_steal = NotRun
  /\ max_size = NotRun /\ unclaimed = NotRun /\ overall = NotRun
  /\ per_thread = NotRun /\ heap_key = NotRun /\ tls = NotRun
  /\ pageheap_lock = NotRun /\ pc = NotRun

ProfilerOff ==
  /\ heap_lock = NotRun /\ only_mmap_profile = NotRun
  /\ mmap_profile = NotRun /\ hpHooks = NotRun /\ is_on = NotRun
  /\ filename_prefix = NotRun /\ dump_count = NotRun /\ last_dump = NotRun
  /\ heap_profile = NotRun /\ heap_profiler_memory = NotRun
  /\ mmapClients = NotRun /\ hpHeap = NotRun /\ hpPc = NotRun
  /\ hpArg = NotRun /\ hpStarts = NotRun /\ hpNow = NotRun
  /\ hpOps = NotRun /\ hpFatal = NotRun

CheckerOff ==
  /\ heap_check = NotRun /\ hlPhase = NotRun /\ heap_checker_on = NotRun
  /\ constructor_heap_profiling = NotRun /\ hlHooks = NotRun
  /\ profile_name_prefix = NotRun /\ do_main_heap_check = NotRun
  /\ have_disabled_hooks_for_symbolize = NotRun /\ hlMap = NotRun
  /\ ignored_objects = NotRun /\ checkers = NotRun /\ hlHeap = NotRun
  /\ hlGlobals = NotRun /\ hlLocals = NotRun
  /\ thread_disable_counter = NotRun /\ hlPc = NotRun /\ hlArg = NotRun
  /\ hlReport = NotRun /\ hlOps = NotRun /\ hlFatal = NotRun

DebugOff ==
  /\ malloc_page_fence = NotRun /\ malloc_reclaim_memory = NotRun
  /\ daMem = NotRun /\ daBlocks = NotRun /\ alloc_map_ = NotRun
  /\ q_ = NotRun /\ q_front_ = NotRun /\ q_back_ = NotRun
  /\ free_queue_size_ = NotRun /\ entries = NotRun /\ daPc = NotRun
  /\ daArg = NotRun /\ objects = NotRun /\ dead = NotRun /\ daBug = NotRun
  /\ daFatal = NotRun /\ daOps = NotRun

AddressesOff ==
  /\ hashtable_ = NotRun /\ free_ = NotRun /\ allocated_ = NotRun
  /\ amRanges = NotRun

RootsOff ==
  /\ lines = NotRun /\ lrRegions = NotRun /\ tops = NotRun
  /\ lrStacks = NotRun /\ library_live_objects = NotRun
  /\ live_objects = NotRun /\ lrPhase = NotRun

RegionsOff ==
  /\ rmMapped = NotRun /\ regions_ = NotRun /\ saved_regions = NotRun
  /\ recursive_insert = NotRun /\ bucket_table_ = NotRun
  /\ saved_buckets_ = NotRun /\ client_count_ = NotRun
  /\ lockOwner = NotRun /\ lock_owner_tid_ = NotRun
  /\ recursion_count_ = NotRun /\ rmPc = NotRun /\ rmCall = NotRun
  /\ rmCalls = NotRun /\ rmRaced = NotRun /\ rmCrashed = NotRun

ArenasOff ==
  /\ freelist = NotRun /\ header = NotRun /\ llMapped = NotRun
  /\ allocation_count = NotRun /\ arenaAt = NotRun /\ llPc = NotRun

Init ==
  /\ part \in {"api", "budget", "profiler", "checker", "debug", "addresses",
               "roots", "regions", "arenas"}
  /\ IF part = "api" THEN ApiInit ELSE ApiOff
  /\ IF part = "budget" THEN BudgetInit ELSE BudgetOff
  /\ IF part = "profiler" THEN HpInit ELSE ProfilerOff
  /\ IF part = "checker" THEN HlInit ELSE CheckerOff
  /\ IF part = "debug" THEN DaInit ELSE DebugOff
  /\ IF part = "addresses" THEN AmInit ELSE AddressesOff
  /\ IF part = "roots" THEN LrInit ELSE RootsOff
  /\ IF part = "regions" THEN RegionMapInit ELSE RegionsOff
  /\ IF part = "arenas" THEN LLInit ELSE ArenasOff

vars == <<part, apiVars, cachesVars, hpVars, hlVars, daVars, amVars, lrVars,
          rmVars, llVars>>

RunApi ==
  /\ part = "api" /\ ApiNext
  /\ UNCHANGED <<part, cachesVars, hpVars, hlVars, daVars, amVars, lrVars,
                 rmVars, llVars>>

RunBudget ==
  /\ part = "budget" /\ BudgetNext
  /\ UNCHANGED <<part, apiVars, hpVars, hlVars, daVars, amVars, lrVars,
                 rmVars, llVars>>

RunProfiler ==
  /\ part = "profiler" /\ HpNext
  /\ UNCHANGED <<part, apiVars, cachesVars, hlVars, daVars, amVars, lrVars,
                 rmVars, llVars>>

RunChecker ==
  /\ part = "checker" /\ HlNext
  /\ UNCHANGED <<part, apiVars, cachesVars, hpVars, daVars, amVars, lrVars,
                 rmVars, llVars>>

RunDebug ==
  /\ part = "debug" /\ DaNext
  /\ UNCHANGED <<part, apiVars, cachesVars, hpVars, hlVars, amVars, lrVars,
                 rmVars, llVars>>

RunAddresses ==
  /\ part = "addresses" /\ AmNext
  /\ UNCHANGED <<part, apiVars, cachesVars, hpVars, hlVars, daVars, lrVars,
                 rmVars, llVars>>

RunRoots ==
  /\ part = "roots" /\ LrNext
  /\ UNCHANGED <<part, apiVars, cachesVars, hpVars, hlVars, daVars, amVars,
                 rmVars, llVars>>

RunRegions ==
  /\ part = "regions" /\ RegionMapNext
  /\ UNCHANGED <<part, apiVars, cachesVars, hpVars, hlVars, daVars, amVars,
                 lrVars, llVars>>

RunArenas ==
  /\ part = "arenas" /\ LLNext
  /\ UNCHANGED <<part, apiVars, cachesVars, hpVars, hlVars, daVars, amVars,
                 lrVars, rmVars>>

Next ==
  \/ RunApi
  \/ RunBudget
  \/ RunProfiler
  \/ RunChecker
  \/ RunDebug
  \/ RunAddresses
  \/ RunRoots
  \/ RunRegions
  \/ RunArenas

Spec == Init /\ [][Next]_vars

Symmetry == Permutations({n1, n2}) \cup Permutations({m1, m2, m3})

\* malloc, calloc, realloc, operator new and their relatives, from several
\* threads: results are served in full (ResultsServed), the new and delete
\* hooks agree with the heap (HooksSeeHeap), and the exchange of the C++ new
\* handler in handle_oom loses none (NewHandlerKept).
MallocApiCorrect == part = "api" => ResultsServed /\ HooksSeeHeap /\ NewHandlerKept

\* ThreadCache: unclaimed_cache_space_ is the pool less the caches, through
\* every theft, creation, deletion and resizing; a thread has one cache
\* although its first malloc may reenter; no pointer to a cache outlives the
\* cache.
BudgetKept ==
  part = "budget" =>
    BudgetTypeOK /\ BudgetBalanced /\ OneCachePerThread /\ PointersToLiveCaches /\ FirstCacheFindsPool

\* HeapProfileTable over AddressMap: the profile has exactly the live objects
\* recorded since Start, whatever the threads and Start and Stop interleave;
\* lookups by address find them across blocks and hash chains; a profile that
\* does not fit keeps the largest buckets.
HeapProfilesExact ==
  /\ part = "profiler" => ProfileMatchesHeap /\ StartStopBalanced /\ ProfileKeepsLargest
  /\ part = "addresses" => LookupsExact /\ EntriesAccounted

\* HeapLeakChecker: a check made with all threads stopped reports exactly the
\* unreachable objects, from roots that are exactly the live data, and a
\* check that was begun can be made.
LeakChecksExact ==
  /\ part = "checker" => LeaksExact /\ ChecksAreMade
  /\ part = "roots" => RootsExact

\* The debug allocator stops no correct program, lets no overrun, double
\* free, mismatch or late write pass, and its free queue holds what it says.
DebugAllocatorSound == part = "debug" => NoFalseAlarm /\ BugsAreFound /\ FreeQueueAccounted

\* MemoryRegionMap knows the mapped regions and what each stack still holds
\* of them, and LowLevelAlloc, which its set lives in, keeps its arenas well
\* formed and finds the first block that fits.
RegionsAndArenasExact ==
  /\ part = "regions" => RegionsExact /\ BucketsBalance
  /\ part = "arenas" => ArenaWellFormed /\ FirstFit

==============================================================================
