----------------------------- MODULE MCAllocator -----------------------------
(*****************************************************************************)
(* Model checking of the layers of the allocator below its interface: the    *)
(* page heap under a heap limit (PageHeap), the lists of a thread cache      *)
(* (ThreadCacheLists), the size classes at the constants of the build        *)
(* (SizeMap), the spin lock they all use (SpinLock), the page map and its    *)
(* cache (PageMap), the memory obtained from the system (SystemAlloc), the   *)
(* statistics read from all tiers (HeapStats) and the accessors of the       *)
(* object metadata (MetaAccess). A behaviour runs one of them, chosen in its *)
(* first state, on an instance of its own; the spin lock is unlocked while   *)
(* another one runs.                                                         *)
(*****************************************************************************)
EXTENDS PageHeap, ThreadCacheLists, SizeMap, SpinLock, PageMap, SystemAlloc,
        HeapStats, MetaAccess

VARIABLE part   \* the component this behaviour runs

\* Two classes: objects of 2 bytes moved in batches of 2, objects of 1 byte in
\* batches of 3.  The greatest list length, 7, is a multiple of neither.
MCClassSize == [c \in Class |-> IF c = 1 THEN 2 ELSE 1]
MCBatch == [c \in Class |-> IF c = 1 THEN 2 ELSE 3]

\* Sizes of the objects, and depths of the stacks, that HeapStats counts.
MCByteSize == [c \in Classes |-> IF c = 1 THEN 1 ELSE 3]
MCDepth == [s \in Stacks |-> IF s = "deep" THEN 3 ELSE 1]

\* The value of every variable of a component that is not the one that runs.
NotRun == "not run"

ListsOff ==
  /\ list = NotRun /\ size = NotRun /\ max_size = NotRun /\ inuse = NotRun
  /\ cleaned = NotRun

SizesOff ==
  /\ phase = NotRun /\ sm_size = NotRun /\ sc = NotRun
  /\ class_to_size = NotRun /\ class_to_pages = NotRun
  /\ class_array = NotRun /\ next_size = NotRun

PagemapOff ==
  /\ pmKind = NotRun /\ pmNodes = NotRun /\ pmLeaf = NotRun
  /\ pmBudget = NotRun /\ pmWriter = NotRun /\ pmReader = NotRun
  /\ pmEnsured = NotRun /\ pmMapped = NotRun /\ pmCache = NotRun
  /\ pmKnown = NotRun /\ pmOps = NotRun /\ pmReads = NotRun

SystemOff ==
  /\ brk = NotRun /\ foreign = NotRun /\ mmaps = NotRun /\ skip = NotRun
  /\ mmapFirst = NotRun /\ failed_ = NotRun /\ huge = NotRun
  /\ saCall = NotRun /\ grants = NotRun /\ systemTaken = NotRun
  /\ advised = NotRun /\ chunk = NotRun /\ freeArea = NotRun
  /\ freeList = NotRun /\ objects = NotRun /\ saCalls = NotRun

StatsOff ==
  /\ central = NotRun /\ transfer = NotRun /\ thread = NotRun
  /\ app = NotRun /\ spans = NotRun /\ pageheap = NotRun
  /\ sampled_objects = NotRun /\ bytes_until_sample = NotRun
  /\ growth_stacks = NotRun /\ extra_bytes_released = NotRun
  /\ bucketsInUse = NotRun /\ rd = NotRun /\ moved = NotRun
  /\ ahead = NotRun /\ hsOps = NotRun

MetadataOff ==
  /\ fixedCompression = NotRun /\ metaBytes = NotRun /\ mTable = NotRun
  /\ mMem = NotRun /\ mMapped = NotRun /\ mSpans = NotRun
  /\ mObjects = NotRun /\ mOps = NotRun

Init ==
  /\ part \in {"limit", "lists", "sizes", "spin", "pagemap", "system",
               "stats", "metadata"}
  /\ PageHeapInit
  /\ IF part = "lists" THEN ListsInit ELSE ListsOff
  /\ IF part = "sizes" THEN SizeMapInit ELSE SizesOff
  /\ SpinInit
  /\ IF part = "pagemap" THEN PageMapInit ELSE PagemapOff
  /\ IF part = "system" THEN SystemInit ELSE SystemOff
  /\ IF part = "stats" THEN HsInit ELSE StatsOff
  /\ IF part = "metadata" THEN MetaInit ELSE MetadataOff

vars == <<part, pageHeapVars, listVars, sizeMapVars, spinVars, pmVars, saVars,
          hsVars, maVars>>

RunLimit ==
  /\ part = "limit" /\ PageHeapNext
  /\ UNCHANGED <<part, listVars, sizeMapVars, spinVars, pmVars, saVars,
                 hsVars, maVars>>

RunLists ==
  /\ part = "lists" /\ ListsNext
  /\ UNCHANGED <<part, pageHeapVars, sizeMapVars, spinVars, pmVars, saVars,
                 hsVars, maVars>>

RunSizes ==
  /\ part = "sizes" /\ SizeMapNext
  /\ UNCHANGED <<part, pageHeapVars, listVars, spinVars, pmVars, saVars,
                 hsVars, maVars>>

RunSpin ==
  /\ part = "spin" /\ SpinNext
  /\ UNCHANGED <<part, pageHeapVars, listVars, sizeMapVars, pmVars, saVars,
                 hsVars, maVars>>

RunPagemap ==
  /\ part = "pagemap" /\ PageMapNext
  /\ UNCHANGED <<part, pageHeapVars, listVars, sizeMapVars, spinVars, saVars,
                 hsVars, maVars>>

RunSystem ==
  /\ part = "system" /\ SystemNext
  /\ UNCHANGED <<part, pageHeapVars, listVars, sizeMapVars, spinVars, pmVars,
                 hsVars, maVars>>

RunStats ==
  /\ part = "stats" /\ HsNext
  /\ UNCHANGED <<part, pageHeapVars, listVars, sizeMapVars, spinVars, pmVars,
                 saVars, maVars>>

RunMetadata ==
  /\ part = "metadata" /\ MetaNext
  /\ UNCHANGED <<part, pageHeapVars, listVars, sizeMapVars, spinVars, pmVars,
                 saVars, hsVars>>

\* A component whose calls the instance bounds stops when they are used up.
Stop == part \in {"sizes", "pagemap", "system", "stats", "metadata"} /\
                 UNCHANGED vars

Next ==
  \/ RunLimit
  \/ RunLists
  \/ RunSizes
  \/ RunSpin
  \/ RunPagemap
  \/ RunSystem
  \/ RunStats
  \/ RunMetadata
  \/ Stop

Spec == Init /\ [][Next]_vars

\* ThreadCache: size_ is the bytes on the lists whatever a release gives
\* away, Scavenge never drops more than a list has, and no list outgrows its
\* bound although max_length shrinks and grows in steps of a batch.
CacheListsExact ==
  part = "lists" => ListsTypeOK /\ SizeExact /\ LowWaterMark /\ MaxLengthMultiple /\ ListBounded

\* SizeMap::Init: at the constants of the build the tables fit, and every
\* size up to kMaxSize is served by the smallest class that holds it.
SizeClassesExact == part = "sizes" => TablesFit /\ EverySizeServed

\* The page map and the packed cache beside it: a get() that takes no lock
\* returns a value the page had during the call, Ensure makes every page it
\* was asked for storable, and a cached size class is the page's or 0.
PageMapExact == part = "pagemap" => LookupsLinearizable /\ CacheExact

\* TCMalloc_SystemAlloc and the allocators of the heap's own objects: memory
\* that was granted is mapped, aligned, large enough and nobody else's,
\* whatever sbrk and mmap return and whoever else moves the break.
SystemMemoryOwned == part = "system" => GrantsOwned /\ ObjectsOwned

\* The statistics, samples and growth stacks, read while other threads
\* allocate: off by no more than what moved during the read, traces inside
\* the array that was allocated for them, and the release rate kept.
StatisticsHonest == part = "stats" => StatsWithinMoved /\ TracesFitAndExact /\ ReleaseRateKept

\* metaset and metaget in all their variants: through every pointer into a
\* live object the metadata read is what was last set for it, and metadata
\* areas are mapped and disjoint.
MetadataAccessExact == part = "metadata" => MetadataFollowsObject /\ MetadataMapped

==============================================================================
