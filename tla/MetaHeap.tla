------------------------------ MODULE MetaHeap ------------------------------
(***************************************************************************)
(* The metadata layer of the allocator (METALLOC).  Every span that holds  *)
(* objects is paired with a metaspan that holds one metadata word per      *)
(* granule of the span; the meta-pagetable maps each METALLOC page of the  *)
(* span to its part of the metaspan, and that entry is the ONLY record of  *)
(* which metaspan belongs to a span.  The module interleaves threads that  *)
(* allocate, free, and let spans go through the windows in which the code  *)
(* holds no lock.                                                          *)
(*                                                                         *)
(* Granules stand for alignments: an entry (metaptr << 8 | alignment) is   *)
(* the record [meta, gran] with gran = 2^alignment, and x >> alignment is  *)
(* x \div gran.  Configuration: METALLOC_FIXEDCOMPRESSION and              *)
(* METALLOC_DEEPMETADATA off, as built.                                    *)
(***************************************************************************)
EXTENDS SpanAllocator, FiniteSets, Functions

CONSTANTS
  Threads,
  kPageSize,          \* bytes per tcmalloc page
  METALLOC_PAGESIZE,  \* bytes per meta-pagetable entry
  METADATABYTES,      \* bytes of metadata per granule
  Classes,            \* the size classes, without class 0
  ClassSize,          \* SizeMap::class_to_size
  ClassPages,         \* SizeMap::class_to_pages
  LargeLens,          \* page counts asked of do_malloc_pages
  Aligns,             \* alignments, in pages, asked of do_memalign
  CacheSlots,         \* entries of the direct-mapped size-class cache
  MetaValues          \* values a program stores as metadata

ASSUME GeometryAssumption ==
  /\ METALLOC_PAGESIZE \in Nat \ {0}
  /\ kPageSize \in Nat \ {0}
  /\ kPageSize % METALLOC_PAGESIZE = 0
  /\ METADATABYTES \in Nat \ {0}
  /\ CacheSlots \in Nat \ {0}
\* Both page sizes are powers of two (1 << kPageShift, 1 << METALLOC_PAGESHIFT):
\* of a granule and a METALLOC page, one divides the other.
ASSUME PowerOfTwoAssumption ==
  \A g \in 1 .. kPageSize : kPageSize % g = 0 =>
    METALLOC_PAGESIZE % g = 0 \/ g % METALLOC_PAGESIZE = 0
ASSUME ClassAssumption ==
  /\ Classes \subseteq Nat \ {0}
  /\ ClassSize \in [Classes -> Nat \ {0}]
  /\ ClassPages \in [Classes -> Nat \ {0}]
ASSUME RequestAssumption ==
  /\ LargeLens \subseteq Nat \ {0}
  /\ Aligns \subseteq Nat \ {0}
  /\ 0 \in MetaValues

VARIABLES
  pageTable,  \* the meta-pagetable
  sizeclass,  \* span->sizeclass, by first page of the span
  cache,      \* pagemap_cache_: slot -> page and size class
  words,      \* metadata words whose content is known, by address
  inSpan,     \* objects on the free list of their span
  cached,     \* objects in a thread cache or a transfer cache
  live,       \* objects the program holds -> the metadata it last set
  pairs,      \* history: which metaspan was allocated for which span
  pc, ob, sp, \* per thread: where it is, and its object and span there
  fault       \* "none", or the wrong step the process has just made

vars == <<alloc, pageTable, sizeclass, cache, words, inSpan, cached, live,
          pairs, pc, ob, sp, fault>>
threadVars == <<pc, ob, sp>>

Ratio == kPageSize \div METALLOC_PAGESIZE
MetaPage == 0 .. (NPages + 1) * Ratio - 1
Entry == [meta : Nat, gran : Nat \ {0}]
NoSpan == [start |-> 0, len |-> 0]
PCs == {"idle", "reset", "carve", "release", "free_large"}

ZeroEntry == [meta |-> 0, gran |-> 1]

\* What the sbrk and mmap hooks leave for memory that is not a span: one word
\* outside the heap, reached with a shift of 63 from every address.
SentinelAddr == (NPages + 1) * kPageSize
SentinelEntry == [meta |-> SentinelAddr, gran |-> SentinelAddr]

-----------------------------------------------------------------------------
(* Address arithmetic.                                                     *)

PageOf(x) == x \div kPageSize
BaseOf(s) == s.start * kPageSize
BytesOf(s) == s.len * kPageSize
FirstMetaPage(s) == s.start * Ratio

CommonDivisors(n) == {g \in 1 .. kPageSize : n % g = 0 /\ kPageSize % g = 0}

\* 2 ^ min(AlignmentBitsForSize(size), kPageShift): kPageSize is a power of
\* two, so this is the greatest common divisor of the two sizes.
Granule(c) ==
  CHOOSE g \in CommonDivisors(ClassSize[c]) :
    \A h \in CommonDivisors(ClassSize[c]) : h <= g

GranuleOf(c) == IF c = 0 THEN kPageSize ELSE Granule(c)

\* Pages of the metaspan of a span of n pages.
MetaPages(n, g) == (n * METADATABYTES + g - 1) \div g

\* Mutant: every page of a span maps to the start of the metaspan.
EntryAtFlat(metaptr, i, g) == [meta |-> metaptr, gran |-> g]

\* The entry of the i-th METALLOC page of a span.
EntryAt(metaptr, i, g) ==
  [meta |-> IF metaptr = 0 THEN 0
            ELSE metaptr + ((i * METALLOC_PAGESIZE) \div g) * METADATABYTES,
   gran |-> g]

\* Mutant: counts tcmalloc pages instead of METALLOC pages.
SetEntriesShort(s, metaptr, g) ==
  [k \in MetaPage |->
     IF k \in FirstMetaPage(s) .. FirstMetaPage(s) + s.len - 1
     THEN EntryAt(metaptr, k - FirstMetaPage(s), g)
     ELSE pageTable[k]]

\* Mutant: writes one entry too many.
SetEntriesLong(s, metaptr, g) ==
  [k \in MetaPage |->
     IF k \in FirstMetaPage(s) .. FirstMetaPage(s) + s.len * Ratio
     THEN EntryAt(metaptr, k - FirstMetaPage(s), g)
     ELSE pageTable[k]]

set_metapagetable_entries(s, metaptr, g) ==
  [k \in MetaPage |->
     IF k \in FirstMetaPage(s) .. FirstMetaPage(s) + s.len * Ratio - 1
     THEN EntryAt(metaptr, k - FirstMetaPage(s), g)
     ELSE pageTable[k]]

get_metapagetable_entry(T, x) == T[x \div METALLOC_PAGESIZE]

\* metaget: where the metadata of the byte at x is looked up in table T.
Slot(T, x) ==
  LET e == get_metapagetable_entry(T, x)
  IN  e.meta + ((x % METALLOC_PAGESIZE) \div e.gran) * METADATABYTES

\* metaset: the words written for an object of n bytes at x.
SlotsWritten(T, x, n) ==
  LET g == get_metapagetable_entry(T, x).gran
  IN  {Slot(T, x) + i * METADATABYTES : i \in 0 .. (n + g - 1) \div g - 1}

-----------------------------------------------------------------------------
(* The page map and the size-class cache.                                  *)

\* PageHeap::GetDescriptor: the page map knows the first and the last page of
\* a span, and every page of a span registered with a size class.
IsSpanAt(s, p) ==
  \/ p = s.start
  \/ p = LastPage(s)
  \/ sizeclass[s.start] # 0 /\ p \in PagesOf(s)

GetDescriptor(p) ==
  IF \E s \in alloc : IsSpanAt(s, p)
  THEN CHOOSE s \in alloc : IsSpanAt(s, p)
  ELSE NoSpan

\* Mutant: does not compare the key.
GetSizeClassNoKey(p) == cache[p % CacheSlots].cl

\* PageHeap::GetSizeClassIfCached.
GetSizeClassIfCached(p) ==
  IF cache[p % CacheSlots].page = p THEN cache[p % CacheSlots].cl ELSE 0

\* PageHeap::CacheSizeClass for the pages from first to last in this order:
\* each slot keeps the last of the pages that fall into it.
CacheSizeClass(first, last, c) ==
  [k \in 0 .. CacheSlots - 1 |->
     LET p == last - ((last - k) % CacheSlots)
     IN  IF p >= first THEN [page |-> p, cl |-> c] ELSE cache[k]]

\* The size class do_free works with: the cache is trusted before the span.
ClassAt(p) ==
  IF GetSizeClassIfCached(p) # 0 THEN GetSizeClassIfCached(p)
  ELSE sizeclass[GetDescriptor(p).start]

ObjSize(o) ==
  LET s == GetDescriptor(PageOf(o))
  IN  IF sizeclass[s.start] # 0 THEN ClassSize[sizeclass[s.start]]
      ELSE BytesOf(s)

\* The objects Populate carves out of a span of class c.
ObjectsOf(s, c) ==
  {BaseOf(s) + i * ClassSize[c] : i \in 0 .. BytesOf(s) \div ClassSize[c] - 1}

\* The bytes of an object.
Bytes(o) == o .. o + ObjSize(o) - 1

-----------------------------------------------------------------------------
(* Steps shared by the handlers.                                           *)

WriteWords(S, v) ==
  [a \in DOMAIN words \cup S |-> IF a \in S THEN v ELSE words[a]]

Extend(f, x, v) == [y \in DOMAIN f \cup {x} |-> IF y = x THEN v ELSE f[y]]

\* Memory between two addresses gets contents the model does not follow.
Clobber(from, to) == Restrict(words, DOMAIN words \ (from .. to))

\* Mutant: registers the byte size instead of the size class.
PairBySize(d, m, c) ==
  /\ alloc' = alloc \cup {d, m}
  /\ sizeclass' = [sizeclass EXCEPT ![d.start] =
                     IF c = 0 THEN 0 ELSE ClassSize[c]]
  /\ pageTable' = set_metapagetable_entries(d, BaseOf(m), GranuleOf(c))
  /\ pairs' = pairs \cup {[data |-> d, meta |-> m]}

\* Mutant: a large span gets a metaspan but no entries.
PairNoEntries(d, m, c) ==
  /\ alloc' = alloc \cup {d, m}
  /\ sizeclass' = [sizeclass EXCEPT ![d.start] = c]
  /\ pageTable' = IF c = 0 THEN pageTable
                  ELSE set_metapagetable_entries(d, BaseOf(m), GranuleOf(c))
  /\ pairs' = pairs \cup {[data |-> d, meta |-> m]}

\* Under pageheap_lock: the span d with its metaspan m and its entries.
Pair(d, m, c) ==
  /\ alloc' = alloc \cup {d, m}
  /\ sizeclass' = [sizeclass EXCEPT ![d.start] = c]
  /\ pageTable' = set_metapagetable_entries(d, BaseOf(m), GranuleOf(c))
  /\ pairs' = pairs \cup {[data |-> d, meta |-> m]}

\* The two calls of PageHeap::New that a span with metadata takes.
MetaRuns(d, c) ==
  FreeRuns(alloc \cup {d}, MetaPages(d.len, GranuleOf(c)))

Goto(t, l, o, s) ==
  /\ pc' = [pc EXCEPT ![t] = l]
  /\ ob' = [ob EXCEPT ![t] = o]
  /\ sp' = [sp EXCEPT ![t] = s]

Return(t) == Goto(t, "idle", 0, NoSpan)

\* Under pageheap_lock: the metaspan named by the entry of d, then d itself,
\* go back to the page heap.  PageHeap::Delete requires a span that New
\* returned and that was not deleted since; anything else is a fault.
Unpair(t, d) ==
  LET m == GetDescriptor(PageOf(get_metapagetable_entry(pageTable, BaseOf(d)).meta))
  IN  /\ pageTable' = set_metapagetable_entries(d, 0, 1)
      /\ IF m \in alloc /\ d \in alloc \ {m}
         THEN /\ alloc' = alloc \ {m, d}
              /\ sizeclass' = [sizeclass EXCEPT ![m.start] = 0, ![d.start] = 0]
              /\ words' = Clobber(BaseOf(m), BaseOf(m) + BytesOf(m) - 1)
              /\ pairs' = {p \in pairs : p.data # d}
              /\ UNCHANGED fault
         ELSE /\ fault' = "delete"
              /\ UNCHANGED <<alloc, sizeclass, words, pairs>>
      /\ Return(t)
      /\ UNCHANGED <<cache, inSpan, cached, live>>

-----------------------------------------------------------------------------
Init ==
  /\ AllocInit
  /\ pageTable = [k \in MetaPage |->
                    IF k < Ratio THEN ZeroEntry ELSE SentinelEntry]
  /\ sizeclass = [p \in 0 .. NPages |-> 0]
  /\ cache = [k \in 0 .. CacheSlots - 1 |-> [page |-> 0, cl |-> 0]]
  /\ words = [a \in {} |-> 0]
  /\ inSpan = {}
  /\ cached = {}
  /\ live = [o \in {} |-> 0]
  /\ pairs = {}
  /\ pc = [t \in Threads |-> "idle"]
  /\ ob = [t \in Threads |-> 0]
  /\ sp = [t \in Threads |-> NoSpan]
  /\ fault = "none"

\* do_malloc of more than kMaxSize: the span, its metaspan and the entries are
\* made under pageheap_lock, the metadata is reset after the lock is dropped.
MallocLarge(t, n) ==
  /\ pc[t] = "idle"
  /\ \E d \in FreeRuns(alloc, n) : \E m \in MetaRuns(d, 0) :
       /\ Pair(d, m, 0)
       /\ cache' = CacheSizeClass(d.start, d.start, 0)
       /\ Goto(t, "reset", BaseOf(d), NoSpan)
  /\ UNCHANGED <<words, inSpan, cached, live, fault>>

\* do_malloc when PageHeap::New refuses the span, or its metaspan (the span is
\* then deleted again), for a large object or in Populate: the result is NULL,
\* and do_malloc goes on to reset its metadata.
MallocFails(t) ==
  /\ pc[t] = "idle"
  /\ Goto(t, "reset", 0, NoSpan)
  /\ UNCHANGED <<alloc, pageTable, sizeclass, cache, words, inSpan, cached,
                 live, pairs, fault>>

\* DoSampledAllocation: a span without metaspan or entries.
MallocSampled(t, n) ==
  /\ pc[t] = "idle"
  /\ \E d \in FreeRuns(alloc, n) :
       /\ alloc' = alloc \cup {d}
       /\ cache' = CacheSizeClass(d.start, d.start, 0)
       /\ Goto(t, "reset", BaseOf(d), NoSpan)
  /\ UNCHANGED <<pageTable, sizeclass, words, inSpan, cached, live, pairs,
                 fault>>

\* ThreadCache::Allocate: pop an object of the size class.
MallocSmall(t, o) ==
  /\ pc[t] = "idle"
  /\ o \in cached
  /\ cached' = cached \ {o}
  /\ Goto(t, "reset", o, NoSpan)
  /\ UNCHANGED <<alloc, pageTable, sizeclass, cache, words, inSpan, live,
                 pairs, fault>>

\* reset_metadata, with default_alloc_hook writing zero through the entry of
\* the object.  The entry of address 0 names address 0.
ResetMetadata(t) ==
  /\ pc[t] = "reset"
  /\ IF get_metapagetable_entry(pageTable, ob[t]).meta = 0
     THEN /\ fault' = "null_metadata"
          /\ UNCHANGED <<words, live>>
     ELSE /\ words' = WriteWords(SlotsWritten(pageTable, ob[t], ObjSize(ob[t])), 0)
          /\ live' = Extend(live, ob[t], 0)
          /\ UNCHANGED fault
  /\ Return(t)
  /\ UNCHANGED <<alloc, pageTable, sizeclass, cache, inSpan, cached, pairs>>

\* The pages do_memalign keeps of a run r that it asked for with room for the
\* alignment: n pages from the first aligned page on.
AlignedPart(r, n, a) ==
  [start |-> r.start + ((a - (r.start % a)) % a), len |-> n]

\* do_memalign from the page heap: all of it, reset_metadata included, runs
\* under pageheap_lock.
Memalign(t, n, a) ==
  /\ pc[t] = "idle"
  /\ \E r \in FreeRuns(alloc, IF a = 1 THEN n ELSE n + a) :
       LET d == AlignedPart(r, n, a)
       IN  \E m \in MetaRuns(d, 0) :
             /\ Pair(d, m, 0)
             /\ words' = WriteWords(
                           SlotsWritten(pageTable', BaseOf(d), BytesOf(d)), 0)
             /\ live' = Extend(live, BaseOf(d), 0)
             /\ cache' = CacheSizeClass(d.start, d.start, 0)
  /\ UNCHANGED <<inSpan, cached, pc, ob, sp, fault>>

\* do_memalign beyond page alignment when the metaspan is refused: the span is
\* deleted, and SpanToMallocResult(NULL) reads through the null pointer.
MemalignFails(t, a) ==
  /\ a > 1
  /\ pc[t] = "idle"
  /\ fault' = "null_span"
  /\ UNCHANGED <<alloc, pageTable, sizeclass, cache, words, inSpan, cached,
                 live, pairs, pc, ob, sp>>

\* CentralFreeList::Populate, called when no span of the class has a free
\* object: the part under pageheap_lock.
Populate(t, c) ==
  /\ pc[t] = "idle"
  /\ \A o \in inSpan : ClassAt(PageOf(o)) # c
  /\ \E d \in FreeRuns(alloc, ClassPages[c]) : \E m \in MetaRuns(d, c) :
       /\ Pair(d, m, c)
       /\ Goto(t, "carve", 0, d)
  /\ UNCHANGED <<cache, words, inSpan, cached, live, fault>>

\* The rest of Populate: the size class is cached without a lock, the span is
\* cut into objects and joins the central free list.
Carve(t) ==
  LET c == sizeclass[sp[t].start]
  IN  /\ pc[t] = "carve"
      /\ cache' = CacheSizeClass(sp[t].start, LastPage(sp[t]), c)
      /\ inSpan' = inSpan \cup ObjectsOf(sp[t], c)
      /\ Return(t)
      /\ UNCHANGED <<alloc, pageTable, sizeclass, words, cached, live, pairs,
                     fault>>

\* FetchFromOneSpans, one object at a time.
Fetch(o) ==
  /\ o \in inSpan
  /\ inSpan' = inSpan \ {o}
  /\ cached' = cached \cup {o}
  /\ UNCHANGED <<alloc, pageTable, sizeclass, cache, words, live, pairs, pc,
                 ob, sp, fault>>

\* Mutant: gives the span back with one object still out.
LastButOneReference(objects, o) == Cardinality(objects \ inSpan) <= 2

\* refcount == 0 once o has come back to the span.
LastReference(objects, o) == objects \ {o} \subseteq inSpan

\* ReleaseToSpans under the lock of the size class.  The span whose last
\* object comes back leaves the central list; the lock is then dropped.
ReleaseToSpans(t, o) ==
  LET s == GetDescriptor(PageOf(o))
      objects == ObjectsOf(s, sizeclass[s.start])
  IN  /\ pc[t] = "idle"
      /\ o \in cached
      /\ cached' = cached \ {o}
      /\ IF LastReference(objects, o)
         THEN inSpan' = inSpan \ objects /\ Goto(t, "release", 0, s)
         ELSE inSpan' = inSpan \cup {o} /\ UNCHANGED threadVars
      /\ UNCHANGED <<alloc, pageTable, sizeclass, cache, words, live, pairs,
                     fault>>

\* ReleaseToSpans under pageheap_lock.
ReleaseSpan(t) == pc[t] = "release" /\ Unpair(t, sp[t])

\* do_free up to the choice between the thread cache and the page heap.
Free(t, o) ==
  LET p == PageOf(o)
  IN  /\ pc[t] = "idle"
      /\ o \in DOMAIN live
      /\ live' = Restrict(live, DOMAIN live \ {o})
      /\ cache' = IF GetSizeClassIfCached(p) # 0 THEN cache
                  ELSE CacheSizeClass(p, p, sizeclass[GetDescriptor(p).start])
      /\ IF ClassAt(p) # 0
         THEN cached' = cached \cup {o} /\ UNCHANGED threadVars
         ELSE Goto(t, "free_large", 0, GetDescriptor(p)) /\ UNCHANGED cached
      /\ UNCHANGED <<alloc, pageTable, sizeclass, words, inSpan, pairs, fault>>

\* do_free of a large object under pageheap_lock.
FreeLarge(t) == pc[t] = "free_large" /\ Unpair(t, sp[t])

\* GetSizeWithCallback (realloc, malloc_usable_size) on an object whose page is
\* not in the size-class cache.
GetSize(o) ==
  LET p == PageOf(o)
      c == sizeclass[GetDescriptor(p).start]
  IN  /\ o \in DOMAIN live
      /\ GetSizeClassIfCached(p) = 0
      /\ c # 0
      /\ cache' = CacheSizeClass(p, p, c)
      /\ UNCHANGED <<alloc, pageTable, sizeclass, words, inSpan, cached, live,
                     pairs, pc, ob, sp, fault>>

\* The program sets the metadata of an object it holds (metaset).
MetaSet(o, v) ==
  /\ o \in DOMAIN live
  /\ words' = WriteWords(SlotsWritten(pageTable, o, ObjSize(o)), v)
  /\ live' = [live EXCEPT ![o] = v]
  /\ UNCHANGED <<alloc, pageTable, sizeclass, cache, inSpan, cached, pairs,
                 pc, ob, sp, fault>>

\* The program writes all over an object it holds.
UserWrite(o) ==
  /\ o \in DOMAIN live
  /\ words' = Clobber(o, o + ObjSize(o) - 1)
  /\ UNCHANGED <<alloc, pageTable, sizeclass, cache, inSpan, cached, live,
                 pairs, pc, ob, sp, fault>>

Next ==
  \/ \E t \in Threads, n \in LargeLens : MallocLarge(t, n)
  \/ \E t \in Threads, n \in LargeLens, a \in Aligns : Memalign(t, n, a)
  \/ \E t \in Threads, c \in Classes : Populate(t, c)
  \/ \E t \in Threads : Carve(t)
  \/ \E o \in inSpan : Fetch(o)
  \/ \E t \in Threads, o \in cached : MallocSmall(t, o)
  \/ \E t \in Threads : ResetMetadata(t)
  \/ \E t \in Threads, o \in DOMAIN live : Free(t, o)
  \/ \E t \in Threads, o \in cached : ReleaseToSpans(t, o)
  \/ \E t \in Threads : ReleaseSpan(t)
  \/ \E t \in Threads : FreeLarge(t)
  \/ \E o \in DOMAIN live : GetSize(o)
  \/ \E o \in DOMAIN live, v \in MetaValues : MetaSet(o, v)
  \/ \E o \in DOMAIN live : UserWrite(o)

Spec == Init /\ [][Next]_vars

\* The same system when the page heap may be out of memory (a heap limit).
NextOutOfMemory ==
  \/ Next
  \/ \E t \in Threads : MallocFails(t)
  \/ \E t \in Threads, a \in Aligns : MemalignFails(t, a)

SpecOutOfMemory == Init /\ [][NextOutOfMemory]_vars

\* The same system with tcmalloc_sample_parameter positive.
NextSampling ==
  \/ Next
  \/ \E t \in Threads, n \in LargeLens : MallocSampled(t, n)

SpecSampling == Init /\ [][NextSampling]_vars

-----------------------------------------------------------------------------
(* Properties.                                                             *)

\* Objects the allocator or the program knows of, and those the threads are
\* about to hand to the program.
Objects ==
  inSpan \cup cached \cup DOMAIN live \cup
  {ob[t] : t \in {u \in Threads : pc[u] = "reset"}}

\* Type invariant.
TypeOK ==
  /\ alloc \subseteq Span
  /\ pageTable \in [MetaPage -> Entry]
  /\ sizeclass \in [0 .. NPages -> Classes \cup {0}]
  /\ cache \in [0 .. CacheSlots - 1 -> [page : 0 .. NPages,
                                        cl : Classes \cup {0}]]
  /\ inSpan \subseteq Nat
  /\ cached \subseteq Nat
  /\ DOMAIN live \subseteq Nat
  /\ pairs \subseteq [data : Span, meta : Span]
  /\ pc \in [Threads -> PCs]
  /\ ob \in [Threads -> Nat]
  /\ sp \in [Threads -> Span \cup {NoSpan}]
  /\ fault \in {"none", "delete", "null_metadata", "null_span"}

\* The entries of every span that holds objects name that span's own metaspan,
\* which no other span uses and which is still allocated: the lookup in
\* ReleaseToSpans and do_free, which have nothing but the entry, finds the
\* metaspan that Populate or do_malloc_pages allocated.
EntriesNameOwnMetaspan ==
  /\ \A p \in pairs :
       /\ p.data \in alloc /\ p.meta \in alloc
       /\ \A i \in 0 .. p.data.len * Ratio - 1 :
            pageTable[FirstMetaPage(p.data) + i] =
              EntryAt(BaseOf(p.meta), i, GranuleOf(sizeclass[p.data.start]))
  /\ \A p, q \in pairs :
       /\ p.data # q.meta
       /\ p # q => p.data # q.data /\ p.meta # q.meta

\* No entry leads into a metaspan from a page outside the metaspan's own span:
\* the entries of a span are cleared before its pages can be used again.
NoDanglingEntry ==
  \A k \in MetaPage :
    \/ pageTable[k] \in {ZeroEntry, SentinelEntry}
    \/ \E p \in pairs : k \div Ratio \in PagesOf(p.data)

\* metaget on ANY byte of an object the program holds, whichever page it lies
\* in, returns the value last set for the object (zero after malloc), whatever
\* was allocated, freed, set or written meanwhile.
MetaGetExact ==
  \A o \in DOMAIN live : \A x \in Bytes(o) :
    LET a == Slot(pageTable, x)
    IN  a \in DOMAIN words /\ words[a] = live[o]

\* metaget on any byte of a live object returns what was last set for it, and no
\* entry leads into a metaspan from a page outside the metaspan's span: the
\* entries are cleared before Delete lets the pages be used again.
MetadataExact == MetaGetExact /\ NoDanglingEntry

\* PageHeap::Delete is only called with a span that New returned and that has
\* not been deleted (REQUIRES comment of page_heap.h), and no metadata is
\* written through a null entry.
NoFault == fault = "none"

\* A malloc that the page heap refuses ends with NULL in the caller's hands, as
\* handle_oom says, and not with a write of metadata for address 0.
RefusalReturnsNull == fault # "null_metadata"

\* PageHeap::Delete's requirement alone.
DeleteMeetsRequirement == fault # "delete"

\* CheckCachedSizeClass, asserted for each malloc result: an object's page has
\* its true size class in the cache, or none.  do_free trusts the cache, so
\* this must hold for as long as the object may be freed.
CachedClassCorrect ==
  \A o \in Objects \ {0} :
    GetSizeClassIfCached(PageOf(o))
      \in {0, sizeclass[GetDescriptor(PageOf(o)).start]}

\* A span is never given back while an object in it is held by the program, by
\* a cache, or by a thread between allocation and hand-over.
ObjectsInAllocatedSpans ==
  \A o \in Objects \ {0} :
    /\ \E p \in pairs : PageOf(o) \in PagesOf(p.data)
    /\ \A t \in Threads :
         pc[t] \in {"release", "free_large"} => PageOf(o) \notin PagesOf(sp[t])

\* A mid-fat pointer carries the metadata address of its object in its upper
\* bits, so the entry of an object must not change while the object is live.
EntryStableWhileLive ==
  [][\A o \in DOMAIN live \cap DOMAIN live' :
       get_metapagetable_entry(pageTable, o)'
         = get_metapagetable_entry(pageTable, o)]_vars

=============================================================================
