----------------------------- MODULE SystemAlloc -----------------------------
(***************************************************************************)
(* Where the allocator's memory comes from: TCMalloc_SystemAlloc over the  *)
(* sbrk, mmap and huge page allocators, TCMalloc_SystemRelease, and, on    *)
(* top, MetaDataAlloc and PageHeapAllocator, which carve the allocator's   *)
(* own objects.  One call runs at a time, under the spinlock, but the      *)
(* program moves the break between its sbrk calls.                         *)
(***************************************************************************)
EXTENDS Integers, FiniteSets, FiniteSetsExt, Sequences, SequencesExt

CONSTANTS
  SaWord,        \* size_t counts modulo SaWord
  BrkStart, BrkLimit,      \* the heap segment, in units
  MmapLow, MmapHigh,       \* where the kernel puts mappings
  pagesize, BigPage,       \* the page sizes of mmap and of the huge page file
  SaSizes, SaAlignments,   \* the requests of the page heap
  AllocIncrement,          \* kAllocIncrement; objects have one unit
  kMetadataAllocChunkSize,
  SaMaxCalls,              \* bound on the calls, the program's included
  MaxListed                \* bound on the free list

ASSUME SystemAllocAssumption ==
  /\ {SaWord, BrkStart, BrkLimit, MmapLow, MmapHigh, SaMaxCalls} \subseteq Nat
  /\ BrkLimit <= MmapLow /\ MmapHigh < SaWord
  /\ MmapLow % pagesize = 0 /\ BigPage % pagesize = 0

VARIABLES
  brk, foreign,      \* the break, and what the program took below it
  mmaps,             \* units mapped with mmap
  skip,              \* [sbrk, mmap |-> the flag, as far as it is initialised]
  mmapFirst,         \* kDebugMode
  failed_,           \* of DefaultSysAllocator, by child
  huge,              \* [on, failed, base, limit] of HugetlbSysAllocator
  saCall,            \* the call in progress
  grants,            \* what TCMalloc_SystemAlloc returned
  systemTaken,
  advised,           \* units given to madvise
  chunk,             \* metadata_chunk_alloc_, metadata_chunk_avail_
  freeArea, freeList, objects,   \* PageHeapAllocator: area, list, live objects
  saCalls

saVars == <<brk, foreign, mmaps, skip, mmapFirst, failed_, huge, saCall, grants, systemTaken,
            advised, chunk, freeArea, freeList, objects, saCalls>>

NoCall == [at |-> "none"]
Units(p, n) == p .. (p + n - 1)
RoundUp(size, a) == (((size + a - 1) % SaWord) \div a) * a
Adjust(p, a) == (a - (p % a)) % a

SystemInit ==
  /\ brk = BrkStart /\ foreign = {} /\ mmaps = {}
  /\ skip = [sbrk |-> FALSE, mmap |-> FALSE]
  /\ mmapFirst \in BOOLEAN
  /\ failed_ = [i \in {1, 2} |-> FALSE]
  /\ huge \in [on : BOOLEAN, failed : {FALSE}, base : {0}, limit : {0, BigPage}]
  /\ saCall = NoCall /\ grants = {} /\ systemTaken = 0 /\ advised = {}
  /\ chunk = [alloc |-> 0, avail |-> 0]
  /\ freeArea = [at |-> 0, avail |-> 0] /\ freeList = <<>> /\ objects = {}
  /\ saCalls = 0

\* The variables a step of the call in progress leaves alone.
CallOnly == UNCHANGED <<foreign, skip, mmapFirst, advised, saCalls>>

Child(i) == IF (i = 1) = mmapFirst THEN "mmap" ELSE "sbrk"

-----------------------------------------------------------------------------
\* TCMalloc_SystemAlloc: the overflow test, then sys_alloc->Alloc.
StartAlloc(size, alignment, for) ==
  /\ saCall = NoCall /\ saCalls < SaMaxCalls
  /\ saCalls' = saCalls + 1
  /\ saCall' = IF (size + alignment) % SaWord < size THEN NoCall
               ELSE [at |-> IF huge.on /\ ~huge.failed THEN "huge" ELSE "default",
                     size |-> size, alignment |-> alignment, for |-> for, child |-> 1]
  /\ UNCHANGED <<brk, foreign, mmaps, skip, mmapFirst, failed_, huge, grants, systemTaken,
                 advised, chunk, freeArea, freeList, objects>>

\* MetaDataAlloc of a block as large as a chunk asks directly.
MetaDataAllocLarge == StartAlloc(kMetadataAllocChunkSize, 1, "direct")

PageHeapGrows == \E size \in SaSizes, a \in SaAlignments : StartAlloc(size, a, "pages")

\* Carve an object of one unit from the area.
CarveFrom(area) ==
  /\ objects' = objects \cup {area.at}
  /\ freeArea' = [at |-> area.at + 1, avail |-> area.avail - 1]

\* MetaDataAlloc once the chunk is large enough: the next area of objects.
AreaFrom(c) ==
  /\ chunk' = [alloc |-> c.alloc + AllocIncrement, avail |-> c.avail - AllocIncrement]
  /\ CarveFrom([at |-> c.alloc, avail |-> AllocIncrement])

\* PageHeapAllocator::New, from the list, the area, or a new area; a new chunk
\* needs TCMalloc_SystemAlloc.
New ==
  /\ saCall = NoCall
  /\ \/ /\ freeList # <<>>
        /\ objects' = objects \cup {Head(freeList)}
        /\ freeList' = Tail(freeList)
        /\ UNCHANGED <<freeArea, chunk, saCall, saCalls>>
     \/ /\ freeList = <<>> /\ freeArea.avail >= 1
        /\ CarveFrom(freeArea)
        /\ UNCHANGED <<freeList, chunk, saCall, saCalls>>
     \/ /\ freeList = <<>> /\ freeArea.avail < 1 /\ chunk.avail >= AllocIncrement
        /\ AreaFrom(chunk)
        /\ UNCHANGED <<freeList, saCall, saCalls>>
  /\ UNCHANGED <<brk, foreign, mmaps, skip, mmapFirst, failed_, huge, grants, systemTaken,
                 advised>>

NewNeedsChunk ==
  /\ freeList = <<>> /\ freeArea.avail < 1 /\ chunk.avail < AllocIncrement
  /\ StartAlloc(kMetadataAllocChunkSize, 1, "metadata")

DeleteObject ==
  \E p \in objects :
    /\ saCall = NoCall /\ Len(freeList) < MaxListed
    /\ objects' = objects \ {p}
    /\ freeList' = <<p>> \o freeList
    /\ UNCHANGED <<brk, foreign, mmaps, skip, mmapFirst, failed_, huge, saCall, grants,
                   systemTaken, advised, chunk, freeArea, saCalls>>

-----------------------------------------------------------------------------
\* Alloc returned p: account for it, and let the metadata allocator go on.
Return(p, actual) ==
  /\ saCall' = NoCall
  /\ systemTaken' = systemTaken + actual
  /\ grants' = grants \cup {[start |-> p, len |-> actual, size |-> saCall.size,
                             alignment |-> saCall.alignment, for |-> saCall.for]}
  /\ IF saCall.for = "metadata"
     THEN AreaFrom([alloc |-> p, avail |-> actual])
     ELSE UNCHANGED <<chunk, freeArea, objects>>
  /\ UNCHANGED freeList

\* Alloc returned NULL.
ReturnNull ==
  /\ saCall' = NoCall
  /\ UNCHANGED <<systemTaken, grants, chunk, freeArea, freeList, objects>>

At(step) == saCall' = [saCall EXCEPT !.at = step]
NothingReturned == UNCHANGED <<systemTaken, grants, chunk, freeArea, freeList, objects>>

\* DefaultSysAllocator::Alloc: the children that have not failed, in order;
\* when both have, both are good again for the next call.
TryChild ==
  /\ saCall.at = "default"
  /\ IF saCall.child > 2
     THEN failed_' = [i \in {1, 2} |-> FALSE] /\ ReturnNull
     ELSE /\ NothingReturned /\ UNCHANGED failed_
          /\ saCall' = IF failed_[saCall.child] THEN [saCall EXCEPT !.child = @ + 1]
                       ELSE [saCall EXCEPT !.at = Child(saCall.child)]
  /\ CallOnly /\ UNCHANGED <<brk, mmaps, huge>>

ChildFails ==
  /\ failed_' = [failed_ EXCEPT ![saCall.child] = TRUE]
  /\ saCall' = [saCall EXCEPT !.at = "default", !.child = @ + 1]
  /\ NothingReturned

\* sbrk, of the kernel.
CanGrow(n) == brk + n <= BrkLimit

\* SbrkSysAllocator::Alloc: the rounded size first.
SbrkFirst ==
  LET size == RoundUp(saCall.size, saCall.alignment)
      extra == Adjust(brk, saCall.alignment)
  IN  /\ saCall.at = "sbrk"
      /\ \/ /\ skip.sbrk \/ (saCall.size + saCall.alignment) % SaWord >= SaWord \div 2
            /\ ChildFails /\ UNCHANGED brk
         \/ /\ ~skip.sbrk /\ (saCall.size + saCall.alignment) % SaWord < SaWord \div 2
            /\ IF ~CanGrow(size) THEN ChildFails /\ UNCHANGED brk
               ELSE /\ brk' = brk + size /\ UNCHANGED failed_
                    /\ IF extra = 0 THEN Return(brk, size)
                       ELSE /\ saCall' = [at |-> "extra", size |-> saCall.size, ptr |-> brk,
                                          alignment |-> saCall.alignment, for |-> saCall.for,
                                          child |-> saCall.child]
                            /\ NothingReturned
      /\ CallOnly /\ UNCHANGED <<mmaps, huge>>

SbrkExtraTrusting ==
  LET size == RoundUp(saCall.size, saCall.alignment)
      extra == Adjust(saCall.ptr, saCall.alignment)
      more == CanGrow(extra)
  IN  /\ saCall.at = "extra"
      /\ brk' = IF more THEN brk + extra ELSE brk
      /\ IF more THEN Return(saCall.ptr + extra, size) ELSE At("again") /\ NothingReturned
      /\ CallOnly /\ UNCHANGED <<mmaps, failed_, huge>>

\* More memory for the alignment, if it comes right behind.
SbrkExtra ==
  LET size == RoundUp(saCall.size, saCall.alignment)
      extra == Adjust(saCall.ptr, saCall.alignment)
      more == CanGrow(extra)
  IN  /\ saCall.at = "extra"
      /\ brk' = IF more THEN brk + extra ELSE brk
      /\ IF more /\ brk = saCall.ptr + size THEN Return(saCall.ptr + extra, size)
                                            ELSE At("again") /\ NothingReturned
      /\ CallOnly /\ UNCHANGED <<mmaps, failed_, huge>>

SbrkAgain ==
  LET size == RoundUp(saCall.size, saCall.alignment)
      want == size + saCall.alignment - 1
  IN  /\ saCall.at = "again"
      /\ IF CanGrow(want)
         THEN brk' = brk + want /\ Return(brk + Adjust(brk, saCall.alignment), size)
              /\ UNCHANGED failed_
         ELSE ChildFails /\ UNCHANGED brk
      /\ CallOnly /\ UNCHANGED <<mmaps, huge>>

\* mmap, of the kernel: any hole that is large enough, at a multiple of page.
Holes(n, page) ==
  {p \in MmapLow .. (MmapHigh - n) : p % page = 0 /\ Units(p, n) \cap mmaps = {}}

\* MmapSysAllocator::Alloc: map the extra as well and trim both ends.
MmapAlloc ==
  LET alignment == Max({saCall.alignment, pagesize})
      size == RoundUp(saCall.size, alignment)
      extra == alignment - pagesize
  IN  /\ saCall.at = "mmap"
      /\ \/ /\ skip.mmap \/ size < saCall.size \/ Holes(size + extra, pagesize) = {}
            /\ ChildFails /\ UNCHANGED mmaps
         \/ /\ ~skip.mmap /\ size >= saCall.size
            /\ \E p \in Holes(size + extra, pagesize) :
                 /\ mmaps' = mmaps \cup Units(p + Adjust(p, alignment), size)
                 /\ Return(p + Adjust(p, alignment), size)
            /\ UNCHANGED failed_
      /\ CallOnly /\ UNCHANGED <<brk, huge>>

\* HugetlbSysAllocator::Alloc and AllocInternal: one file, mapped piece after
\* piece; nothing is trimmed.  Whatever fails is asked of the fallback.
HugeAlloc ==
  LET alignment == Max({saCall.alignment, BigPage})
      size == RoundUp(saCall.size, alignment)
      extra == alignment - BigPage
      holes == Holes(size + extra, BigPage)
      overLimit == huge.limit > 0 /\ huge.base + size + extra > huge.limit
      GiveUp(failed) == /\ huge' = [huge EXCEPT !.failed = failed]
                        /\ At("default") /\ NothingReturned /\ UNCHANGED mmaps
  IN  /\ saCall.at = "huge"
      /\ \/ size < saCall.size /\ GiveUp(FALSE)
         \/ size >= saCall.size /\ overLimit /\ GiveUp(huge.limit - huge.base < BigPage)
         \/ size >= saCall.size /\ ~overLimit /\ holes = {} /\ GiveUp(TRUE)
         \/ /\ size >= saCall.size /\ ~overLimit
            /\ \E p \in holes :
                 /\ mmaps' = mmaps \cup Units(p, size + extra)
                 /\ huge' = [huge EXCEPT !.base = @ + size + extra]
                 /\ Return(p + Adjust(p, alignment), size + extra - Adjust(p, alignment))
      /\ CallOnly /\ UNCHANGED <<brk, failed_>>

\* TCMalloc_SystemRelease of what the page heap was given: whole pages only.
SystemRelease ==
  \E g \in grants :
    LET s == g.start + Adjust(g.start, pagesize)
        e == ((g.start + g.len) \div pagesize) * pagesize
    IN  /\ saCall = NoCall /\ g.for = "pages" /\ e > s
        /\ advised' = advised \cup (s .. (e - 1))
        /\ UNCHANGED <<brk, foreign, mmaps, skip, mmapFirst, failed_, huge, saCall, grants,
                       systemTaken, chunk, freeArea, freeList, objects, saCalls>>

\* The program calls sbrk itself, and the flags get their values late.
ProgramSbrk ==
  /\ CanGrow(1) /\ saCalls < SaMaxCalls
  /\ foreign' = foreign \cup {brk} /\ brk' = brk + 1 /\ saCalls' = saCalls + 1
  /\ UNCHANGED <<mmaps, skip, mmapFirst, failed_, huge, saCall, grants, systemTaken, advised,
                 chunk, freeArea, freeList, objects>>

FlagsInitialised ==
  /\ \E s \in [sbrk : BOOLEAN, mmap : BOOLEAN] : s # skip /\ ~skip.sbrk /\ ~skip.mmap
                                                 /\ skip' = s
  /\ UNCHANGED <<brk, foreign, mmaps, mmapFirst, failed_, huge, saCall, grants, systemTaken,
                 advised, chunk, freeArea, freeList, objects, saCalls>>

SystemNext ==
  \/ PageHeapGrows \/ MetaDataAllocLarge \/ New \/ NewNeedsChunk \/ DeleteObject
  \/ TryChild \/ SbrkFirst \/ SbrkExtra \/ SbrkAgain \/ MmapAlloc \/ HugeAlloc
  \/ SystemRelease \/ ProgramSbrk \/ FlagsInitialised

SystemSpec == SystemInit /\ [][SystemNext]_saVars

-----------------------------------------------------------------------------
GrantUnits(g) == Units(g.start, g.len)

\* TCMalloc_SystemAlloc: what it returned is large enough, aligned, mapped or
\* below the break, nobody else's, and counted in TCMalloc_SystemTaken; and
\* only such memory is given to madvise.
GrantsOwned ==
  /\ \A g \in grants :
       /\ g.len >= g.size /\ g.start % g.alignment = 0
       /\ GrantUnits(g) \subseteq mmaps \cup ((BrkStart .. (brk - 1)) \ foreign)
       /\ \A h \in grants : g # h => GrantUnits(g) \cap GrantUnits(h) = {}
  /\ systemTaken = MapThenSumSet(LAMBDA g : g.len, grants)
  /\ advised \subseteq UNION {GrantUnits(g) : g \in {h \in grants : h.for = "pages"}}

\* PageHeapAllocator, MetaDataAlloc: an object of the allocator is not free
\* and live at once, and neither it nor what is still to be carved, from the
\* area or from the chunk, is memory of the page heap or part of the other.
ObjectsOwned ==
  LET listed == ToSet(freeList)
      area == Units(freeArea.at, freeArea.avail)
      rest == Units(chunk.alloc, chunk.avail)
      metadata == UNION {GrantUnits(g) : g \in {h \in grants : h.for = "metadata"}}
  IN  /\ objects \cap listed = {} /\ Cardinality(listed) = Len(freeList)
      /\ (objects \cup listed) \cap area = {}
      /\ (objects \cup listed \cup area) \cap rest = {}
      /\ objects \cup listed \cup area \cup rest \subseteq metadata
=============================================================================
