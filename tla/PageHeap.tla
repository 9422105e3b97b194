------------------------------ MODULE PageHeap ------------------------------
(***************************************************************************)
(* The page heap (page_heap.cc): span descriptors, the page map, the free  *)
(* lists, the memory statistics, release to the system and growth.         *)
(*                                                                         *)
(* Every operation runs under pageheap_lock, so there is one call at a     *)
(* time; the variable call is its control state, and one step is one list  *)
(* examined, one span carved, released or merged, or one system call.      *)
(* The lists need no variable: a free span is on the list of its length    *)
(* and location, and which end of a list is taken is left open.  Sizes are *)
(* counted in pages.                                                       *)
(***************************************************************************)
EXTENDS Integers, FiniteSets

CONSTANTS
  NPages,                 \* pages of address space, numbered 1..NPages
  kMaxPages,              \* spans of this length or more share one list
  Requests,               \* lengths asked of New
  Releases,               \* lengths asked of ReleaseAtLeastNPages
  HeapLimit,              \* FLAGS_tcmalloc_heap_limit_mb in pages; 0: none
  ReleaseResults,         \* what TCMalloc_SystemRelease may return
  Modes,                  \* initial values of aggressive_decommit_
  kDefaultReleaseDelay,
  kMaxReleaseDelay,
  ReleaseWait,            \* 1000 / FLAGS_tcmalloc_release_rate; 0: rate 0
  kForcedCoalesceInterval

ASSUME PageHeapAssumption ==
  /\ NPages \in Nat \ {0}
  /\ kMaxPages \in Nat \ {0}
  /\ Requests \cup Releases \subseteq 1 .. NPages
  /\ {HeapLimit, ReleaseWait} \subseteq Nat
  /\ {kDefaultReleaseDelay, kMaxReleaseDelay} \subseteq Nat
  /\ kForcedCoalesceInterval \in Nat \ {0}
  /\ ReleaseResults \subseteq BOOLEAN /\ ReleaseResults # {}
  /\ Modes \subseteq BOOLEAN /\ Modes # {}

VARIABLES
  span,              \* descriptors: start, length, location, sizeclass
  pagemap,           \* page -> descriptor, 0 for NULL; stale inside spans
  stats,             \* system, free, unmapped and committed pages
  aggressive,        \* aggressive_decommit_
  scavenge_counter,
  release_index,
  system,            \* pages obtained from the system
  dirty,             \* free pages that may hold something else than zeros
  call               \* the call in progress

heapVars == <<span, pagemap, stats, dirty>>
pageHeapVars == <<span, pagemap, stats, aggressive, scavenge_counter, release_index,
          system, dirty, call>>

Page == 1 .. NPages
Descriptor == 1 .. NPages
kMinSystemAlloc == kMaxPages

Deleted == [start |-> 0, length |-> 0, location |-> "DELETED", sizeclass |-> 0]
Live == {d \in Descriptor : span[d].location # "DELETED"}
InUse == {d \in Descriptor : span[d].location = "IN_USE"}
Free(loc) == {d \in Descriptor : span[d].location = loc}

LastPage(s) == s.start + s.length - 1
PagesOf(s) == s.start .. LastPage(s)

\* The free spans with location loc on the list of index i.
List(loc, i) ==
  {d \in Free(loc) : IF i = kMaxPages THEN span[d].length >= kMaxPages
                     ELSE span[d].length = i}

\* NewSpan takes an unused descriptor: the one with the number of the span's
\* first page if it can, to keep the number of states down.
NewDescriptor(p) ==
  IF p \notin Live THEN p
  ELSE CHOOSE d \in Descriptor \ Live : TRUE

-----------------------------------------------------------------------------
(* Statistics and lists.                                                   *)

\* Mutant: every free span is counted as mapped.
CounterNormal(loc) == "free"

Counter(loc) == IF loc = "NORMAL" THEN "free" ELSE "unmapped"

RemoveFromFreeList(st, s) == [st EXCEPT ![Counter(s.location)] = @ - s.length]
PrependToFreeList(st, s) == [st EXCEPT ![Counter(s.location)] = @ + s.length]

\* Mutant: the last page is not recorded.
RecordFirstPage(pm, d, s) == [pm EXCEPT ![s.start] = d]

RecordSpan(pm, d, s) == [pm EXCEPT ![s.start] = d, ![LastPage(s)] = d]

MayMergeSpans(s, other) ==
  IF aggressive THEN other.location # "IN_USE"
  ELSE other.location = s.location

\* Mutant: spares small spans.
DecommitsLarge(s, rv) == aggressive /\ rv /\ s.length >= kMaxPages

\* MergeIntoFreeList ends with a successful DecommitSpan(s).
Decommits(s, rv) == aggressive /\ rv

\* MergeIntoFreeList of descriptor d, whose content is s and which is on no
\* list, given the result rv of the release in aggressive mode.
Merged(sp, pm, st, d, s, rv) ==
  LET prev == pm[s.start - 1]
      next == pm[s.start + s.length]
      eaten == {e \in {prev, next} \ {0} : MayMergeSpans(s, sp[e])}
      before == IF prev \in eaten THEN sp[prev].length ELSE 0
      after == IF next \in eaten THEN sp[next].length ELSE 0
      back == {e \in eaten : sp[e].location = "RETURNED"}
      temp == (IF prev \in back THEN before ELSE 0)
                + (IF next \in back THEN after ELSE 0)
      joined == [s EXCEPT !.start = @ - before, !.length = before + @ + after]
      off == Decommits(joined, rv)
      whole == IF off THEN [joined EXCEPT !.location = "RETURNED"] ELSE joined
      removed == [st EXCEPT !.free = @ - (before + after - temp),
                            !.unmapped = @ - temp]
      decommitted == [removed EXCEPT
                        !.committed = @ - (IF off THEN whole.length - temp ELSE 0)]
  IN  [span |-> [e \in Descriptor |-> IF e = d THEN whole
                                      ELSE IF e \in eaten THEN Deleted
                                      ELSE sp[e]],
       pagemap |-> [p \in 0 .. NPages + 1 |->
                      IF (prev \in eaten /\ p = whole.start)
                           \/ (next \in eaten /\ p = LastPage(whole))
                      THEN d ELSE pm[p]],
       stats |-> PrependToFreeList(decommitted, whole),
       zeroed |-> IF off THEN PagesOf(whole) ELSE {}]

-----------------------------------------------------------------------------
(* Control.                                                                *)

Idle == [at |-> "idle", n |-> 0, s |-> 0, round |-> 0, ask |-> 0,
         goal |-> 0, done |-> 0, i |-> 0, ret |-> "idle"]

\* SearchFreeAndLargeLists for n pages: lists n, n+1, ..., then the large list.
\* New searches up to three times.
Search(n, round) ==
  [Idle EXCEPT !.at = "search", !.n = n, !.round = round,
               !.s = IF n < kMaxPages THEN n ELSE kMaxPages]

\* EnsureLimit: TCMalloc_SystemTaken less the pages that were released.
Taken == stats.system - stats.unmapped

\* Mutant: forgets the pages asked for.
WithinLimitAlready(n) == HeapLimit = 0 \/ Taken <= HeapLimit

WithinLimit(n) == HeapLimit = 0 \/ Taken + n <= HeapLimit

\* ReleaseAtLeastNPages(n), called by the step that goes on at ret.
StartRelease(c, n, ret) ==
  [c EXCEPT !.at = "release", !.goal = n, !.done = 0, !.i = 0, !.ret = ret]

\* EnsureLimit(n) with release, when the limit is exceeded.
StartEnsure(n, ret) == StartRelease(call, Taken + n - HeapLimit, ret)
Ensured == call.done >= call.goal

\* SearchFreeAndLargeLists has found nothing.
SearchFailed ==
  IF /\ call.round = 1
     /\ stats.free # 0 /\ stats.unmapped # 0
     /\ stats.free + stats.unmapped >= stats.system \div 4
     /\ stats.system \div kForcedCoalesceInterval
          # (stats.system + call.n) \div kForcedCoalesceInterval
  THEN StartRelease(call, NPages + 1, "coalesced")
  ELSE IF call.round = 3 THEN Idle
  ELSE [call EXCEPT !.at = "grow", !.ask = IF call.n > kMinSystemAlloc THEN call.n
                                           ELSE kMinSystemAlloc]

\* Mutant: tries n pages for ever.
GrowAgain == [call EXCEPT !.at = "grow", !.ask = call.n]

\* The system, or the heap limit, refused call.ask pages.
GrowFailed ==
  IF call.n < call.ask THEN [call EXCEPT !.at = "grow", !.ask = call.n] ELSE Idle

-----------------------------------------------------------------------------
PageHeapInit ==
  /\ span = [d \in Descriptor |-> Deleted]
  /\ pagemap = [p \in 0 .. NPages + 1 |-> 0]
  /\ stats = [system |-> 0, free |-> 0, unmapped |-> 0, committed |-> 0]
  /\ aggressive \in Modes
  /\ scavenge_counter = 0
  /\ release_index = kMaxPages
  /\ system = {}
  /\ dirty = {}
  /\ call = Idle

ApplyMerge(m) ==
  /\ span' = m.span
  /\ pagemap' = m.pagemap
  /\ stats' = m.stats

\* Mutant: the span keeps its length although the rest is a span of its own.
CarveUncut(d, n) ==
  LET s == span[d]
      e == NewDescriptor(span[d].start + n)
      rest == [s EXCEPT !.start = @ + n, !.length = @ - n]
      taken == RemoveFromFreeList(stats, s)
      cut == rest.length > 0
  IN  /\ span' = IF cut THEN [span EXCEPT ![d].location = "IN_USE", ![e] = rest]
                 ELSE [span EXCEPT ![d].location = "IN_USE"]
      /\ pagemap' = IF cut THEN [RecordSpan(pagemap, e, rest)
                                   EXCEPT ![s.start + n - 1] = d]
                    ELSE pagemap
      /\ stats' = IF cut THEN PrependToFreeList(taken, rest) ELSE taken

\* Carve the first n pages of the free span d; the rest stays on the list of
\* its own length.
Carve(d, n) ==
  LET s == span[d]
      e == NewDescriptor(span[d].start + n)
      rest == [s EXCEPT !.start = @ + n, !.length = @ - n]
      taken == RemoveFromFreeList(stats, s)
      cut == rest.length > 0
  IN  /\ span' = IF cut THEN [span EXCEPT ![d].length = n, ![d].location = "IN_USE",
                                          ![e] = rest]
                 ELSE [span EXCEPT ![d].location = "IN_USE"]
      /\ pagemap' = IF cut THEN [RecordSpan(pagemap, e, rest)
                                   EXCEPT ![s.start + n - 1] = d]
                    ELSE pagemap
      /\ stats' = LET st == IF cut THEN PrependToFreeList(taken, rest) ELSE taken
                  IN  IF s.location = "RETURNED"
                      THEN [st EXCEPT !.committed = @ + n] ELSE st

\* New returns the first call.n pages of the free span d.
ReturnCarved(d) ==
  /\ Carve(d, call.n)
  /\ dirty' = dirty \ PagesOf(span'[d])
  /\ call' = Idle
  /\ UNCHANGED <<aggressive, scavenge_counter, release_index, system>>

Continue(c) == call' = c /\ UNCHANGED <<heapVars, aggressive, scavenge_counter,
                                        release_index, system>>

\* PageHeap::New.
NewCall(n) == call.at = "idle" /\ Continue(Search(n, 1))

\* SearchFreeAndLargeLists comes to the list of s pages: the ones before it
\* have no span.
Empty(s) == List("NORMAL", s) \cup List("RETURNED", s) = {}
ComesTo(s) == call.at = "search" /\ \A t \in call.s .. s - 1 : Empty(t)

SearchSmall ==
  \E s \in call.s .. kMaxPages - 1 :
    /\ ComesTo(s) /\ ~ Empty(s)
    /\ \/ \E d \in List("NORMAL", s) : ReturnCarved(d)
       \/ /\ List("NORMAL", s) = {}
          /\ WithinLimit(call.n)
          /\ \E d \in List("RETURNED", s) : ReturnCarved(d)
       \/ /\ List("NORMAL", s) = {}
          /\ ~ WithinLimit(call.n)
          /\ Continue([StartEnsure(call.n, "small") EXCEPT !.s = s])

\* After EnsureLimit, which may have emptied the list by coalescing.
SearchSmallEnsured ==
  /\ call.at = "small"
  /\ \/ Ensured /\ \E d \in List("RETURNED", call.s) : ReturnCarved(d)
     \/ /\ ~ Ensured \/ List("RETURNED", call.s) = {}
        /\ Continue([call EXCEPT !.at = "search", !.s = @ + 1])

\* The best fit among the large spans with one of the locations.
BestFit(locs, n) ==
  LET fits == {d \in UNION {List(l, kMaxPages) : l \in locs} : span[d].length >= n}
  IN  {d \in fits : \A e \in fits : \/ span[d].length < span[e].length
                                    \/ /\ span[d].length = span[e].length
                                       /\ span[d].start <= span[e].start}

\* AllocLarge.
AllocLarge ==
  /\ ComesTo(kMaxPages)
  /\ LET best == BestFit({"NORMAL", "RETURNED"}, call.n)
     IN  \/ best = {} /\ Continue(SearchFailed)
         \/ \E d \in best : /\ span[d].location = "NORMAL" \/ WithinLimit(call.n)
                            /\ ReturnCarved(d)
         \/ /\ \E d \in best : span[d].location = "RETURNED"
            /\ ~ WithinLimit(call.n)
            /\ Continue(StartEnsure(call.n, "large"))

AllocLargeEnsured ==
  /\ call.at = "large"
  /\ Continue(IF Ensured THEN [call EXCEPT !.at = "search"] ELSE SearchFailed)

\* New: all free pages were released so that free spans are coalesced.
Coalesced == call.at = "coalesced" /\ Continue(Search(call.n, 2))

\* GrowHeap, up to the system call.
Grow ==
  /\ call.at = "grow"
  /\ Continue(IF WithinLimit(call.ask) THEN [call EXCEPT !.at = "sysalloc"]
              ELSE StartEnsure(call.ask, "grown"))

GrowEnsured ==
  /\ call.at = "grown"
  /\ Continue(IF Ensured THEN [call EXCEPT !.at = "sysalloc"] ELSE GrowFailed)

\* IncrementalScavenge after n freed pages, then on with c.
IncrementalScavenge(n, c) ==
  LET left == scavenge_counter - n
  IN  IF left >= 0 THEN scavenge_counter' = left /\ call' = c
      ELSE IF ReleaseWait = 0
      THEN scavenge_counter' = kDefaultReleaseDelay /\ call' = c
      ELSE scavenge_counter' = left /\ call' = StartRelease(c, 1, "scavenged")

Scavenged ==
  /\ call.at = "scavenged"
  /\ scavenge_counter' =
       IF call.done = 0 THEN kDefaultReleaseDelay
       ELSE IF ReleaseWait * call.done > kMaxReleaseDelay THEN kMaxReleaseDelay
       ELSE ReleaseWait * call.done
  /\ call' = IF call.n = 0 THEN Idle ELSE Search(call.n, 3)
  /\ UNCHANGED <<heapVars, aggressive, release_index, system>>

\* GrowHeap with the memory it asked for: the new pages are made a span and
\* deleted.  The page map may lack memory for them, and then they are lost.
SystemAlloc ==
  /\ call.at = "sysalloc"
  /\ \E p \in Page :
       LET new == [start |-> p, length |-> call.ask, location |-> "NORMAL",
                   sizeclass |-> 0]
           grown == [stats EXCEPT !.system = @ + call.ask,
                                  !.committed = @ + call.ask]
           d == NewDescriptor(p)
       IN  /\ PagesOf(new) \subseteq Page \ system
           /\ system' = system \cup PagesOf(new)
           /\ \/ /\ \E rv \in ReleaseResults :
                      LET m == Merged(span, RecordSpan(pagemap, d, new), grown,
                                      d, new, rv)
                      IN  ApplyMerge(m) /\ dirty' = dirty \ m.zeroed
                 /\ IncrementalScavenge(call.ask, Search(call.n, 3))
              \/ /\ stats' = grown
                 /\ call' = Idle
                 /\ UNCHANGED <<span, pagemap, dirty, scavenge_counter>>
           /\ UNCHANGED <<aggressive, release_index>>

SystemAllocFails == call.at = "sysalloc" /\ Continue(GrowFailed)

\* PageHeap::Delete of a span that New returned.  Its user may have written to
\* every page.
Delete(d) ==
  LET freed == [span[d] EXCEPT !.location = "NORMAL", !.sizeclass = 0]
  IN  /\ call.at = "idle"
      /\ d \in InUse
      /\ \E rv \in ReleaseResults :
           LET m == Merged(span, pagemap, stats, d, freed, rv)
           IN  ApplyMerge(m) /\ dirty' = (dirty \cup PagesOf(freed)) \ m.zeroed
      /\ IncrementalScavenge(freed.length, Idle)
      /\ UNCHANGED <<aggressive, release_index, system>>

\* PageHeap::Split.
Split(d, n) ==
  LET s == span[d]
      e == NewDescriptor(span[d].start + n)
      rest == [s EXCEPT !.start = @ + n, !.length = @ - n]
  IN  /\ call.at = "idle"
      /\ d \in InUse /\ s.sizeclass = 0 /\ n < s.length
      /\ span' = [span EXCEPT ![d].length = n, ![e] = rest]
      /\ pagemap' = [RecordSpan(pagemap, e, rest) EXCEPT ![s.start + n - 1] = d]
      /\ UNCHANGED <<stats, aggressive, scavenge_counter, release_index, system,
                     dirty, call>>

\* PageHeap::RegisterSizeClass.
RegisterSizeClass(d) ==
  /\ call.at = "idle"
  /\ d \in InUse /\ span[d].sizeclass = 0
  /\ span' = [span EXCEPT ![d].sizeclass = 1]
  /\ pagemap' = [p \in DOMAIN pagemap |->
                   IF p \in span[d].start + 1 .. LastPage(span[d]) - 1 THEN d
                   ELSE pagemap[p]]
  /\ UNCHANGED <<stats, aggressive, scavenge_counter, release_index, system,
                 dirty, call>>

\* ReleaseAtLeastNPages called from outside, by MallocExtension::ReleaseToSystem.
ReleasePages(n) ==
  call.at = "idle" /\ Continue(StartRelease(Idle, n, "idle"))

\* ReleaseAtLeastNPages has nothing more to do.
ReleaseDone ==
  /\ call.at = "release"
  /\ Ensured \/ (call.i = 0 /\ stats.free = 0)
  /\ Continue([call EXCEPT !.at = call.ret])

\* One list of the round robin of ReleaseAtLeastNPages, with
\* ReleaseLastNormalSpan if the list has a normal span.
ReleaseOne ==
  LET idx == IF release_index > kMaxPages THEN 0 ELSE release_index
      turn == (call.i + 1) % (kMaxPages + 1)
  IN  /\ call.at = "release"
      /\ ~ Ensured /\ (call.i # 0 \/ stats.free # 0)
      /\ \/ /\ List("NORMAL", idx) = {}
            /\ release_index' = idx + 1
            /\ call' = [call EXCEPT !.i = turn]
            /\ UNCHANGED heapVars
         \/ /\ List("NORMAL", idx) # {}
            /\ FALSE \in ReleaseResults
            /\ release_index' = idx
            /\ call' = [call EXCEPT !.at = call.ret]
            /\ UNCHANGED heapVars
         \/ \E d \in List("NORMAL", idx), rv \in ReleaseResults :
              LET s == [span[d] EXCEPT !.location = "RETURNED"]
                  off == [stats EXCEPT !.committed = @ - s.length,
                                       !.free = @ - s.length]
                  m == Merged(span, pagemap, off, d, s, rv)
              IN  /\ TRUE \in ReleaseResults
                  /\ ApplyMerge(m)
                  /\ dirty' = dirty \ (PagesOf(s) \cup m.zeroed)
                  /\ release_index' = idx + 1
                  /\ call' = [call EXCEPT !.i = turn, !.done = @ + s.length]
      /\ UNCHANGED <<aggressive, scavenge_counter, system>>

\* The steps of a call in progress.
Step ==
  \/ SearchSmall
  \/ SearchSmallEnsured
  \/ AllocLarge
  \/ AllocLargeEnsured
  \/ Coalesced
  \/ Grow
  \/ GrowEnsured
  \/ Scavenged
  \/ SystemAlloc
  \/ SystemAllocFails
  \/ ReleaseDone
  \/ ReleaseOne

PageHeapNext ==
  \/ Step
  \/ \E n \in Requests : NewCall(n)
  \/ \E d \in Descriptor : Delete(d)
  \/ \E d \in Descriptor, n \in Page : Split(d, n)
  \/ \E d \in Descriptor : RegisterSizeClass(d)
  \/ \E n \in Releases : ReleasePages(n)

\* Fairness: a thread that holds pageheap_lock goes on.
PageHeapSpec == PageHeapInit /\ [][PageHeapNext]_pageHeapVars /\ WF_pageHeapVars(Step)

-----------------------------------------------------------------------------
(* Properties.                                                             *)

\* Type invariant.
PageHeapTypeOK ==
  /\ span \in [Descriptor ->
                 [start : 0 .. NPages, length : 0 .. NPages,
                  location : {"DELETED", "IN_USE", "NORMAL", "RETURNED"},
                  sizeclass : {0, 1}]]
  /\ pagemap \in [0 .. NPages + 1 -> Descriptor \cup {0}]
  /\ stats \in [system : Nat, free : Int, unmapped : Int, committed : Int]
  /\ aggressive \in BOOLEAN
  /\ scavenge_counter \in Int
  /\ release_index \in 0 .. kMaxPages + 1
  /\ system \subseteq Page /\ dirty \subseteq Page

\* The descriptors describe disjoint runs of pages of the system, and the page
\* map knows each run by its first and last page, and a run of small objects by
\* all of its pages: what MergeIntoFreeList and MapObjectToSpan rely on while
\* entries inside spans are left stale.
PagemapKnowsSpans ==
  \A d \in Live :
    /\ PagesOf(span[d]) \subseteq system /\ span[d].length > 0
    /\ pagemap[span[d].start] = d
    /\ pagemap[LastPage(span[d])] = d
    /\ span[d].sizeclass # 0 => \A p \in PagesOf(span[d]) : pagemap[p] = d
    /\ \A e \in Live \ {d} : PagesOf(span[d]) \cap PagesOf(span[e]) = {}

\* The two ASSERTs of MergeIntoFreeList: the descriptors found just before and
\* just after a span are those of its neighbours, never a stale one.
NeighboursAreReal ==
  \A d \in Live :
    LET prev == pagemap[span[d].start - 1]
        next == pagemap[LastPage(span[d]) + 1]
    IN  /\ prev # 0 => prev \in Live /\ LastPage(span[prev]) + 1 = span[d].start
        /\ next # 0 => next \in Live /\ span[next].start = LastPage(span[d]) + 1

\* Eager coalescing: two neighbours on free lists are never of the kind that
\* MergeIntoFreeList would have merged.  Carve relies on it when it puts the
\* rest of a span back without coalescing.
EagerlyCoalesced ==
  \A d, e \in Live :
    LastPage(span[d]) + 1 = span[e].start
      => \/ "IN_USE" \in {span[d].location, span[e].location}
         \/ ~ aggressive /\ span[d].location # span[e].location

\* PageHeap: the page map knows the disjoint spans by their ends, the neighbours
\* MergeIntoFreeList finds through it are real although entries inside spans are
\* stale, and no two neighbours are left that it would have merged.
SpansCoherent == PageHeapTypeOK /\ PagemapKnowsSpans /\ NeighboursAreReal /\ EagerlyCoalesced

\* ASSERT(stats_.unmapped_bytes + stats_.committed_bytes == stats_.system_bytes)
\* of New, Carve, Delete and GrowHeap.
CommittedExact == stats.unmapped + stats.committed = stats.system

\* free_bytes and unmapped_bytes are what the lists hold, so the loop of
\* ReleaseAtLeastNPages ends, and EnsureLimit and the statistics are right.
ListsMatchStats ==
  LET pages(loc) == UNION {PagesOf(span[d]) : d \in Free(loc)}
  IN  /\ stats.free = Cardinality(pages("NORMAL"))
      /\ stats.unmapped = Cardinality(pages("RETURNED"))
      /\ stats.system = Cardinality(system)

\* tcmalloc_heap_limit_mb: the pages that are not released never exceed it,
\* although New takes pages from the released lists, from the normal lists and
\* from the system, and releases others to make room.
LimitRespected == HeapLimit # 0 => Taken <= HeapLimit

\* PageHeap under a heap limit, with releases that fail: the statistics that
\* EnsureLimit and the release loop go by are those of the lists, and while
\* aggressive decommit does not meet a failing release, the limit is kept and
\* the committed count is exact.
HeapLimitKept ==
  /\ ListsMatchStats
  /\ ~ aggressive \/ FALSE \notin ReleaseResults => LimitRespected /\ CommittedExact

\* A step of New that returns pages which may hold something else than zeros.
ReturnsDirtyPages ==
  \E d \in InUse' \ InUse :
    call.at # "idle" /\ PagesOf(span'[d]) \cap dirty # {}

\* do_calloc does not clear objects beyond kMaxSize: the pages New returns must
\* be zero already.
NewReturnsZeros == [][~ ReturnsDirtyPages]_pageHeapVars

\* The same of a heap in aggressive mode, which releases what it is given back.
AggressiveReturnsZeros == [][aggressive => ~ ReturnsDirtyPages]_pageHeapVars

\* Every call returns.
CallsReturn == call.at # "idle" ~> call.at = "idle"

\* The page heap implements the allocator of disjoint spans that the layers
\* above it assume.
Allocator == INSTANCE SpanAllocator WITH
  alloc <- {[start |-> span[d].start, len |-> span[d].length] : d \in InUse}
ImplementsAllocator == Allocator!AllocSpec

=============================================================================
