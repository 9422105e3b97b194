--------------------------- MODULE PageHeapProofs ---------------------------
(***************************************************************************)
(* The theorems about the page heap: coherent spans, the refinement of     *)
(* SpanAllocator, exact statistics, the heap limit and zeroed pages.       *)
(***************************************************************************)
EXTENDS PageHeapSteps, FiniteSetTheorems

-----------------------------------------------------------------------------
(* The invariant.                                                          *)

\* There is a descriptor for a span that begins where no other does: the live
\* spans begin at different pages, so they do not use all descriptors.
LEMMA FreshDescriptors == Spans => Fresh
<1> SUFFICES ASSUME Spans, NEW p \in Page, \A x \in LiveIn(span) : span[x].start # p
             PROVE  NewDescriptor(p) \in Descriptor \ LiveIn(span)
  BY Zenon DEF Fresh
<1>1. p \in Descriptor
  BY Zenon DEF Page, Descriptor
<1>2. ASSUME Descriptor \subseteq LiveIn(span) PROVE FALSE
  <2> DEFINE f == [x \in Descriptor |-> span[x].start]
             T == Page \ {p}
  <2>1. IsFiniteSet(Page) /\ Cardinality(Page) = NPages
    <3>1. 1 \in Int /\ NPages \in Int
      BY PageHeapAssumption, SMTT(30)
    <3>2. ~ (1 > NPages) /\ NPages - 1 + 1 = NPages
      BY PageHeapAssumption, SMTT(30)
    <3>3. IsFiniteSet(1 .. NPages) /\ Cardinality(1 .. NPages) = NPages - 1 + 1
      BY <3>1, <3>2, FS_Interval, Zenon
    <3> QED
      BY <3>2, <3>3, Zenon DEF Page
  <2>2. IsFiniteSet(T) /\ Cardinality(T) = NPages - 1
    BY <2>1, FS_RemoveElement, Zenon
  <2>3. Cardinality(T) < Cardinality(Page)
    BY <2>1, <2>2, PageHeapAssumption, SMTT(30)
  <2>4. f \in [Page -> T]
    <3>1. ASSUME NEW x \in Page PROVE span[x].start \in T
      <4>1. x \in LiveIn(span)
        BY <1>2, Zenon DEF Page, Descriptor
      <4>2. span[x].start \in Page
        BY <4>1, SpanFacts, Zenon DEF Spans, Layout, Proper
      <4> QED
        BY <4>1, <4>2, Zenon
    <3>2. Page = Descriptor
      BY DEF Page, Descriptor
    <3> HIDE DEF T
    <3> QED
      BY <3>1, <3>2, Zenon
  <2> HIDE DEF T
  <2>5. PICK x \in Page, y \in Page : x # y /\ f[x] = f[y]
    <3> HIDE DEF f
    <3> QED
      BY <2>1, <2>2, <2>3, <2>4, FS_PigeonHole, Zenon
  <2>6. x \in LiveIn(span) /\ y \in LiveIn(span) /\ span[x].start = span[y].start
    BY <1>2, <2>5, Zenon DEF Page, Descriptor
  <2> QED
    BY <2>5, <2>6, SpansApart, Zenon DEF Spans
<1>3. PICK x \in Descriptor : x \notin LiveIn(span)
  BY <1>2, Zenon
<1> QED
  BY <1>1, <1>3, LiveNow, Zenon DEF NewDescriptor

LEMMA SpansInit == PageHeapInit => Spans
<1> SUFFICES ASSUME PageHeapInit PROVE Spans
  OBVIOUS
<1>1. Deleted \in SpanRecord /\ Deleted.location = "DELETED"
  BY PageHeapAssumption, SMTT(30) DEF Deleted, SpanRecord, Located
<1>2. LiveIn(span) = {}
  BY <1>1, Zenon DEF PageHeapInit, LiveIn
<1>3. 0 \in 0 .. NPages + 1 /\ NPages + 1 \in 0 .. NPages + 1
      /\ \A p \in Page : p \in 0 .. NPages + 1
  BY PageHeapAssumption, SMTT(30) DEF Page
<1>4. Layout
  BY <1>1, <1>2, <1>3, Zenon DEF PageHeapInit, Layout, Known, Eager
<1>5. Bookkeeping
  <2>1. 0 \in Int /\ kMaxPages \in 0 .. kMaxPages + 1
        /\ [system |-> 0, free |-> 0, unmapped |-> 0, committed |-> 0] \in StatsRecord
    BY PageHeapAssumption, SMTT(30) DEF StatsRecord
  <2> QED
    BY <2>1, Zenon DEF PageHeapInit, Bookkeeping
<1> QED
  BY <1>4, <1>5, IdleCall, Zenon DEF PageHeapInit, Spans

LEMMA SpansNext == Spans /\ [PageHeapNext]_pageHeapVars => Spans'
<1>1. ASSUME Spans, UNCHANGED pageHeapVars PROVE Spans'
  BY <1>1 DEF pageHeapVars, Spans, Layout, Bookkeeping
<1> QED
  BY <1>1, FreshDescriptors, SpansKept, Zenon

\* The invariant in the terms of the page heap.
LEMMA SpansMean == Spans => SpansCoherent
<1> SUFFICES ASSUME Spans PROVE SpansCoherent
  OBVIOUS
<1>1. Known(span, pagemap, system) /\ Eager(aggressive, span, {}) /\ Live = LiveIn(span)
  BY LiveNow, Zenon DEF Spans, Layout
<1>2. \A x \in LiveIn(span) : Proper(span, pagemap, x)
  BY <1>1, SpanFacts, Zenon
<1>3. PageHeapTypeOK
  <2>1. span \in [Descriptor -> [start : 0 .. NPages, length : 0 .. NPages,
                                 location : {"DELETED", "IN_USE", "NORMAL", "RETURNED"},
                                 sizeclass : {0, 1}]]
    <3>1. Located \cup {"DELETED"} = {"DELETED", "IN_USE", "NORMAL", "RETURNED"}
      BY Zenon DEF Located
    <3> QED
      BY <1>1, <3>1, Zenon DEF Known, SpanRecord
  <2>2. aggressive \in BOOLEAN
    BY PageHeapAssumption, Zenon DEF Spans, Bookkeeping
  <2> QED
    BY <1>1, <2>1, <2>2, Zenon DEF Known, Spans, Bookkeeping, StatsRecord, PageHeapTypeOK
<1>4. PagemapKnowsSpans
  <2> SUFFICES ASSUME NEW d \in LiveIn(span)
               PROVE  /\ PagesOf(span[d]) \subseteq system /\ span[d].length > 0
                      /\ pagemap[span[d].start] = d
                      /\ pagemap[LastPage(span[d])] = d
                      /\ span[d].sizeclass # 0 => \A p \in PagesOf(span[d]) : pagemap[p] = d
                      /\ \A e \in LiveIn(span) \ {d} : PagesOf(span[d]) \cap PagesOf(span[e]) = {}
    BY <1>1, Zenon DEF PagemapKnowsSpans
  <2>1. /\ PagesOf(span[d]) \subseteq system
        /\ \A e \in LiveIn(span) : PagesOf(span[e]) = {p \in Page : In(p, span[e])}
    BY <1>1, PagesIn, Zenon
  <2>2. span[d].length > 0
    <3>1. span[d].length \in Page
      BY <1>2, Zenon DEF Proper
    <3> QED
      BY <3>1, PageHeapAssumption, SMTT(30) DEF Page
  <2>3. pagemap[span[d].start] = d /\ pagemap[LastPage(span[d])] = d
    BY <1>2, Zenon DEF Proper
  <2>4. Whole(pagemap, system, d, span[d])
    BY <1>1, Zenon DEF Known
  <2>5. \A e \in LiveIn(span) \ {d} : PagesOf(span[d]) \cap PagesOf(span[e]) = {}
    <3>1. \A p \in Page, x, y \in LiveIn(span) : In(p, span[x]) /\ In(p, span[y]) => x = y
      BY <1>1, Zenon DEF Known
    <3> QED
      BY <2>1, <3>1, Zenon
  <2> QED
    BY <2>1, <2>2, <2>3, <2>4, <2>5, ZenonT(30) DEF Whole
<1>5. NeighboursAreReal
  <2>1. \A d \in LiveIn(span) : RealNeighbours(span, pagemap, d)
    BY <1>1, Neighbours, Zenon
  <2> QED
    BY <1>1, <2>1, ZenonT(30) DEF NeighboursAreReal, RealNeighbours
<1>6. EagerlyCoalesced
  BY <1>1, Zenon DEF EagerlyCoalesced, Eager
<1> QED
  BY <1>3, <1>4, <1>5, <1>6, Zenon DEF SpansCoherent

LEMMA SpansInvariant == PageHeapSpec => []Spans
  BY SpansInit, SpansNext, PTL DEF PageHeapSpec

\* Through any sequence of New, Delete, Split, RegisterSizeClass and releases,
\* failing or not, for a heap of any size and any parameters: the page map knows
\* the disjoint spans by their ends, the neighbours that MergeIntoFreeList finds
\* through it are real, and no two neighbours are left that it would have merged.
THEOREM PageHeapCoherent == PageHeapSpec => []SpansCoherent
  BY SpansInvariant, SpansMean, PTL

-----------------------------------------------------------------------------
(* The refinement of SpanAllocator, and the counts and zeroed pages of     *)
(* aggressive mode.                                                        *)

\* The page heap implements the allocator of disjoint spans: New returns a run of
\* free pages, whether it is carved from a normal, a released, a coalesced or a
\* fresh span, Delete and Split do what they should, and no other step of
\* page_heap.cc changes what its users hold.
THEOREM PageHeapRefinement == PageHeapSpec => ImplementsAllocator
<1>1. PageHeapInit => Allocator!AllocInit
  <2>1. ASSUME PageHeapInit PROVE InUse = {}
    <3>1. Deleted.location = "DELETED" /\ "DELETED" # "IN_USE"
      BY DEF Deleted
    <3> QED
      BY <2>1, <3>1, Zenon DEF PageHeapInit, InUse
  <2> QED
    BY <2>1, Zenon DEF Allocator!AllocInit
<1>2. Spans /\ [PageHeapNext]_pageHeapVars
        => [Allocator!AllocNext]_{[start |-> span[d].start, len |-> span[d].length] : d \in InUse}
  BY FreshDescriptors, StepRefines DEF Runs, RunOf
<1> QED
  BY <1>1, <1>2, SpansInvariant, PTL
     DEF PageHeapSpec, ImplementsAllocator, Allocator!AllocSpec

LEMMA ExactInvariant == PageHeapSpec => [](Spans /\ Exact)
<1>1. Spans /\ Exact /\ [PageHeapNext]_pageHeapVars => Exact'
  BY FreshDescriptors, SpansNext, ExactNext, Zenon
<1> QED
  BY <1>1, ExactInit, SpansInvariant, PTL DEF PageHeapSpec

\* When the system takes back the pages it is given, or the heap is not in
\* aggressive mode, the unmapped and the committed pages make up the pages of the
\* system: the ASSERT of New, Carve, Delete and GrowHeap, whatever was released,
\* merged and carved before.
THEOREM CommittedIsExact ==
  ASSUME FALSE \notin ReleaseResults \/ TRUE \notin Modes
  PROVE  PageHeapSpec => []CommittedExact
<1>1. Spans /\ Exact => CommittedExact
  BY Zenon DEF Spans, Bookkeeping, Exact, Obliging
<1> QED
  BY <1>1, ExactInvariant, PTL

\* A heap in aggressive mode, on a system that takes back what it is given,
\* returns pages that hold zeros from every New: do_calloc may go on without
\* clearing them.
THEOREM AggressiveNewReturnsZeros ==
  ASSUME FALSE \notin ReleaseResults
  PROVE  PageHeapSpec => AggressiveReturnsZeros
<1>1. PageHeapInit => Clean
  BY Zenon DEF PageHeapInit, Clean
<1>2. Spans /\ Clean /\ [PageHeapNext]_pageHeapVars => Clean'
  BY FreshDescriptors, CleanNext, Zenon
<1>3. Clean => (aggressive => ~ ReturnsDirtyPages)
  BY Zenon DEF Clean, ReturnsDirtyPages
<1>4. PageHeapSpec => []Clean
  BY <1>1, <1>2, SpansInvariant, PTL DEF PageHeapSpec
<1>5. Clean /\ [PageHeapNext]_pageHeapVars => [aggressive => ~ ReturnsDirtyPages]_pageHeapVars
  BY <1>3
<1> QED
  BY <1>4, <1>5, PTL DEF PageHeapSpec, AggressiveReturnsZeros

-----------------------------------------------------------------------------
(* The statistics are the sizes of the lists.                              *)

FreePages(sp, l) == {p \in Page : FreeAt(sp, l, p)}
Within(s) == {p \in Page : In(p, s)}

Counted ==
  /\ stats.free = Cardinality(FreePages(span, "NORMAL"))
  /\ stats.unmapped = Cardinality(FreePages(span, "RETURNED"))
  /\ stats.system = Cardinality(system)

LEMMA PageSets ==
  ASSUME NEW S \in SUBSET Page
  PROVE  IsFiniteSet(S) /\ Cardinality(S) \in Nat
<1>1. IsFiniteSet(Page)
  <2>1. 1 \in Int /\ NPages \in Int
    BY PageHeapAssumption, SMTT(30)
  <2> QED
    BY <2>1, FS_Interval, Zenon DEF Page
<1>2. IsFiniteSet(S)
  BY <1>1, FS_Subset, Zenon
<1> QED
  BY <1>2, FS_CardinalityType, Zenon

LEMMA SpanSize ==
  ASSUME NEW s \in SpanRecord, 0 < s.start, 0 < s.length, LastPage(s) <= NPages
  PROVE  Cardinality(Within(s)) = s.length
<1>1. /\ s.start \in Int /\ LastPage(s) \in Int /\ LastPage(s) - s.start + 1 = s.length
      /\ ~ (s.start > LastPage(s)) /\ NPages \in Nat
  BY RecordFacts, SMTT(30)
<1>2. \A p : p \in Within(s) <=> p \in s.start .. LastPage(s)
  BY <1>1, SMTT(30) DEF Within, In, Page
<1>3. Within(s) = s.start .. LastPage(s)
  BY <1>2, Zenon
<1>4. Cardinality(s.start .. LastPage(s)) = LastPage(s) - s.start + 1
  BY <1>1, FS_Interval, Zenon
<1> QED
  BY <1>1, <1>3, <1>4, Zenon

LEMMA TakeAway ==
  ASSUME NEW S \in SUBSET Page, NEW T \in SUBSET Page
  PROVE  /\ Cardinality(S \ T) = Cardinality(S) - Cardinality(S \cap T)
         /\ Cardinality(S \cup T) = Cardinality(S) + Cardinality(T) - Cardinality(S \cap T)
         /\ S \cap T = {} => /\ Cardinality(S \cup T) = Cardinality(S) + Cardinality(T)
                             /\ Cardinality(S \ T) = Cardinality(S)
         /\ T \subseteq S => Cardinality(S \ T) = Cardinality(S) - Cardinality(T)
<1>1. IsFiniteSet(S) /\ IsFiniteSet(T) /\ Cardinality(S) \in Nat /\ Cardinality(T) \in Nat
  BY PageSets, Zenon
<1>2. /\ Cardinality(S \ T) = Cardinality(S) - Cardinality(S \cap T)
      /\ Cardinality(S \cup T) = Cardinality(S) + Cardinality(T) - Cardinality(S \cap T)
  BY <1>1, FS_Difference, FS_Union, Zenon
<1>3. Cardinality({}) = 0
  BY FS_EmptySet, Zenon
<1>4. ASSUME S \cap T = {}
      PROVE  /\ Cardinality(S \cup T) = Cardinality(S) + Cardinality(T)
             /\ Cardinality(S \ T) = Cardinality(S)
  <2>1. /\ Cardinality(S \ T) = Cardinality(S) - 0
        /\ Cardinality(S \cup T) = Cardinality(S) + Cardinality(T) - 0
    BY <1>2, <1>3, <1>4, Zenon
  <2> QED
    BY <1>1, <2>1, SMTT(30)
<1>5. ASSUME T \subseteq S PROVE Cardinality(S \ T) = Cardinality(S) - Cardinality(T)
  <2>1. S \cap T = T
    BY <1>5, Zenon
  <2> QED
    BY <1>2, <2>1, Zenon
<1> QED
  BY <1>2, <1>4, <1>5, Zenon

\* The counts are what ListsMatchStats says.
LEMMA CountedMeans == Spans /\ Counted => ListsMatchStats
<1> SUFFICES ASSUME Spans, Counted PROVE ListsMatchStats
  OBVIOUS
<1>1. ASSUME NEW l \in {"NORMAL", "RETURNED"}
      PROVE  UNION {PagesOf(span[d]) : d \in Free(l)} = FreePages(span, l)
  <2>1. \A d : d \in Free(l) <=> d \in LiveIn(span) /\ span[d].location = l
    <3>1. l # "DELETED"
      BY SMTT(30)
    <3> QED
      BY <3>1, Zenon DEF Free, LiveIn
  <2>2. \A d \in LiveIn(span) : PagesOf(span[d]) = {p \in Page : In(p, span[d])}
    BY PagesIn, Zenon DEF Spans, Layout
  <2>3. ASSUME NEW p
        PROVE  p \in UNION {PagesOf(span[d]) : d \in Free(l)} <=> p \in FreePages(span, l)
    <3>1. p \in UNION {PagesOf(span[d]) : d \in Free(l)}
            <=> \E d \in LiveIn(span) : span[d].location = l /\ p \in PagesOf(span[d])
      BY <2>1, Zenon
    <3>2. p \in FreePages(span, l)
            <=> p \in Page /\ \E d \in LiveIn(span) : span[d].location = l /\ In(p, span[d])
      BY Zenon DEF FreePages, FreeAt
    <3>3. \A d \in LiveIn(span) : p \in PagesOf(span[d]) <=> p \in Page /\ In(p, span[d])
      BY <2>2, ZenonT(30)
    <3> QED
      BY <3>1, <3>2, <3>3, Zenon
  <2> QED
    BY <2>3, Zenon
<1> QED
  BY <1>1, Zenon DEF ListsMatchStats, Counted

LEMMA CountedCarve ==
  ASSUME Spans, Counted, NEW d, Carves(d)
  PROVE  Counted'
<1> DEFINE loc == span[d].location
           C == Within(span'[d])
<1>1. /\ Spans'
      /\ span'[d].start = span[d].start /\ span'[d].length = call.n
      /\ span'[d].location = "IN_USE"
      /\ \A p \in Page, l \in {"NORMAL", "RETURNED"} :
           FreeAt(span', l, p) <=> FreeAt(span, l, p) /\ ~ In(p, span'[d])
      /\ CarvedStats(span[d].location, call.n)
  BY FreshDescriptors, CarvesStep, Zenon
<1>2. /\ d \in Descriptor /\ loc \in {"NORMAL", "RETURNED"} /\ system' = system
      /\ call.n \in Int /\ 0 < call.n /\ call.n <= span[d].length
  BY Zenon DEF Carves, ReturnCarved
<1>3. d \in LiveIn(span) /\ d \in LiveIn(span')
  <2>1. loc # "DELETED" /\ "IN_USE" # "DELETED"
    BY <1>2, SMTT(30)
  <2> QED
    BY <1>1, <1>2, <2>1, Zenon DEF LiveIn
<1>4. Cardinality(C) = call.n
  <2>1. Known(span', pagemap', system')
    BY <1>1, PrimedLayout, Zenon DEF Spans
  <2>2. span'[d] \in SpanRecord /\ Whole(pagemap', system', d, span'[d])
    BY <1>2, <1>3, <2>1, Zenon DEF Known
  <2> QED
    BY <1>1, <2>2, SpanSize, Zenon DEF Whole
<1>5. \A p \in Page : In(p, span'[d]) => In(p, span[d])
  <2>1. span[d].start \in Page /\ span[d].length \in Page /\ NPages \in Nat
    BY <1>3, SpanFacts, PageHeapAssumption, Zenon DEF Spans, Layout, Proper
  <2> QED
    BY <1>1, <1>2, <2>1, SMTT(30) DEF In, LastPage, Page
<1>6. \A l \in {"NORMAL", "RETURNED"} : FreePages(span', l) = FreePages(span, l) \ C
  BY <1>1, Zenon DEF FreePages, Within
<1>7. C \subseteq FreePages(span, loc)
  BY <1>3, <1>5, Zenon DEF FreePages, FreeAt, Within
<1>8. \A l \in {"NORMAL", "RETURNED"} : l # loc => FreePages(span, l) \cap C = {}
  <2> SUFFICES ASSUME NEW l \in {"NORMAL", "RETURNED"}, l # loc, NEW p \in FreePages(span, l),
                      p \in C
               PROVE  FALSE
    BY Zenon
  <2>1. p \in Page /\ In(p, span[d])
    BY <1>5, Zenon DEF Within
  <2>2. PICK x \in LiveIn(span) : span[x].location = l /\ In(p, span[x])
    BY Zenon DEF FreePages, FreeAt
  <2>3. x = d
    BY <1>3, <2>1, <2>2, ZenonT(30) DEF Spans, Layout, Known
  <2> QED
    BY <2>2, <2>3, Zenon
<1>9. C \in SUBSET Page /\ \A l : FreePages(span, l) \in SUBSET Page
  BY Zenon DEF Within, FreePages
<1>10. \A l \in {"NORMAL", "RETURNED"} :
         /\ l = loc => Cardinality(FreePages(span', l)) = Cardinality(FreePages(span, l)) - call.n
         /\ l # loc => Cardinality(FreePages(span', l)) = Cardinality(FreePages(span, l))
  <2> HIDE DEF C, loc
  <2> TAKE l \in {"NORMAL", "RETURNED"}
  <2> DEFINE F == FreePages(span, l)
  <2>1. F \in SUBSET Page /\ FreePages(span', l) = F \ C
    BY <1>6, <1>9, Zenon
  <2>2. l = loc => C \subseteq F
    BY <1>7, Zenon
  <2>3. l # loc => F \cap C = {}
    BY <1>8, Zenon
  <2> HIDE DEF F
  <2>4. /\ F \cap C = {} => Cardinality(F \ C) = Cardinality(F)
        /\ C \subseteq F => Cardinality(F \ C) = Cardinality(F) - Cardinality(C)
    BY <1>9, <2>1, TakeAway, Zenon
  <2> QED
    BY <1>4, <2>1, <2>2, <2>3, <2>4, Zenon DEF F
<1> HIDE DEF loc
<1>11. stats'.system = stats.system /\ stats.free \in Int /\ stats.unmapped \in Int
  <2>1. stats \in StatsRecord
    BY Zenon DEF Spans, Bookkeeping
  <2> QED
    BY <1>1, <2>1, SMTT(30) DEF CarvedStats, StatsRecord
<1>12. CASE loc = "NORMAL"
  <2>1. "RETURNED" # loc
    BY <1>12, SMTT(30)
  <2>2. stats'.free = stats.free - call.n /\ stats'.unmapped = stats.unmapped - 0
    BY <1>1, <1>12, Zenon DEF CarvedStats, loc
  <2>3. stats'.unmapped = stats.unmapped
    BY <1>11, <2>2, SMTT(30)
  <2> QED
    BY <1>2, <1>10, <1>11, <1>12, <2>1, <2>2, <2>3, ZenonT(30) DEF Counted
<1>13. CASE loc = "RETURNED"
  <2>1. "NORMAL" # loc
    BY <1>13, SMTT(30)
  <2>2. stats'.unmapped = stats.unmapped - call.n /\ stats'.free = stats.free - 0
    BY <1>1, <2>1, ZenonT(30) DEF CarvedStats, loc
  <2>3. stats'.free = stats.free
    BY <1>11, <2>2, SMTT(30)
  <2> QED
    BY <1>2, <1>10, <1>11, <1>13, <2>1, <2>2, <2>3, ZenonT(30) DEF Counted
<1> QED
  BY <1>2, <1>12, <1>13, Zenon

\* The pages with location l of the span that results from a merge: those of the
\* neighbours that had it, and those of the span itself if it was on that list.
ShareOf(pm, d, s, l) ==
  (IF Prev(pm, s) \in Eaten(span, pm, s) /\ span[Prev(pm, s)].location = l
   THEN Before(span, pm, s) ELSE 0)
  + (IF span[d].location = l THEN s.length ELSE 0)
  + (IF Following(pm, s) \in Eaten(span, pm, s) /\ span[Following(pm, s)].location = l
     THEN After(span, pm, s) ELSE 0)

Shared(pm, d, s, rv) ==
  \A l \in {"NORMAL", "RETURNED"} :
    Cardinality(FreePages(span, l) \cap Within(WholeSpan(span, pm, s, rv)))
      = ShareOf(pm, d, s, l)

LEMMA ThreeParts ==
  \A A, B, C \in SUBSET Page :
    A \cap B = {} /\ A \cap C = {} /\ B \cap C = {}
      => Cardinality(A \cup B \cup C) = Cardinality(A) + Cardinality(B) + Cardinality(C)
<1> SUFFICES ASSUME NEW A \in SUBSET Page, NEW B \in SUBSET Page, NEW C \in SUBSET Page,
                    A \cap B = {}, A \cap C = {}, B \cap C = {}
             PROVE  Cardinality(A \cup B \cup C)
                      = Cardinality(A) + Cardinality(B) + Cardinality(C)
  OBVIOUS
<1>1. Cardinality(A \cup B) = Cardinality(A) + Cardinality(B)
  BY TakeAway, Zenon
<1>2. (A \cup B) \cap C = {} /\ A \cup B \in SUBSET Page
  BY Zenon
<1>3. Cardinality((A \cup B) \cup C) = Cardinality(A \cup B) + Cardinality(C)
  BY <1>2, TakeAway, Zenon
<1> QED
  BY <1>1, <1>3, Zenon

LEMMA MergeShare ==
  ASSUME Spans, NEW d, NEW s, NEW st, NEW pm, NEW rv, Merges(d, s, st, pm, rv)
  PROVE  Shared(pm, d, s, rv)
<1> SUFFICES \A l \in {"NORMAL", "RETURNED"} :
               Cardinality(FreePages(span, l) \cap Within(WholeSpan(span, pm, s, rv)))
                 = ShareOf(pm, d, s, l)
  BY DEF Shared
<1> TAKE l \in {"NORMAL", "RETURNED"}
<1> DEFINE E == Eaten(span, pm, s)
           w == WholeSpan(span, pm, s, rv)
           sp0 == [span EXCEPT ![d] = s]
           prev == Prev(pm, s)
           next == Following(pm, s)
           before == Before(span, pm, s)
           after == After(span, pm, s)
           a == prev \in E /\ span[prev].location = l
           b == span[d].location = l
           c == next \in E /\ span[next].location = l
           A == IF a THEN Within(span[prev]) ELSE {}
           B == IF b THEN Within(s) ELSE {}
           C == IF c THEN Within(span[next]) ELSE {}
<1>1. aggressive \in BOOLEAN
  BY PageHeapAssumption, SMTT(30) DEF Spans, Bookkeeping
<1>2. /\ Loose(span, pm, system', d, s)
      /\ d \in LiveIn(span) => span[d].start = s.start /\ span[d].length = s.length
  BY Zenon DEF Merges
<1>3. /\ \A p \in Page : In(p, w) <=> \E x \in E \cup {d} : In(p, sp0[x])
      /\ NextTo(span, pm, d, s) /\ JoinOf(span, pm, d, s, rv)
  BY <1>1, <1>2, JoinFacts, EatenFacts, ZenonT(30)
<1>4. /\ d \in Descriptor /\ s \in SpanRecord /\ sp0[d] = s
      /\ \A x \in Descriptor \ {d} : sp0[x] = span[x]
      /\ Known(sp0, pm, system')
  BY <1>2, Zenon DEF Loose
<1>5. /\ E \subseteq LiveIn(sp0) \ {d} /\ E \subseteq {prev, next} /\ d \in LiveIn(sp0)
      /\ prev \in E => prev # next
      /\ prev \in E => before = span[prev].length
      /\ next \in E => after = span[next].length
  BY <1>3, Zenon DEF NextTo, JoinOf
<1> HIDE DEF w, sp0, E, prev, next, before, after
<1>6. \A x \in E : x \in LiveIn(sp0) /\ x # d /\ x \in Descriptor /\ sp0[x] = span[x]
  BY <1>4, <1>5, Zenon DEF LiveIn
<1>7. /\ \A x \in E : Cardinality(Within(span[x])) = span[x].length
      /\ Cardinality(Within(s)) = s.length
  <2>1. \A x \in LiveIn(sp0) : sp0[x] \in SpanRecord /\ Whole(pm, system', x, sp0[x])
    BY <1>4, Zenon DEF Known, LiveIn
  <2>2. \A x \in LiveIn(sp0) : Cardinality(Within(sp0[x])) = sp0[x].length
    BY <2>1, SpanSize, Zenon DEF Whole
  <2> QED
    BY <1>4, <1>5, <1>6, <2>2, Zenon
<1>8. Cardinality({}) = 0
  BY FS_EmptySet, Zenon
<1>9. /\ Cardinality(A) = IF a THEN before ELSE 0
      /\ Cardinality(B) = IF b THEN s.length ELSE 0
      /\ Cardinality(C) = IF c THEN after ELSE 0
  BY <1>5, <1>7, <1>8, Zenon
<1>10. \A p \in Page, x, y \in LiveIn(sp0) : In(p, sp0[x]) /\ In(p, sp0[y]) => x = y
  BY <1>4, Zenon DEF Known
<1>11. /\ A \in SUBSET Page /\ B \in SUBSET Page /\ C \in SUBSET Page
       /\ A \cap B = {} /\ A \cap C = {} /\ B \cap C = {}
  <2>1. A \in SUBSET Page /\ B \in SUBSET Page /\ C \in SUBSET Page
    BY Zenon DEF Within
  <2>2. A \cap B = {}
    BY <1>4, <1>5, <1>6, <1>10, ZenonT(30) DEF Within
  <2>3. A \cap C = {}
    BY <1>5, <1>6, <1>10, Zenon DEF Within
  <2>4. B \cap C = {}
    BY <1>4, <1>5, <1>6, <1>10, ZenonT(30) DEF Within
  <2> QED
    BY <2>1, <2>2, <2>3, <2>4, Zenon
<1>12. FreePages(span, l) \cap Within(w) = A \cup B \cup C
  <2>1. ASSUME NEW p \in FreePages(span, l) \cap Within(w) PROVE p \in A \cup B \cup C
    <3>1. p \in Page /\ In(p, w)
      BY <2>1, Zenon DEF Within
    <3>2. PICK x \in LiveIn(span) : span[x].location = l /\ In(p, span[x])
      BY <2>1, Zenon DEF FreePages, FreeAt
    <3>3. PICK y \in E \cup {d} : In(p, sp0[y])
      BY <1>3, <3>1, Zenon DEF w, sp0, E
    <3>4. CASE x = d
      <4>1. In(p, s)
        BY <1>2, <3>2, <3>4, Zenon DEF In, LastPage
      <4> QED
        BY <3>1, <3>2, <3>4, <4>1, Zenon DEF Within
    <3>5. CASE x # d
      <4>1. x \in LiveIn(sp0) /\ sp0[x] = span[x]
        BY <1>4, <3>2, <3>5, Zenon DEF LiveIn
      <4>2. x = y /\ x \in E
        BY <1>5, <1>6, <1>10, <3>1, <3>2, <3>3, <3>5, <4>1, Zenon
      <4>3. x = prev \/ x = next
        BY <1>5, <4>2, Zenon
      <4> QED
        BY <3>1, <3>2, <4>2, <4>3, ZenonT(30) DEF Within
    <3> QED
      BY <3>4, <3>5
  <2>2. ASSUME NEW p \in A PROVE p \in FreePages(span, l) \cap Within(w)
    <3>1. a /\ p \in Page /\ In(p, span[prev])
      BY <2>2, Zenon DEF Within
    <3>2. prev \in LiveIn(span)
      BY <1>6, <3>1, Zenon DEF LiveIn
    <3>3. In(p, w)
      BY <1>3, <1>6, <3>1, ZenonT(30) DEF w, sp0, E
    <3> QED
      BY <3>1, <3>2, <3>3, Zenon DEF FreePages, FreeAt, Within
  <2>3. ASSUME NEW p \in C PROVE p \in FreePages(span, l) \cap Within(w)
    <3>1. c /\ p \in Page /\ In(p, span[next])
      BY <2>3, Zenon DEF Within
    <3>2. next \in LiveIn(span)
      BY <1>6, <3>1, Zenon DEF LiveIn
    <3>3. In(p, w)
      BY <1>3, <1>6, <3>1, Zenon DEF w, sp0, E
    <3> QED
      BY <3>1, <3>2, <3>3, Zenon DEF FreePages, FreeAt, Within
  <2>4. ASSUME NEW p \in B PROVE p \in FreePages(span, l) \cap Within(w)
    <3>1. b /\ p \in Page /\ In(p, s)
      BY <2>4, Zenon DEF Within
    <3>2. d \in LiveIn(span)
      <4>1. l # "DELETED"
        BY SMTT(30)
      <4> QED
        BY <1>4, <3>1, <4>1, Zenon DEF LiveIn
    <3>3. In(p, span[d])
      BY <1>2, <3>1, <3>2, Zenon DEF In, LastPage
    <3>4. In(p, w)
      BY <1>3, <1>4, <3>1, Zenon DEF w, sp0, E
    <3> QED
      BY <3>1, <3>2, <3>3, <3>4, Zenon DEF FreePages, FreeAt, Within
  <2> HIDE DEF A, B, C
  <2> QED
    BY <2>1, <2>2, <2>3, <2>4, ZenonT(30)
<1>13. Cardinality(A \cup B \cup C) = Cardinality(A) + Cardinality(B) + Cardinality(C)
  <2> HIDE DEF A, B, C
  <2> QED
    BY <1>11, ThreeParts, SMTT(30)
<1>14. ShareOf(pm, d, s, l) = (IF a THEN before ELSE 0) + (IF b THEN s.length ELSE 0)
                                + (IF c THEN after ELSE 0)
  BY DEF ShareOf, prev, next, before, after, E
<1> HIDE DEF A, B, C, a, b, c
<1> QED
  BY <1>9, <1>12, <1>13, <1>14, Zenon DEF w

\* A merge gives the counters what it gives the lists.
MergedCounts(st) ==
  /\ stats'.free = Cardinality(FreePages(span', "NORMAL"))
  /\ stats'.unmapped = Cardinality(FreePages(span', "RETURNED"))
  /\ stats'.system = st.system

LEMMA CountedMerge ==
  ASSUME Spans, NEW d, NEW s, NEW st, NEW pm, NEW rv, Merges(d, s, st, pm, rv),
         st.free = Cardinality(FreePages(span, "NORMAL"))
                     - (IF span[d].location = "NORMAL" THEN s.length ELSE 0),
         st.unmapped = Cardinality(FreePages(span, "RETURNED"))
  PROVE  MergedCounts(st)
<1> DEFINE E == Eaten(span, pm, s)
           w == WholeSpan(span, pm, s, rv)
           off == Decommits(JoinedSpan(span, pm, s), rv)
           temp == Temp(span, pm, s)
           before == Before(span, pm, s)
           after == After(span, pm, s)
           prev == Prev(pm, s)
           next == Following(pm, s)
           back == Back(span, pm, s)
           own == IF span[d].location = "NORMAL" THEN s.length ELSE 0
           W == Within(w)
           N == FreePages(span, "NORMAL")
           R == FreePages(span, "RETURNED")
<1>1. aggressive \in BOOLEAN
  BY PageHeapAssumption, SMTT(30) DEF Spans, Bookkeeping
<1>2. /\ Loose(span, pm, system', d, s) /\ st \in StatsRecord
      /\ ApplyMerge(Merged(span, pm, st, d, s, rv)) /\ aggressive' = aggressive
      /\ span[d].location # "RETURNED"
  BY Zenon DEF Merges
<1>3. MergedStats(stats', span, pm, st, s, rv)
  BY <1>1, <1>2, AppliedMerge, Zenon
<1>4. JoinOf(span, pm, d, s, rv) /\ NextTo(span, pm, d, s)
  BY <1>1, <1>2, JoinFacts, EatenFacts, ZenonT(30)
<1>5. s \in SpanRecord /\ s.location \in {"NORMAL", "RETURNED"}
  BY <1>2, Zenon DEF Loose
<1>6. /\ temp \in Nat /\ stats'.system = st.system
      /\ stats'.free = st.free - (before + after - temp)
                         + (IF w.location = "NORMAL" THEN w.length ELSE 0)
      /\ stats'.unmapped = st.unmapped - temp + (IF w.location = "NORMAL" THEN 0 ELSE w.length)
  BY <1>3, Zenon DEF MergedStats
<1>7. /\ w.location = IF off THEN "RETURNED" ELSE s.location
      /\ before \in Nat /\ after \in Nat /\ w \in SpanRecord
      /\ 0 < w.start /\ 0 < w.length /\ LastPage(w) <= NPages
      /\ prev \notin E => before = 0
      /\ next \notin E => after = 0
  BY <1>4, Zenon DEF JoinOf
<1>8. w.location \in {"NORMAL", "RETURNED"} /\ s.length \in Nat /\ w.length \in Nat
  BY <1>5, <1>7, RecordFacts, SMTT(30)
<1>9. temp = (IF prev \in back THEN before ELSE 0) + (IF next \in back THEN after ELSE 0)
  BY DEF Temp
<1>10. \A e : e \in back <=> e \in E /\ span[e].location = "RETURNED"
  BY Zenon DEF Back
<1>11. \A e \in E : span[e].location \in {"NORMAL", "RETURNED"}
  BY <1>4, Zenon DEF NextTo
<1>12. /\ Cardinality(R \cap W) = ShareOf(pm, d, s, "RETURNED")
       /\ Cardinality(N \cap W) = ShareOf(pm, d, s, "NORMAL")
  <2>1. "NORMAL" \in {"NORMAL", "RETURNED"} /\ "RETURNED" \in {"NORMAL", "RETURNED"}
    OBVIOUS
  <2>2. Shared(pm, d, s, rv)
    BY MergeShare, Zenon
  <2> QED
    BY <2>1, <2>2, Zenon DEF Shared
<1>13. /\ ShareOf(pm, d, s, "RETURNED")
            = (IF prev \in E /\ span[prev].location = "RETURNED" THEN before ELSE 0)
              + (IF span[d].location = "RETURNED" THEN s.length ELSE 0)
              + (IF next \in E /\ span[next].location = "RETURNED" THEN after ELSE 0)
       /\ ShareOf(pm, d, s, "NORMAL")
            = (IF prev \in E /\ span[prev].location = "NORMAL" THEN before ELSE 0)
              + (IF span[d].location = "NORMAL" THEN s.length ELSE 0)
              + (IF next \in E /\ span[next].location = "NORMAL" THEN after ELSE 0)
  BY DEF ShareOf
<1>14. /\ N \in SUBSET Page /\ R \in SUBSET Page /\ W \in SUBSET Page
       /\ Cardinality(W) = w.length
       /\ Cardinality(N) \in Nat /\ Cardinality(R) \in Nat
  <2>1. N \in SUBSET Page /\ R \in SUBSET Page /\ W \in SUBSET Page
    BY Zenon DEF FreePages, Within
  <2> HIDE DEF w
  <2> QED
    BY <1>7, <2>1, PageSets, SpanSize, Zenon
<1>15. MergedFree(w)
  BY MergeFree, Zenon
<1> HIDE DEF temp, before, after, prev, next, back, E, w, off
<1>16. ASSUME NEW l \in {"NORMAL", "RETURNED"}
       PROVE  /\ l = w.location => FreePages(span', l) = (FreePages(span, l) \ W) \cup W
              /\ l # w.location => FreePages(span', l) = FreePages(span, l) \ W
  BY <1>15, Zenon DEF MergedFree, FreePages, Within
<1>17. /\ Cardinality(R \cap W) = temp
       /\ Cardinality(N \cap W) = before + after - temp + own
  <2> DEFINE rb == IF prev \in back THEN before ELSE 0
             ra == IF next \in back THEN after ELSE 0
             nb == IF prev \in E /\ span[prev].location = "NORMAL" THEN before ELSE 0
             na == IF next \in E /\ span[next].location = "NORMAL" THEN after ELSE 0
  <2> HIDE DEF N, R, W
  <2>0. "NORMAL" # "RETURNED"
    BY SMTT(30)
  <2>1. ASSUME NEW e
        PROVE  /\ e \in back => ~ (e \in E /\ span[e].location = "NORMAL")
               /\ e \in E /\ e \notin back => span[e].location = "NORMAL"
    BY <1>10, <1>11, <2>0, ZenonT(30)
  <2>2. (rb = before /\ nb = 0) \/ (rb = 0 /\ nb = before)
    <3>1. CASE prev \in back
      BY <2>1, <3>1, Zenon
    <3>2. CASE prev \in E /\ prev \notin back
      BY <2>1, <3>2, Zenon
    <3>3. CASE prev \notin E
      BY <1>7, <1>10, <3>3, ZenonT(30)
    <3> QED
      BY <3>1, <3>2, <3>3, Zenon
  <2>3. (ra = after /\ na = 0) \/ (ra = 0 /\ na = after)
    <3>1. CASE next \in back
      BY <2>1, <3>1, Zenon
    <3>2. CASE next \in E /\ next \notin back
      BY <2>1, <3>2, Zenon
    <3>3. CASE next \notin E
      BY <1>7, <1>10, <3>3, Zenon
    <3> QED
      BY <3>1, <3>2, <3>3, Zenon
  <2>4. temp = rb + ra
    BY <1>9, Zenon
  <2>5. Cardinality(N \cap W) = nb + own + na
    BY <1>12, <1>13, Zenon
  <2>6. Cardinality(R \cap W) = rb + 0 + ra
    <3>1. rb = (IF prev \in E /\ span[prev].location = "RETURNED" THEN before ELSE 0)
      BY <1>10, Zenon
    <3>2. ra = (IF next \in E /\ span[next].location = "RETURNED" THEN after ELSE 0)
      BY <1>10, Zenon
    <3>3. 0 = (IF span[d].location = "RETURNED" THEN s.length ELSE 0)
      BY <1>2, Zenon
    <3> QED
      BY <1>12, <1>13, <3>1, <3>2, <3>3, Zenon
  <2>7. own \in Nat
    BY <1>8, Zenon
  <2> HIDE DEF rb, ra, nb, na, own
  <2> QED
    BY <1>7, <2>2, <2>3, <2>4, <2>5, <2>6, <2>7, SMTT(30)
<1>18. /\ Cardinality(N \ W) = Cardinality(N) - Cardinality(N \cap W)
       /\ Cardinality(R \ W) = Cardinality(R) - Cardinality(R \cap W)
       /\ Cardinality((N \ W) \cup W) = Cardinality(N \ W) + Cardinality(W)
       /\ Cardinality((R \ W) \cup W) = Cardinality(R \ W) + Cardinality(W)
  <2> HIDE DEF N, R, W
  <2>1. /\ Cardinality(N \ W) = Cardinality(N) - Cardinality(N \cap W)
        /\ Cardinality(R \ W) = Cardinality(R) - Cardinality(R \cap W)
    BY <1>14, TakeAway, Zenon
  <2>2. /\ N \ W \in SUBSET Page /\ R \ W \in SUBSET Page
        /\ (N \ W) \cap W = {} /\ (R \ W) \cap W = {}
    BY <1>14, Zenon
  <2> QED
    BY <1>14, <2>1, <2>2, TakeAway, ZenonT(30)
<1>19. CASE w.location = "NORMAL"
  <2>1. /\ FreePages(span', "NORMAL") = (N \ W) \cup W
        /\ FreePages(span', "RETURNED") = R \ W
    <3>1. "RETURNED" # w.location
      BY <1>19, SMTT(30)
    <3> QED
      BY <1>16, <1>19, <3>1, Zenon
  <2>2. /\ stats'.free = st.free - (before + after - temp) + w.length
        /\ stats'.unmapped = st.unmapped - temp + 0
    BY <1>6, <1>19, Zenon
  <2> HIDE DEF N, R, W
  <2>3. /\ stats'.free = Cardinality((N \ W) \cup W)
        /\ stats'.unmapped = Cardinality(R \ W)
    <3>1. st.free = Cardinality(N) - own /\ st.unmapped = Cardinality(R)
      BY Zenon DEF N, R
    <3>2. own \in Nat
      BY <1>8, SMTT(30)
    <3> HIDE DEF own
    <3> QED
      BY <1>6, <1>7, <1>8, <1>14, <1>17, <1>18, <2>2, <3>1, <3>2, SMTT(30)
  <2> QED
    BY <1>6, <2>1, <2>3, ZenonT(30) DEF MergedCounts
<1>20. CASE w.location = "RETURNED"
  <2>0. "NORMAL" # w.location
    BY <1>20, SMTT(30)
  <2>1. /\ FreePages(span', "RETURNED") = (R \ W) \cup W
        /\ FreePages(span', "NORMAL") = N \ W
    BY <1>16, <1>20, <2>0, Zenon
  <2>2. /\ stats'.free = st.free - (before + after - temp) + 0
        /\ stats'.unmapped = st.unmapped - temp + w.length
    BY <1>6, <2>0, Zenon
  <2> HIDE DEF N, R, W
  <2>3. /\ stats'.free = Cardinality(N \ W)
        /\ stats'.unmapped = Cardinality((R \ W) \cup W)
    <3>1. st.free = Cardinality(N) - own /\ st.unmapped = Cardinality(R)
      BY Zenon DEF N, R
    <3>2. own \in Nat
      BY <1>8, SMTT(30)
    <3> HIDE DEF own
    <3> QED
      BY <1>6, <1>7, <1>8, <1>14, <1>17, <1>18, <2>2, <3>1, <3>2, SMTT(30)
  <2> QED
    BY <1>6, <2>1, <2>3, Zenon DEF MergedCounts
<1> QED
  BY <1>8, <1>19, <1>20, Zenon

LEMMA CountedDelete ==
  ASSUME Spans, Counted, NEW d \in Descriptor, Delete(d)
  PROVE  Counted'
<1>1. PICK rv \in ReleaseResults :
           /\ Merges(d, Freed(d), stats, pagemap, rv)
           /\ span[d].location = "IN_USE"
           /\ system' = system
  BY DeleteMerges, Zenon
<1>2. /\ stats.free = Cardinality(FreePages(span, "NORMAL"))
      /\ stats.unmapped = Cardinality(FreePages(span, "RETURNED"))
      /\ stats.system = Cardinality(system)
  BY Zenon DEF Counted
<1>3. stats.free = Cardinality(FreePages(span, "NORMAL"))
                     - (IF span[d].location = "NORMAL" THEN Freed(d).length ELSE 0)
  <2>1. stats.free \in Int
    BY SMTT(30) DEF Spans, Bookkeeping, StatsRecord
  <2>2. span[d].location # "NORMAL"
    BY <1>1, SMTT(30)
  <2>3. stats.free = Cardinality(FreePages(span, "NORMAL")) - 0
    BY <1>2, <2>1, SMTT(30)
  <2> QED
    BY <2>2, <2>3, Zenon
<1>4. MergedCounts(stats)
  BY <1>1, <1>2, <1>3, CountedMerge, Zenon
<1> QED
  BY <1>1, <1>2, <1>4, Zenon DEF MergedCounts, Counted

LEMMA CountedRelease ==
  ASSUME Spans, Counted, NEW d, NEW rv, ReleasesSpan(d, rv)
  PROVE  Counted'
<1>1. /\ Merges(d, Released(d), ReleasedStats(d), pagemap, rv)
      /\ ReleasedStats(d).system = stats.system
      /\ ReleasedStats(d).unmapped = stats.unmapped
      /\ ReleasedStats(d).free = stats.free - Released(d).length
      /\ span[d].location = "NORMAL"
      /\ system' = system
  BY ReleaseMerges, Zenon
<1>2. /\ stats.free = Cardinality(FreePages(span, "NORMAL"))
      /\ stats.unmapped = Cardinality(FreePages(span, "RETURNED"))
      /\ stats.system = Cardinality(system)
  BY Zenon DEF Counted
<1>3. /\ ReleasedStats(d).free
           = Cardinality(FreePages(span, "NORMAL"))
               - (IF span[d].location = "NORMAL" THEN Released(d).length ELSE 0)
      /\ ReleasedStats(d).unmapped = Cardinality(FreePages(span, "RETURNED"))
  BY <1>1, <1>2, Zenon
<1>4. MergedCounts(ReleasedStats(d))
  BY <1>1, <1>3, CountedMerge, Zenon
<1> QED
  BY <1>1, <1>2, <1>4, Zenon DEF MergedCounts, Counted

\* The pages the system gives were not the heap's before.
LEMMA CountedSystem ==
  ASSUME Spans, Counted, NEW p \in Page, call.at = "sysalloc",
         PagesOf(Grown(p)) \subseteq Page \ system,
         system' = system \cup PagesOf(Grown(p))
  PROVE  /\ GrownStats.free = Cardinality(FreePages(span, "NORMAL"))
         /\ GrownStats.unmapped = Cardinality(FreePages(span, "RETURNED"))
         /\ GrownStats.system = Cardinality(system')
         /\ GrownStats.free \in Int
<1> DEFINE s == Grown(p)
<1>1. /\ GrownStats.system = stats.system + call.ask
      /\ GrownStats.free = stats.free /\ GrownStats.unmapped = stats.unmapped
  <2>1. Place(call) = "sysalloc"
    BY SMTT(30) DEF Place
  <2> QED
    BY <2>1, GrownFacts, Zenon
<1>2. PICK sys : sys = system \cup PagesOf(Grown(p))
  OBVIOUS
<1>3. /\ Loose(span, RecordSpan(pagemap, NewDescriptor(p), s), sys, NewDescriptor(p), s)
      /\ PagesOf(s) = {q \in Page : In(q, s)}
      /\ call.ask \in Nat \ {0} /\ LastPage(s) = p + call.ask - 1
  BY <1>2, FreshDescriptors, GrowFacts, Zenon
<1>4. s \in SpanRecord /\ s.start = p /\ s.length = call.ask
  BY <1>3, Zenon DEF Loose, Grown
<1>5. 0 < s.start /\ 0 < s.length /\ LastPage(s) <= NPages
  <2>1. NPages \in Nat \ {0}
    BY PageHeapAssumption
  <2>2. 0 < s.start /\ 0 < s.length
    BY <1>3, <1>4, <2>1, SMTT(30) DEF Page
  <2>3. LastPage(s) \in PagesOf(s)
    <3>1. LastPage(s) \in s.start .. LastPage(s)
      BY <1>3, <1>4, <2>1, SMTT(30) DEF Page
    <3> QED
      BY <3>1 DEF PagesOf, LastPage
  <2>4. LastPage(s) \in Page
    BY <2>3, Zenon
  <2> QED
    BY <2>1, <2>2, <2>4, SMTT(30) DEF Page
<1>6. Cardinality(PagesOf(s)) = call.ask
  BY <1>3, <1>4, <1>5, SpanSize, ZenonT(30) DEF Within
<1>7. system \in SUBSET Page /\ PagesOf(s) \in SUBSET Page /\ system \cap PagesOf(s) = {}
  BY Zenon DEF Spans, Layout, Known
<1> HIDE DEF s
<1>8. Cardinality(system \cup PagesOf(s)) = Cardinality(system) + Cardinality(PagesOf(s))
  BY <1>7, TakeAway, Zenon
<1>9. GrownStats.free \in Int
  BY <1>1, SMTT(30) DEF Spans, Bookkeeping, StatsRecord
<1> QED
  BY <1>1, <1>6, <1>8, <1>9, ZenonT(30) DEF Counted, s

LEMMA CountedGrow ==
  ASSUME Spans, Counted, NEW p, NEW rv, Grows(p, rv)
  PROVE  Counted'
<1> DEFINE d == NewDescriptor(p)
           s == Grown(p)
           pm == RecordSpan(pagemap, d, s)
<1>1. /\ Merges(d, s, GrownStats, pm, rv)
      /\ span[d].location = "DELETED"
  BY FreshDescriptors, GrowMerges, Zenon
<1>2. /\ p \in Page /\ call.at = "sysalloc" /\ PagesOf(Grown(p)) \subseteq Page \ system
      /\ system' = system \cup PagesOf(Grown(p))
  BY Zenon DEF Grows
<1>3. /\ GrownStats.free = Cardinality(FreePages(span, "NORMAL"))
      /\ GrownStats.unmapped = Cardinality(FreePages(span, "RETURNED"))
      /\ GrownStats.system = Cardinality(system')
      /\ GrownStats.free \in Int
  BY <1>2, CountedSystem, Zenon
<1> HIDE DEF d, s, pm
<1>4. GrownStats.free = Cardinality(FreePages(span, "NORMAL"))
                     - (IF span[d].location = "NORMAL" THEN s.length ELSE 0)
  <2>1. span[d].location # "NORMAL"
    BY <1>1, SMTT(30)
  <2>2. GrownStats.free = Cardinality(FreePages(span, "NORMAL")) - 0
    BY <1>3, SMTT(30)
  <2> QED
    BY <2>1, <2>2, Zenon
<1>5. MergedCounts(GrownStats)
  BY <1>1, <1>3, <1>4, CountedMerge, Zenon
<1> QED
  BY <1>3, <1>5, Zenon DEF MergedCounts, Counted

LEMMA CountedLoses ==
  ASSUME Spans, Counted, NEW p, Loses(p)
  PROVE  Counted'
<1>1. /\ p \in Page /\ call.at = "sysalloc" /\ PagesOf(Grown(p)) \subseteq Page \ system
      /\ system' = system \cup PagesOf(Grown(p)) /\ stats' = GrownStats /\ span' = span
  BY Zenon DEF Loses
<1>2. /\ GrownStats.free = Cardinality(FreePages(span, "NORMAL"))
      /\ GrownStats.unmapped = Cardinality(FreePages(span, "RETURNED"))
      /\ GrownStats.system = Cardinality(system')
  BY <1>1, CountedSystem, Zenon
<1> QED
  BY <1>1, <1>2, Zenon DEF Counted

LEMMA CountedNext ==
  ASSUME Spans, Counted, [PageHeapNext]_pageHeapVars
  PROVE  Counted'
<1>1. ASSUME \A p \in Page, l \in {"NORMAL", "RETURNED"} :
               FreeAt(span', l, p) <=> FreeAt(span, l, p),
             stats' = stats, system' = system
      PROVE  Counted'
  <2>1. \A l \in {"NORMAL", "RETURNED"} : FreePages(span', l) = FreePages(span, l)
    BY <1>1, Zenon DEF FreePages
  <2>2. "NORMAL" \in {"NORMAL", "RETURNED"} /\ "RETURNED" \in {"NORMAL", "RETURNED"}
    OBVIOUS
  <2> QED
    BY <1>1, <2>1, <2>2, Zenon DEF Counted
<1>2. CASE StepKind
  <2>1. CASE Quiet
    <3>1. span' = span /\ stats' = stats /\ system' = system
      BY <2>1, Zenon DEF Quiet, heapVars
    <3> QED
      BY <1>1, <3>1, Zenon
  <2> QED
    BY <1>2, <2>1, CountedCarve, CountedRelease, CountedGrow, CountedLoses, ZenonT(30) DEF StepKind
<1>3. CASE \/ \E d \in Descriptor, n \in Page : Split(d, n)
           \/ \E d \in Descriptor : RegisterSizeClass(d)
  <2>1. /\ \A p \in Page, l \in {"NORMAL", "RETURNED"} :
             FreeAt(span', l, p) <=> FreeAt(span, l, p)
        /\ stats' = stats /\ system' = system
    BY <1>3, FreshDescriptors, FreeUntouched, ZenonT(30)
  <2> QED
    BY <1>1, <2>1, Zenon
<1>4. CASE UNCHANGED pageHeapVars
  <2>1. span' = span /\ stats' = stats /\ system' = system
    BY <1>4 DEF pageHeapVars
  <2> QED
    BY <1>1, <2>1, Zenon
<1> QED
  BY <1>2, <1>3, <1>4, NextKinds, CountedDelete, ZenonT(30)

LEMMA CountedInit == PageHeapInit => Counted
<1> SUFFICES ASSUME PageHeapInit PROVE Counted
  OBVIOUS
<1>1. LiveIn(span) = {}
  <2>1. Deleted.location = "DELETED"
    BY DEF Deleted
  <2> QED
    BY <2>1, Zenon DEF PageHeapInit, LiveIn
<1>2. FreePages(span, "NORMAL") = {} /\ FreePages(span, "RETURNED") = {}
  BY <1>1, Zenon DEF FreePages, FreeAt
<1>3. stats.system = 0 /\ stats.unmapped = 0 /\ stats.free = 0 /\ system = {}
  BY DEF PageHeapInit
<1>4. Cardinality({}) = 0
  BY FS_EmptySet, Zenon
<1> QED
  BY <1>2, <1>3, <1>4, Zenon DEF Counted

\* tcmalloc_heap_limit_mb: in every mode, and whatever TCMalloc_SystemRelease
\* answers, the free, unmapped and system counts are those of the lists and of
\* the memory asked for, so the loop of ReleaseAtLeastNPages stops for the right
\* reason; and as long as aggressive decommit is not combined with releases that
\* fail, EnsureLimit keeps the pages that are not released below the limit
\* through every search, release and growth of New, and the committed count is
\* exact.
THEOREM HeapLimitIsKept == PageHeapSpec => []HeapLimitKept
<1>1. PageHeapInit => Spans /\ Exact /\ Counted
  BY SpansInit, ExactInit, CountedInit, Zenon
<1>2. Spans /\ Exact /\ Counted /\ [PageHeapNext]_pageHeapVars => (Spans /\ Exact /\ Counted)'
  BY FreshDescriptors, SpansNext, ExactNext, CountedNext, Zenon
<1>3. Spans /\ Exact /\ Counted => HeapLimitKept
  <2> SUFFICES ASSUME Spans, Exact, Counted PROVE HeapLimitKept
    OBVIOUS
  <2>1. ListsMatchStats
    BY CountedMeans, Zenon
  <2>2. ASSUME ~ aggressive \/ FALSE \notin ReleaseResults
        PROVE  LimitRespected /\ CommittedExact
    BY <2>2, Zenon DEF Exact, Obliging, LimitFollowed, LimitRespected
  <2> QED
    BY <2>1, <2>2, Zenon DEF HeapLimitKept
<1> QED
  BY <1>1, <1>2, <1>3, PTL DEF PageHeapSpec

=============================================================================
