---------------------------- MODULE PageHeapSteps ----------------------------
(***************************************************************************)
(* The inductive invariant of the page heap, what each step does to the    *)
(* spans, and that it keeps the invariant, does what SpanAllocator allows  *)
(* and keeps the counts and the zeroed pages of aggressive mode.           *)
(***************************************************************************)
EXTENDS PageHeap, TLAPS

-----------------------------------------------------------------------------
(* The invariant, of descriptors sp and a page map pm that need not be the *)
(* current ones: Merged works on intermediate ones.                        *)

Located == {"IN_USE", "NORMAL", "RETURNED"}
SpanRecord == [start : 0 .. NPages, length : 0 .. NPages,
               location : Located \cup {"DELETED"}, sizeclass : {0, 1}]
LiveIn(sp) == {d \in Descriptor : sp[d].location # "DELETED"}
In(p, s) == s.start <= p /\ p <= LastPage(s)

\* A span inside the heap that the page map knows as d.
Whole(pm, sys, d, s) ==
  /\ 0 < s.start /\ 0 < s.length /\ LastPage(s) <= NPages
  /\ \A p \in Page : In(p, s) => p \in sys
  /\ pm[s.start] = d /\ pm[LastPage(s)] = d
  /\ s.sizeclass # 0 => s.location = "IN_USE" /\ \A p \in Page : In(p, s) => pm[p] = d

\* The live spans are whole, no two share a page, and the page map knows no
\* page outside of them.
Known(sp, pm, sys) ==
  /\ sp \in [Descriptor -> SpanRecord]
  /\ pm \in [0 .. NPages + 1 -> Descriptor \cup {0}]
  /\ sys \subseteq Page
  /\ pm[0] = 0 /\ pm[NPages + 1] = 0
  /\ \A d \in LiveIn(sp) : Whole(pm, sys, d, sp[d])
  /\ \A p \in Page, d, e \in LiveIn(sp) : In(p, sp[d]) /\ In(p, sp[e]) => d = e
  /\ \A p \in Page : pm[p] # 0 => \E d \in LiveIn(sp) : In(p, sp[d])

\* Of the spans that are neighbours, none could be merged, d left aside.
Eager(ag, sp, ds) ==
  \A d, e \in LiveIn(sp) \ ds :
    LastPage(sp[d]) + 1 = sp[e].start
      => \/ "IN_USE" \in {sp[d].location, sp[e].location}
         \/ ~ ag /\ sp[d].location # sp[e].location

\* Where a call may be, and with what: a search is for n pages, in lists of
\* spans that have as many.
Searching == {"search", "small", "large", "coalesced", "grow", "grown", "sysalloc"}
CallRecord ==
  [at : Searching \cup {"idle", "release", "scavenged"}, n : 0 .. NPages, s : Nat,
   round : 0 .. 3, ask : Nat, goal : Int, done : Nat, i : Nat,
   ret : Searching \cup {"idle", "scavenged"}]
Place(c) == IF c.at = "release" THEN c.ret ELSE c.at
GoodCall(c) ==
  /\ c \in CallRecord
  /\ Place(c) \in Searching => c.n # 0
  /\ Place(c) \in {"search", "small", "large"} => c.n <= c.s \/ kMaxPages <= c.s
  /\ Place(c) = "small" => c.s < kMaxPages
  /\ Place(c) \in {"grow", "grown", "sysalloc"} => c.n <= c.ask

StatsRecord == [system : Nat, free : Int, unmapped : Int, committed : Int]

\* The inductive invariant.
Layout == Known(span, pagemap, system) /\ Eager(aggressive, span, {})
Bookkeeping ==
  /\ stats \in StatsRecord
  /\ aggressive \in Modes
  /\ scavenge_counter \in Int
  /\ release_index \in 0 .. kMaxPages + 1
  /\ dirty \subseteq Page
Spans == Layout /\ Bookkeeping /\ GoodCall(call)

-----------------------------------------------------------------------------
(* What the invariant says of one span.                                    *)

LEMMA RecordFacts ==
  ASSUME NEW s \in SpanRecord
  PROVE  /\ s.start \in 0 .. NPages /\ s.length \in 0 .. NPages
         /\ s.location \in Located \cup {"DELETED"} /\ s.sizeclass \in {0, 1}
         /\ NPages \in Nat \ {0}
         /\ LastPage(s) = s.start + s.length - 1 /\ LastPage(s) \in Int
  BY PageHeapAssumption, SMTT(30) DEF SpanRecord, LastPage, Located

\* What the proofs need of the live span x.
Proper(sp, pm, x) ==
  /\ x \in Descriptor /\ x \in Int /\ x # 0
  /\ sp[x] \in SpanRecord /\ sp[x].location \in Located
  /\ sp[x].start \in Page /\ LastPage(sp[x]) \in Page /\ sp[x].length \in Page
  /\ LastPage(sp[x]) = sp[x].start + sp[x].length - 1
  /\ In(sp[x].start, sp[x]) /\ In(LastPage(sp[x]), sp[x])
  /\ pm[sp[x].start] = x /\ pm[LastPage(sp[x])] = x

LEMMA SpanFacts ==
  ASSUME NEW sp, NEW pm, NEW sys, Known(sp, pm, sys)
  PROVE  \A x \in LiveIn(sp) : Proper(sp, pm, x)
<1> TAKE d \in LiveIn(sp)
<1>1. d \in Descriptor /\ sp[d] \in SpanRecord /\ sp[d].location # "DELETED"
      /\ Whole(pm, sys, d, sp[d])
  BY Zenon DEF Known, LiveIn
<1>2. sp[d].location \in Located
  BY <1>1, RecordFacts, Zenon
<1> QED
  BY <1>1, <1>2, RecordFacts, SMTT(30) DEF Whole, In, Page, Descriptor, Proper

\* The pages of a span, as a set and by their bounds.
LEMMA PagesIn ==
  ASSUME NEW sp, NEW pm, NEW sys, Known(sp, pm, sys), NEW d \in LiveIn(sp)
  PROVE  /\ PagesOf(sp[d]) = {p \in Page : In(p, sp[d])}
         /\ PagesOf(sp[d]) \subseteq sys
<1>f. \A x \in LiveIn(sp) : Proper(sp, pm, x)
  BY SpanFacts
<1>a. /\ sp[d].start \in 1 .. NPages /\ LastPage(sp[d]) \in 1 .. NPages
      /\ NPages \in Nat
  BY <1>f, PageHeapAssumption, Zenon DEF Page, Proper
<1>1. \A p : p \in PagesOf(sp[d]) <=> p \in Page /\ In(p, sp[d])
  BY <1>a, SMTT(30) DEF PagesOf, In, Page
<1>2. \A p \in Page : In(p, sp[d]) => p \in sys
  BY Zenon DEF Known, Whole
<1> QED
  BY <1>1, <1>2, Zenon

\* The page map finds the real neighbours of a span: an entry left stale inside
\* a span is never next to another one.
RealNeighbours(sp, pm, d) ==
  LET prev == pm[sp[d].start - 1]
      next == pm[LastPage(sp[d]) + 1]
  IN  /\ prev \in LiveIn(sp) \cup {0} /\ next \in LiveIn(sp) \cup {0}
      /\ prev # 0 => prev # d /\ LastPage(sp[prev]) + 1 = sp[d].start
      /\ next # 0 => next # d /\ sp[next].start = LastPage(sp[d]) + 1
      /\ prev # 0 => prev # next

LEMMA Neighbours ==
  ASSUME NEW sp, NEW pm, NEW sys, Known(sp, pm, sys)
  PROVE  \A d \in LiveIn(sp) : RealNeighbours(sp, pm, d)
<1> TAKE d \in LiveIn(sp)
<1> DEFINE a == sp[d].start - 1
           b == LastPage(sp[d]) + 1
<1>f. \A x \in LiveIn(sp) : Proper(sp, pm, x)
  BY SpanFacts
<1>1. a \in 0 .. NPages + 1 /\ b \in 0 .. NPages + 1 /\ NPages \in Nat
  BY <1>f, PageHeapAssumption, SMTT(30) DEF Page, Proper
<1>2. pm[a] \in Descriptor \cup {0} /\ pm[b] \in Descriptor \cup {0}
  BY <1>1, Zenon DEF Known
<1>3. ASSUME pm[a] # 0
      PROVE  /\ pm[a] \in LiveIn(sp) /\ pm[a] # d
             /\ LastPage(sp[pm[a]]) + 1 = sp[d].start
  <2>1. a \in Page
    BY <1>1, <1>3, <1>f, SMTT(30) DEF Known, Page, Proper
  <2>2. PICK e \in LiveIn(sp) : In(a, sp[e])
    BY <1>3, <2>1, Zenon DEF Known
  <2>3. e # d
    BY <2>2, <1>f, SMTT(30) DEF In, Page, Proper
  <2>4. ~ In(sp[d].start, sp[e])
    BY <2>3, <1>f, Zenon DEF Known, Proper
  <2>5. LastPage(sp[e]) = a
    BY <2>2, <2>4, <1>f, SMTT(30) DEF In, Page, Proper
  <2>6. pm[a] = e
    BY <2>5, <1>f, Zenon DEF Proper
  <2> QED
    BY <2>3, <2>5, <2>6, <1>f, SMTT(30) DEF Page, Proper
<1>4. ASSUME pm[b] # 0
      PROVE  /\ pm[b] \in LiveIn(sp) /\ pm[b] # d
             /\ sp[pm[b]].start = LastPage(sp[d]) + 1
  <2>1. b \in Page
    <3>1. b # NPages + 1
      BY <1>4, Zenon DEF Known
    <3> QED
      BY <1>1, <3>1, <1>f, SMTT(30) DEF Page, Proper
  <2>2. PICK e \in LiveIn(sp) : In(b, sp[e])
    BY <1>4, <2>1, Zenon DEF Known
  <2>3. e # d
    BY <2>2, <1>f, SMTT(30) DEF In, Page, Proper
  <2>4. ~ In(LastPage(sp[d]), sp[e])
    BY <2>3, <1>f, Zenon DEF Known, Proper
  <2>5. sp[e].start = b
    BY <2>2, <2>4, <1>f, SMTT(30) DEF In, Page, Proper
  <2>6. pm[b] = e
    BY <2>5, <1>f, Zenon DEF Proper
  <2> QED
    BY <2>3, <2>5, <2>6, Zenon
<1>5. ASSUME pm[a] # 0 PROVE pm[a] # pm[b]
  <2> SUFFICES ASSUME pm[a] = pm[b] PROVE FALSE
    OBVIOUS
  <2> DEFINE e == pm[a]
  <2>1. e \in LiveIn(sp) /\ LastPage(sp[e]) + 1 = sp[d].start
        /\ sp[e].start = LastPage(sp[d]) + 1
    BY <1>3, <1>4, <1>5, Zenon
  <2> HIDE DEF e
  <2> QED
    BY <2>1, <1>f, SMTT(30) DEF Page, Proper
<1> QED
  BY <1>2, <1>3, <1>4, <1>5, Zenon DEF RealNeighbours

-----------------------------------------------------------------------------
(* Joining, cutting and adding spans.                                      *)

\* One of the descriptors C covers the page p.
Covered(sp, C, p) == \E x \in LiveIn(sp) \cap C : In(p, sp[x])

\* Only the descriptors C changed, and the page map only where they lie now.
Rearranged(sp, pm, sys, C, sp2, pm2, sys2) ==
  /\ sp2 \in [Descriptor -> SpanRecord]
  /\ pm2 \in [0 .. NPages + 1 -> Descriptor \cup {0}]
  /\ sys \subseteq sys2 /\ sys2 \subseteq Page
  /\ pm2[0] = 0 /\ pm2[NPages + 1] = 0
  /\ \A x \in Descriptor \ C : sp2[x] = sp[x]
  /\ \A x \in LiveIn(sp2) \cap C : Whole(pm2, sys2, x, sp2[x])
  /\ \A p \in Page, x, y \in LiveIn(sp2) \cap C :
       In(p, sp2[x]) /\ In(p, sp2[y]) => x = y
  /\ \A p \in Page, x \in LiveIn(sp) \ C : ~ (Covered(sp2, C, p) /\ In(p, sp[x]))
  /\ \A p \in Page : Covered(sp, C, p) => Covered(sp2, C, p)
  /\ \A p \in Page : pm2[p] = pm[p] \/ Covered(sp2, C, p)

LEMMA Rearrange ==
  ASSUME NEW sp, NEW pm, NEW sys, NEW C, NEW sp2, NEW pm2, NEW sys2,
         Known(sp, pm, sys), Rearranged(sp, pm, sys, C, sp2, pm2, sys2)
  PROVE  Known(sp2, pm2, sys2)
<1> USE DEF Rearranged
<1>f. \A x \in LiveIn(sp) : Proper(sp, pm, x)
  BY SpanFacts
<1>1. \A x \in Descriptor \ C : /\ x \in LiveIn(sp2) <=> x \in LiveIn(sp)
                                /\ sp2[x] = sp[x]
  BY Zenon DEF LiveIn
<1>2. \A x \in LiveIn(sp2) : x \in Descriptor
  BY Zenon DEF LiveIn
<1>3. \A x \in LiveIn(sp) : x \in Descriptor
  BY Zenon DEF LiveIn
<1>4. \A x \in LiveIn(sp2) \ C : x \in LiveIn(sp) \ C /\ sp2[x] = sp[x]
  BY <1>1, <1>2, Zenon
<1>5. \A x \in LiveIn(sp) \ C : x \in LiveIn(sp2) \ C /\ sp2[x] = sp[x]
  BY <1>1, <1>3, Zenon
<1>6. \A p \in Page, x \in LiveIn(sp) \ C : In(p, sp[x]) => pm2[p] = pm[p]
  OBVIOUS
<1>7. \A x \in LiveIn(sp2) : Whole(pm2, sys2, x, sp2[x])
  <2> TAKE x \in LiveIn(sp2)
  <2>1. CASE x \in C
    BY <2>1, Zenon
  <2>2. CASE x \notin C
    <3>1. x \in LiveIn(sp) \ C /\ sp2[x] = sp[x]
      BY <1>4, <2>2, Zenon
    <3>2. pm2[sp[x].start] = pm[sp[x].start] /\ pm2[LastPage(sp[x])] = pm[LastPage(sp[x])]
      BY <1>f, <1>6, <3>1, Zenon DEF Proper
    <3>3. Whole(pm, sys, x, sp[x])
      BY <3>1, Zenon DEF Known
    <3> QED
      BY <1>6, <3>1, <3>2, <3>3, Zenon DEF Whole
  <2> QED
    BY <2>1, <2>2
<1>8. \A p \in Page, x, y \in LiveIn(sp2) : In(p, sp2[x]) /\ In(p, sp2[y]) => x = y
  <2> TAKE p \in Page, x \in LiveIn(sp2), y \in LiveIn(sp2)
  <2> HAVE In(p, sp2[x]) /\ In(p, sp2[y])
  <2>1. CASE x \in C /\ y \in C
    BY <2>1, Zenon
  <2>2. CASE x \notin C /\ y \notin C
    BY <1>4, <2>2, Zenon DEF Known
  <2>3. CASE x \in C /\ y \notin C
    <3>1. Covered(sp2, C, p)
      BY <2>3, Zenon DEF Covered
    <3> QED
      BY <1>4, <2>3, <3>1, Zenon
  <2>4. CASE x \notin C /\ y \in C
    <3>1. Covered(sp2, C, p)
      BY <2>4, Zenon DEF Covered
    <3> QED
      BY <1>4, <2>4, <3>1, Zenon
  <2> QED
    BY <2>1, <2>2, <2>3, <2>4
<1>9. \A p \in Page : pm2[p] # 0 => \E x \in LiveIn(sp2) : In(p, sp2[x])
  <2> TAKE p \in Page
  <2> HAVE pm2[p] # 0
  <2>1. CASE Covered(sp2, C, p)
    BY <2>1, Zenon DEF Covered
  <2>2. CASE ~ Covered(sp2, C, p)
    <3>1. pm[p] # 0 /\ ~ Covered(sp, C, p)
      BY <2>2, Zenon
    <3>2. PICK x \in LiveIn(sp) : In(p, sp[x])
      BY <3>1, Zenon DEF Known
    <3>3. x \notin C
      BY <3>1, <3>2, Zenon DEF Covered
    <3> QED
      BY <1>5, <3>2, <3>3, Zenon
  <2> QED
    BY <2>1, <2>2
<1> QED
  BY <1>7, <1>8, <1>9, Zenon DEF Known

\* Joining the spans of E to d: the joined span w has their pages and d's.
Joins(sp, pm, d, E, w, sp2, pm2) ==
  /\ d \in LiveIn(sp) /\ E \subseteq LiveIn(sp) \ {d}
  /\ w \in SpanRecord /\ w.location # "DELETED" /\ w.sizeclass = 0
  /\ 0 < w.start /\ 0 < w.length /\ LastPage(w) <= NPages
  /\ \A p \in Page : In(p, w) <=> \E x \in E \cup {d} : In(p, sp[x])
  /\ sp2 = [e \in Descriptor |-> IF e = d THEN w
                                 ELSE IF e \in E THEN Deleted ELSE sp[e]]
  /\ pm2 \in [0 .. NPages + 1 -> Descriptor \cup {0}]
  /\ pm2[w.start] = d /\ pm2[LastPage(w)] = d
  /\ \A p \in 0 .. NPages + 1 : p \notin {w.start, LastPage(w)} => pm2[p] = pm[p]

LEMMA JoinSpans ==
  ASSUME NEW sp, NEW pm, NEW sys, NEW d, NEW E, NEW w, NEW sp2, NEW pm2,
         Known(sp, pm, sys), Joins(sp, pm, d, E, w, sp2, pm2)
  PROVE  Known(sp2, pm2, sys) /\ LiveIn(sp2) = LiveIn(sp) \ E
<1> USE DEF Joins
<1> DEFINE C == E \cup {d}
<1>w. /\ w.start \in Page /\ LastPage(w) \in Page
      /\ In(w.start, w) /\ In(LastPage(w), w)
      /\ 0 \notin {w.start, LastPage(w)} /\ NPages + 1 \notin {w.start, LastPage(w)}
      /\ 0 \in 0 .. NPages + 1 /\ NPages + 1 \in 0 .. NPages + 1
      /\ Page \subseteq 0 .. NPages + 1
  BY RecordFacts, SMTT(30) DEF Page, In
<1>d. d \in Descriptor /\ E \subseteq Descriptor /\ sp2[d] = w
      /\ Deleted.location = "DELETED"
  BY Zenon DEF LiveIn, Deleted
<1>1. /\ d \in LiveIn(sp2)
      /\ \A x \in E : x \notin LiveIn(sp2)
      /\ \A x \in Descriptor \ C : sp2[x] = sp[x]
  BY <1>d, Zenon DEF LiveIn
<1>2. LiveIn(sp2) = LiveIn(sp) \ E /\ LiveIn(sp2) \cap C = {d}
  BY <1>1, <1>d, Zenon DEF LiveIn
<1>3. sp2 \in [Descriptor -> SpanRecord]
  <2>1. Deleted \in SpanRecord
    BY PageHeapAssumption, SMTT(30) DEF Deleted, SpanRecord
  <2>2. sp \in [Descriptor -> SpanRecord]
    BY Zenon DEF Known
  <2> QED
    BY <2>1, <2>2, Zenon
<1>4. pm2[0] = 0 /\ pm2[NPages + 1] = 0 /\ sys \subseteq Page
  BY <1>w, Zenon DEF Known
<1>5. \A p \in Page : /\ Covered(sp2, C, p) <=> In(p, w)
                      /\ Covered(sp, C, p) <=> In(p, w)
  <2>1. LiveIn(sp) \cap C = C
    BY Zenon
  <2> QED
    BY <1>2, <1>d, <2>1, Zenon DEF Covered
<1>6. \A p \in Page, x \in LiveIn(sp) \ C : ~ (In(p, w) /\ In(p, sp[x]))
  BY Zenon DEF Known
<1>7. Whole(pm2, sys, d, w)
  <2>1. \A p \in Page : In(p, w) => p \in sys
    BY Zenon DEF Known, Whole
  <2> QED
    BY <2>1, Zenon DEF Whole
<1>8. \A p \in Page : pm2[p] = pm[p] \/ In(p, w)
  BY <1>w, Zenon
<1>9. \A x \in LiveIn(sp2) \cap C : x = d /\ Whole(pm2, sys, x, sp2[x])
  BY <1>2, <1>7, <1>d, Zenon
<1> HIDE DEF C
<1>10. /\ \A x \in LiveIn(sp2) \cap C : Whole(pm2, sys, x, sp2[x])
       /\ \A p \in Page, x, y \in LiveIn(sp2) \cap C :
            In(p, sp2[x]) /\ In(p, sp2[y]) => x = y
       /\ \A p \in Page, x \in LiveIn(sp) \ C : ~ (Covered(sp2, C, p) /\ In(p, sp[x]))
       /\ \A p \in Page : Covered(sp, C, p) => Covered(sp2, C, p)
       /\ \A p \in Page : pm2[p] = pm[p] \/ Covered(sp2, C, p)
  BY <1>5, <1>6, <1>8, <1>9, Zenon
<1>11. Rearranged(sp, pm, sys, C, sp2, pm2, sys)
  BY <1>1, <1>3, <1>4, <1>10, Zenon DEF Rearranged
<1>12. Known(sp2, pm2, sys)
  BY <1>11, Rearrange, Zenon
<1> QED
  BY <1>2, <1>12

\* The span d cut after n pages: d keeps the front, with location loc, and e is
\* the rest.
Front(s, n, loc) == [s EXCEPT !.length = n, !.location = loc]
Rest(s, n) == [s EXCEPT !.start = @ + n, !.length = @ - n]
CutSpans(sp, d, e, n, loc) == [sp EXCEPT ![d] = Front(sp[d], n, loc), ![e] = Rest(sp[d], n)]
CutMap(pm, s, d, e, n) ==
  [pm EXCEPT ![s.start + n] = e, ![LastPage(s)] = e, ![s.start + n - 1] = d]

CutKeeps(sp, pm, sys, d, e, n, loc) ==
  LET sp2 == CutSpans(sp, d, e, n, loc)
  IN  /\ Known(sp2, CutMap(pm, sp[d], d, e, n), sys)
      /\ LiveIn(sp2) = LiveIn(sp) \cup {e}
      /\ d # e /\ sp2[d] = Front(sp[d], n, loc) /\ sp2[e] = Rest(sp[d], n)
      /\ \A x \in Descriptor \ {d, e} : sp2[x] = sp[x]

LEMMA CutSpan ==
  ASSUME NEW sp, NEW pm, NEW sys, Known(sp, pm, sys),
         NEW d \in LiveIn(sp), sp[d].sizeclass = 0, NEW e \in Descriptor \ LiveIn(sp),
         NEW n \in Int, 0 < n, n < sp[d].length, NEW loc \in Located
  PROVE  CutKeeps(sp, pm, sys, d, e, n, loc)
<1> DEFINE s == sp[d]
           f == Front(s, n, loc)
           r == Rest(s, n)
           sp2 == CutSpans(sp, d, e, n, loc)
           pm2 == CutMap(pm, s, d, e, n)
           C == {d, e}
<1>1. Proper(sp, pm, d)
  BY SpanFacts
<1>2. /\ s \in SpanRecord /\ s.location \in Located /\ s.start \in Page
      /\ LastPage(s) \in Page /\ s.length \in Page /\ s.sizeclass = 0
      /\ pm[s.start] = d /\ d \in Descriptor /\ s.location # "DELETED"
      /\ n < s.length /\ NPages \in Nat
  BY <1>1, PageHeapAssumption, Zenon DEF Proper, LiveIn
<1>3. sp \in [Descriptor -> SpanRecord] /\ pm \in [0 .. NPages + 1 -> Descriptor \cup {0}]
      /\ sys \subseteq Page
  BY Zenon DEF Known
<1> HIDE DEF s
<1>4. /\ f \in SpanRecord /\ f.start = s.start /\ f.length = n
      /\ f.location = loc /\ f.sizeclass = 0
      /\ LastPage(f) = s.start + n - 1
  <2>1. /\ f.start = s.start /\ f.length = n /\ f.location = loc
        /\ f.sizeclass = s.sizeclass
    BY <1>2, SMTT(30) DEF Front, SpanRecord
  <2>2. f \in SpanRecord
    <3>1. n \in 0 .. NPages /\ loc \in Located \cup {"DELETED"}
      BY <1>2, SMTT(30) DEF Page
    <3> QED
      BY <1>2, <3>1, Zenon DEF Front, SpanRecord
  <2> QED
    BY <1>2, <2>1, <2>2, SMTT(30) DEF LastPage
<1>5. /\ r \in SpanRecord /\ r.start = s.start + n /\ r.length = s.length - n
      /\ r.location = s.location /\ r.sizeclass = 0
      /\ LastPage(r) = LastPage(s)
  <2>1. /\ r.start = s.start + n /\ r.length = s.length - n
        /\ r.location = s.location /\ r.sizeclass = s.sizeclass
    BY <1>2, SMTT(30) DEF Rest, SpanRecord
  <2>2. r \in SpanRecord
    <3>1. s.start + n \in 0 .. NPages /\ s.length - n \in 0 .. NPages
      BY <1>2, SMTT(30) DEF Page, LastPage
    <3> QED
      BY <1>2, <3>1, Zenon DEF Rest, SpanRecord
  <2> QED
    BY <1>2, <2>1, <2>2, SMTT(30) DEF LastPage, Page
<1>6. d # e
  BY Zenon
<1>7. /\ sp2 = [sp EXCEPT ![d] = f, ![e] = r]
      /\ pm2 = [pm EXCEPT ![s.start + n] = e, ![LastPage(s)] = e, ![s.start + n - 1] = d]
  BY DEF CutSpans, CutMap, s
<1> HIDE DEF f, r, sp2, pm2
<1>8. /\ sp2 \in [Descriptor -> SpanRecord] /\ sp2[d] = f /\ sp2[e] = r
      /\ \A x \in Descriptor \ C : sp2[x] = sp[x]
  BY <1>2, <1>3, <1>4, <1>5, <1>6, <1>7, SMTT(30)
<1>9. /\ LiveIn(sp2) = LiveIn(sp) \cup {e} /\ LiveIn(sp2) \cap C = C
      /\ LiveIn(sp) \cap C = {d}
  <2>1. f.location # "DELETED" /\ r.location # "DELETED"
    BY <1>2, <1>4, <1>5, SMTT(30) DEF Located
  <2> QED
    BY <1>2, <1>6, <1>8, <2>1, ZenonT(30) DEF LiveIn
<1>10. \A p \in Page : In(p, s) <=> In(p, f) \/ In(p, r)
  BY <1>2, <1>4, <1>5, SMTT(30) DEF In, Page, LastPage
<1>11. \A p \in Page : ~ (In(p, f) /\ In(p, r))
  BY <1>2, <1>4, <1>5, SMTT(30) DEF In, Page, LastPage
<1>12. /\ s.start + n \in Page /\ LastPage(s) \in Page /\ s.start + n - 1 \in Page
       /\ s.start + n # s.start + n - 1 /\ LastPage(s) # s.start + n - 1
       /\ s.start # s.start + n /\ s.start # LastPage(s)
       /\ \A p \in Page : p \in 0 .. NPages + 1 /\ p # 0 /\ p # NPages + 1
       /\ 0 \in 0 .. NPages + 1 /\ NPages + 1 \in 0 .. NPages + 1
       /\ In(s.start + n, s) /\ In(LastPage(s), s) /\ In(s.start + n - 1, s)
  BY <1>2, PageHeapAssumption, SMTT(30) DEF Page, LastPage, In
<1>13. /\ pm2 \in [0 .. NPages + 1 -> Descriptor \cup {0}]
       /\ pm2[s.start + n] = e /\ pm2[LastPage(s)] = e /\ pm2[s.start + n - 1] = d
       /\ \A p \in 0 .. NPages + 1 :
            p \notin {s.start + n, LastPage(s), s.start + n - 1} => pm2[p] = pm[p]
  <2> DEFINE a == s.start + n
             b == LastPage(s)
             c == s.start + n - 1
  <2>1. a \in 0 .. NPages + 1 /\ b \in 0 .. NPages + 1 /\ c \in 0 .. NPages + 1
        /\ a # c /\ b # c /\ pm2 = [pm EXCEPT ![a] = e, ![b] = e, ![c] = d]
    BY <1>7, <1>12, Zenon
  <2> HIDE DEF a, b, c
  <2>2. /\ pm2 \in [0 .. NPages + 1 -> Descriptor \cup {0}]
        /\ pm2[a] = e /\ pm2[b] = e /\ pm2[c] = d
        /\ \A p \in 0 .. NPages + 1 : p \notin {a, b, c} => pm2[p] = pm[p]
    BY <1>2, <1>3, <2>1, SMTT(30)
  <2> QED
    BY <2>2, Zenon DEF a, b, c
<1>14. pm2[0] = 0 /\ pm2[NPages + 1] = 0
  BY <1>12, <1>13, Zenon DEF Known
<1>15. pm2[s.start] = d
  <2>1. s.start \in 0 .. NPages + 1 /\ s.start # s.start + n /\ s.start # LastPage(s)
    BY <1>2, <1>12, Zenon
  <2>2. CASE s.start = s.start + n - 1
    BY <1>13, <2>2, Zenon
  <2>3. CASE s.start # s.start + n - 1
    BY <1>2, <1>13, <2>1, <2>3, Zenon
  <2> QED
    BY <2>2, <2>3
<1>16. \A p \in Page : In(p, s) => p \in sys
  BY Zenon DEF Known, Whole, s
<1>17. Whole(pm2, sys, d, f)
  BY <1>2, <1>4, <1>10, <1>12, <1>13, <1>15, <1>16, SMTT(30) DEF Whole, Page
<1>18. Whole(pm2, sys, e, r)
  BY <1>2, <1>5, <1>10, <1>12, <1>13, <1>16, SMTT(30) DEF Whole, Page
<1>19. \A p \in Page : /\ Covered(sp2, C, p) <=> In(p, s)
                       /\ Covered(sp, C, p) <=> In(p, s)
  BY <1>8, <1>9, <1>10, Zenon DEF Covered, s
<1>20. /\ \A x \in LiveIn(sp2) \cap C : Whole(pm2, sys, x, sp2[x])
       /\ \A p \in Page, x, y \in LiveIn(sp2) \cap C :
            In(p, sp2[x]) /\ In(p, sp2[y]) => x = y
  BY <1>8, <1>9, <1>11, <1>17, <1>18, SMT
<1>21. \A p \in Page, x \in LiveIn(sp) \ C : ~ (In(p, s) /\ In(p, sp[x]))
  BY Zenon DEF Known, s
<1>22. \A p \in Page : pm2[p] = pm[p] \/ In(p, s)
  BY <1>12, <1>13, Zenon
<1> HIDE DEF C
<1>23. Rearranged(sp, pm, sys, C, sp2, pm2, sys)
  BY <1>3, <1>8, <1>13, <1>14, <1>19, <1>20, <1>21, <1>22, Zenon DEF Rearranged
<1>24. Known(sp2, pm2, sys)
  BY <1>23, Rearrange, Zenon
<1> QED
  BY <1>6, <1>8, <1>9, <1>24, Zenon DEF sp2, pm2, f, r, s, C, CutKeeps

\* A run of pages that are new from the system becomes the span d.
Adds(sp, pm, sys, d, s, sp2, pm2, sys2) ==
  /\ d \in Descriptor \ LiveIn(sp) /\ s \in SpanRecord
  /\ s.location # "DELETED" /\ s.sizeclass = 0
  /\ 0 < s.start /\ 0 < s.length /\ LastPage(s) <= NPages
  /\ \A p \in Page : In(p, s) => p \notin sys /\ p \in sys2
  /\ sys2 \subseteq Page /\ sys \subseteq sys2
  /\ sp2 = [sp EXCEPT ![d] = s] /\ pm2 = RecordSpan(pm, d, s)

LEMMA AddSpan ==
  ASSUME NEW sp, NEW pm, NEW sys, NEW d, NEW s, NEW sp2, NEW pm2, NEW sys2,
         Known(sp, pm, sys), Adds(sp, pm, sys, d, s, sp2, pm2, sys2)
  PROVE  Known(sp2, pm2, sys2) /\ LiveIn(sp2) = LiveIn(sp) \cup {d}
<1> USE DEF Adds
<1> DEFINE a == s.start
           b == LastPage(s)
           C == {d}
<1>1. /\ a \in Page /\ b \in Page /\ In(a, s) /\ In(b, s)
      /\ \A p \in Page : p \in 0 .. NPages + 1 /\ p # 0 /\ p # NPages + 1
      /\ 0 \in 0 .. NPages + 1 /\ NPages + 1 \in 0 .. NPages + 1
  BY RecordFacts, SMTT(30) DEF Page, In
<1>2. sp \in [Descriptor -> SpanRecord] /\ pm \in [0 .. NPages + 1 -> Descriptor \cup {0}]
      /\ pm[0] = 0 /\ pm[NPages + 1] = 0
  BY Zenon DEF Known
<1>3. pm2 = [pm EXCEPT ![a] = d, ![b] = d]
  BY DEF RecordSpan, a, b
<1>4. /\ sp2 \in [Descriptor -> SpanRecord] /\ sp2[d] = s
      /\ \A x \in Descriptor \ C : sp2[x] = sp[x]
  BY <1>2, Zenon
<1> HIDE DEF a, b
<1>5. /\ pm2 \in [0 .. NPages + 1 -> Descriptor \cup {0}]
      /\ pm2[a] = d /\ pm2[b] = d
      /\ \A p \in 0 .. NPages + 1 : p \notin {a, b} => pm2[p] = pm[p]
  <2>1. a \in 0 .. NPages + 1 /\ b \in 0 .. NPages + 1
    BY <1>1, Zenon
  <2> QED
    BY <1>2, <1>3, <2>1, SMTT(30)
<1>6. pm2[0] = 0 /\ pm2[NPages + 1] = 0
  BY <1>1, <1>2, <1>5, Zenon
<1>7. LiveIn(sp2) = LiveIn(sp) \cup {d} /\ LiveIn(sp2) \cap C = {d} /\ LiveIn(sp) \cap C = {}
  BY <1>4, Zenon DEF LiveIn
<1>8. Whole(pm2, sys2, d, s)
  BY <1>5, Zenon DEF Whole, a, b
<1>9. \A p \in Page : (Covered(sp2, C, p) <=> In(p, s)) /\ ~ Covered(sp, C, p)
  BY <1>4, <1>7, Zenon DEF Covered
<1>10. \A p \in Page, x \in LiveIn(sp) \ C : ~ (In(p, s) /\ In(p, sp[x]))
  BY Zenon DEF Known, Whole
<1>11. \A p \in Page : pm2[p] = pm[p] \/ In(p, s)
  BY <1>1, <1>5, Zenon
<1>12. \A x \in LiveIn(sp2) \cap C : x = d /\ Whole(pm2, sys2, x, sp2[x])
  BY <1>4, <1>7, <1>8, Zenon
<1> HIDE DEF C
<1>13. Rearranged(sp, pm, sys, C, sp2, pm2, sys2)
  BY <1>4, <1>5, <1>6, <1>9, <1>10, <1>11, <1>12, ZenonT(30) DEF Rearranged
<1>14. Known(sp2, pm2, sys2)
  BY <1>13, Rearrange, Zenon
<1> QED
  BY <1>7, <1>14, Zenon

\* The span d gets another location or size class where it lies.
Relabels(sp, pm, d, s, sp2, pm2) ==
  /\ d \in LiveIn(sp) /\ s \in SpanRecord /\ s.location # "DELETED"
  /\ sp2 = [sp EXCEPT ![d] = s]
  /\ s.start = sp[d].start /\ s.length = sp[d].length
  /\ pm2 \in [0 .. NPages + 1 -> Descriptor \cup {0}]
  /\ \A p \in 0 .. NPages + 1 : pm2[p] = pm[p] \/ (In(p, s) /\ pm2[p] = d)
  /\ \/ s.sizeclass = 0
     \/ s.location = "IN_USE" /\ \A p \in Page : In(p, s) => pm2[p] = d

LEMMA Relabel ==
  ASSUME NEW sp, NEW pm, NEW sys, NEW d, NEW s, NEW sp2, NEW pm2,
         Known(sp, pm, sys), Relabels(sp, pm, d, s, sp2, pm2)
  PROVE  Known(sp2, pm2, sys) /\ LiveIn(sp2) = LiveIn(sp)
<1> USE DEF Relabels
<1> DEFINE C == {d}
<1>1. Proper(sp, pm, d) /\ Whole(pm, sys, d, sp[d])
  BY SpanFacts, Zenon DEF Known
<1>2. /\ LastPage(s) = LastPage(sp[d])
      /\ s.start \in Page /\ LastPage(s) \in Page /\ d \in Descriptor
      /\ \A p \in Page : In(p, s) <=> In(p, sp[d])
      /\ pm[s.start] = d /\ pm[LastPage(s)] = d
  BY <1>1, Zenon DEF Proper, In, LastPage
<1>3. /\ Page \subseteq 0 .. NPages + 1
      /\ 0 \in 0 .. NPages + 1 /\ NPages + 1 \in 0 .. NPages + 1
      /\ ~ In(0, s) /\ ~ In(NPages + 1, s)
  BY <1>2, PageHeapAssumption, SMTT(30) DEF Page, In
<1>4. sp \in [Descriptor -> SpanRecord] /\ pm[0] = 0 /\ pm[NPages + 1] = 0
      /\ sys \subseteq Page
  BY Zenon DEF Known
<1>5. /\ sp2 \in [Descriptor -> SpanRecord] /\ sp2[d] = s
      /\ \A x \in Descriptor \ C : sp2[x] = sp[x]
  BY <1>2, <1>4, Zenon
<1>6. pm2[0] = 0 /\ pm2[NPages + 1] = 0
  BY <1>3, <1>4, Zenon
<1>7. LiveIn(sp2) = LiveIn(sp) /\ LiveIn(sp2) \cap C = {d}
  BY <1>2, <1>5, Zenon DEF LiveIn
<1>8. Whole(pm2, sys, d, s)
  <2>1. pm2[s.start] = d /\ pm2[LastPage(s)] = d
    BY <1>2, <1>3, Zenon
  <2>2. \A p \in Page : In(p, s) => p \in sys
    BY <1>1, <1>2, Zenon DEF Whole
  <2>3. 0 < s.start /\ 0 < s.length /\ LastPage(s) <= NPages
    BY <1>1, <1>2, Zenon DEF Whole
  <2> QED
    BY <2>1, <2>2, <2>3, Zenon DEF Whole
<1>9. \A p \in Page : /\ Covered(sp2, C, p) <=> In(p, s)
                      /\ Covered(sp, C, p) <=> In(p, s)
  BY <1>2, <1>5, <1>7, Zenon DEF Covered
<1>10. \A p \in Page, x \in LiveIn(sp) \ C : ~ (In(p, s) /\ In(p, sp[x]))
  BY <1>2, Zenon DEF Known
<1>11. \A x \in LiveIn(sp2) \cap C : x = d /\ Whole(pm2, sys, x, sp2[x])
  BY <1>5, <1>7, <1>8, Zenon
<1>12. \A p \in Page : pm2[p] = pm[p] \/ In(p, s)
  BY <1>3, Zenon
<1> HIDE DEF C
<1>13. Rearranged(sp, pm, sys, C, sp2, pm2, sys)
  BY <1>4, <1>5, <1>6, <1>9, <1>10, <1>11, <1>12, Zenon DEF Rearranged
<1>14. Known(sp2, pm2, sys)
  BY <1>13, Rearrange, Zenon
<1> QED
  BY <1>7, <1>14, Zenon

-----------------------------------------------------------------------------
(* MergeIntoFreeList.                                                      *)

\* The parts of Merged, by name: the neighbours, those that are merged, the
\* pages they bring along and the span that results.
Prev(pm, s) == pm[s.start - 1]
Following(pm, s) == pm[s.start + s.length]
Eaten(sp, pm, s) ==
  {e \in {Prev(pm, s), Following(pm, s)} \ {0} : MayMergeSpans(s, sp[e])}
Extent(sp, E, x) == IF x \in E THEN sp[x].length ELSE 0
Before(sp, pm, s) == Extent(sp, Eaten(sp, pm, s), Prev(pm, s))
After(sp, pm, s) == Extent(sp, Eaten(sp, pm, s), Following(pm, s))
Back(sp, pm, s) == {e \in Eaten(sp, pm, s) : sp[e].location = "RETURNED"}
Temp(sp, pm, s) == (IF Prev(pm, s) \in Back(sp, pm, s) THEN Before(sp, pm, s) ELSE 0)
                     + (IF Following(pm, s) \in Back(sp, pm, s) THEN After(sp, pm, s) ELSE 0)
JoinedSpan(sp, pm, s) ==
  [s EXCEPT !.start = @ - Before(sp, pm, s),
            !.length = Before(sp, pm, s) + @ + After(sp, pm, s)]
WholeSpan(sp, pm, s, rv) ==
  IF Decommits(JoinedSpan(sp, pm, s), rv)
  THEN [JoinedSpan(sp, pm, s) EXCEPT !.location = "RETURNED"]
  ELSE JoinedSpan(sp, pm, s)

PartsOf(m, sp, pm, st, d, s, rv) ==
  LET E == Eaten(sp, pm, s)
      w == WholeSpan(sp, pm, s, rv)
      off == Decommits(JoinedSpan(sp, pm, s), rv)
      temp == Temp(sp, pm, s)
  IN  /\ m.span = [e \in Descriptor |-> IF e = d THEN w
                                        ELSE IF e \in E THEN Deleted
                                        ELSE sp[e]]
      /\ m.pagemap = [p \in 0 .. NPages + 1 |->
                        IF (Prev(pm, s) \in E /\ p = w.start)
                             \/ (Following(pm, s) \in E /\ p = LastPage(w))
                        THEN d ELSE pm[p]]
      /\ m.stats = PrependToFreeList(
           [[st EXCEPT !.free = @ - (Before(sp, pm, s) + After(sp, pm, s) - temp),
                       !.unmapped = @ - temp]
              EXCEPT !.committed = @ - (IF off THEN w.length - temp ELSE 0)], w)
      /\ m.zeroed = IF off THEN PagesOf(w) ELSE {}

LEMMA MergedParts ==
  ASSUME NEW sp, NEW pm, NEW st, NEW d, NEW s, NEW rv
  PROVE  PartsOf(Merged(sp, pm, st, d, s, rv), sp, pm, st, d, s, rv)
  BY Zenon DEF PartsOf, Merged, Eaten, WholeSpan, JoinedSpan, Temp, Before, After, Back,
               Extent, Prev, Following

\* The state of the descriptors when MergeIntoFreeList is called for d: the
\* content of d is s, and only d may be next to a span it could be merged with.
Loose(sp, pm, sys, d, s) ==
  /\ d \in Descriptor /\ s \in SpanRecord
  /\ s.location \in {"NORMAL", "RETURNED"} /\ s.sizeclass = 0
  /\ sp \in [Descriptor -> SpanRecord]
  /\ Known([sp EXCEPT ![d] = s], pm, sys)
  /\ Eager(aggressive, [sp EXCEPT ![d] = s], {d})

\* The neighbours that are merged are free spans just before and after s.
NextTo(sp, pm, d, s) ==
  LET sp0 == [sp EXCEPT ![d] = s]
      E == Eaten(sp, pm, s)
      prev == Prev(pm, s)
      next == Following(pm, s)
  IN  /\ sp0[d] = s /\ d \in LiveIn(sp0)
      /\ LastPage(s) + 1 = s.start + s.length
      /\ prev \in LiveIn(sp0) \cup {0} /\ prev # d
      /\ next \in LiveIn(sp0) \cup {0} /\ next # d
      /\ prev # 0 => prev # next /\ sp0[prev] = sp[prev]
                     /\ LastPage(sp[prev]) + 1 = s.start
      /\ next # 0 => sp0[next] = sp[next] /\ sp[next].start = LastPage(s) + 1
      /\ E \subseteq LiveIn(sp0) \ {d} /\ E \subseteq {prev, next} /\ 0 \notin E
      /\ \A e \in E : sp[e].location \in {"NORMAL", "RETURNED"}
      /\ \A e \in E : aggressive \/ sp[e].location = s.location
      /\ \A e \in {prev, next} \ (E \cup {0}) :
           \/ sp[e].location = "IN_USE"
           \/ ~ aggressive /\ sp[e].location # s.location

LEMMA EatenFacts ==
  ASSUME NEW sp, NEW pm, NEW sys, NEW d, NEW s, Loose(sp, pm, sys, d, s),
         aggressive \in BOOLEAN
  PROVE  NextTo(sp, pm, d, s)
<1> USE DEF Loose
<1> DEFINE sp0 == [sp EXCEPT ![d] = s]
           prev == Prev(pm, s)
           next == Following(pm, s)
           E == Eaten(sp, pm, s)
<1>1. sp0[d] = s /\ \A x \in Descriptor : x # d => sp0[x] = sp[x]
  BY Zenon
<1>2. d \in LiveIn(sp0) /\ LiveIn(sp0) \subseteq Descriptor /\ 0 \notin Descriptor
  <2>1. s.location # "DELETED" /\ 0 \notin Descriptor
    BY SMTT(30) DEF Descriptor
  <2> QED
    BY <1>1, <2>1, Zenon DEF LiveIn
<1> HIDE DEF sp0
<1>3. Known(sp0, pm, sys)
  BY Zenon DEF sp0
<1>4. \A x \in LiveIn(sp0) : Proper(sp0, pm, x)
  BY <1>3, SpanFacts, Zenon
<1>5. LastPage(s) + 1 = s.start + s.length
  BY RecordFacts, SMTT(30)
<1>6. prev = pm[sp0[d].start - 1] /\ next = pm[LastPage(sp0[d]) + 1]
  BY <1>1, <1>5, Zenon DEF Prev, Following
<1> HIDE DEF prev, next
<1>7. /\ prev \in LiveIn(sp0) \cup {0} /\ next \in LiveIn(sp0) \cup {0}
      /\ prev # 0 => prev # d /\ LastPage(sp0[prev]) + 1 = sp0[d].start
      /\ next # 0 => next # d /\ sp0[next].start = LastPage(sp0[d]) + 1
      /\ prev # 0 => prev # next
  <2>1. RealNeighbours(sp0, pm, d)
    BY <1>2, <1>3, Neighbours, Zenon
  <2> QED
    BY <1>6, <2>1, SMTT(30) DEF RealNeighbours
<1>8. /\ prev # 0 => sp0[prev] = sp[prev]
      /\ next # 0 => sp0[next] = sp[next]
      /\ d # 0
  BY <1>1, <1>2, <1>7, Zenon
<1>9. E = {e \in {prev, next} \ {0} : MayMergeSpans(s, sp[e])}
  BY DEF Eaten, prev, next
<1>10. \A e \in {prev, next} \ {0} : e \in LiveIn(sp0) \ {d} /\ sp[e] = sp0[e]
                                       /\ sp[e].location \in Located
  BY <1>4, <1>7, <1>8, ZenonT(30) DEF Proper
<1> HIDE DEF E
<1>11. \A e \in {prev, next} \ {0} :
         e \in E <=> IF aggressive THEN sp[e].location # "IN_USE"
                     ELSE sp[e].location = s.location
  BY <1>9, Zenon DEF MayMergeSpans
<1>12. E \subseteq {prev, next} \ {0}
  BY <1>9, Zenon
<1>13. \A e \in E : /\ sp[e].location \in {"NORMAL", "RETURNED"}
                    /\ aggressive \/ sp[e].location = s.location
  BY <1>10, <1>11, <1>12, SMTT(30) DEF Located
<1>14. \A e \in {prev, next} \ (E \cup {0}) :
         \/ sp[e].location = "IN_USE"
         \/ ~ aggressive /\ sp[e].location # s.location
  BY <1>11, Zenon
<1> QED
  BY <1>1, <1>2, <1>5, <1>7, <1>8, <1>10, <1>12, <1>13, <1>14, Zenon
     DEF sp0, prev, next, E, NextTo

\* What the span that results from a merge is.
JoinOf(sp, pm, d, s, rv) ==
  LET E == Eaten(sp, pm, s)
      w == WholeSpan(sp, pm, s, rv)
      before == Before(sp, pm, s)
      after == After(sp, pm, s)
  IN  /\ w \in SpanRecord /\ w.sizeclass = 0
      /\ w.location = IF Decommits(JoinedSpan(sp, pm, s), rv) THEN "RETURNED" ELSE s.location
      /\ before \in Nat /\ after \in Nat
      /\ w.start = s.start - before /\ w.length = before + s.length + after
      /\ LastPage(w) = LastPage(s) + after
      /\ 0 < w.start /\ 0 < w.length /\ LastPage(w) <= NPages
      /\ Prev(pm, s) \notin E => before = 0
      /\ Following(pm, s) \notin E => after = 0
      /\ Prev(pm, s) \in E => before = sp[Prev(pm, s)].length /\ 0 < before
                              /\ w.start = sp[Prev(pm, s)].start
      /\ Following(pm, s) \in E => after = sp[Following(pm, s)].length /\ 0 < after
                                   /\ LastPage(w) = LastPage(sp[Following(pm, s)])

LEMMA JoinFacts ==
  ASSUME NEW sp, NEW pm, NEW sys, NEW d, NEW s, Loose(sp, pm, sys, d, s),
         aggressive \in BOOLEAN, NEW rv
  PROVE  /\ JoinOf(sp, pm, d, s, rv)
         /\ \A p \in Page : In(p, WholeSpan(sp, pm, s, rv))
              <=> \E x \in Eaten(sp, pm, s) \cup {d} : In(p, [sp EXCEPT ![d] = s][x])
<1> DEFINE sp0 == [sp EXCEPT ![d] = s]
           prev == Prev(pm, s)
           next == Following(pm, s)
           E == Eaten(sp, pm, s)
           before == Before(sp, pm, s)
           after == After(sp, pm, s)
           w == WholeSpan(sp, pm, s, rv)
           off == Decommits(JoinedSpan(sp, pm, s), rv)
<1>1. NextTo(sp, pm, d, s)
  BY EatenFacts, Zenon
<1>2. /\ sp0[d] = s /\ d \in LiveIn(sp0)
      /\ prev # d /\ next # d
      /\ prev # 0 => prev # next /\ sp0[prev] = sp[prev]
                     /\ LastPage(sp[prev]) + 1 = s.start
      /\ next # 0 => sp0[next] = sp[next] /\ sp[next].start = LastPage(s) + 1
      /\ E \subseteq LiveIn(sp0) \ {d} /\ E \subseteq {prev, next} /\ 0 \notin E
  BY <1>1, Zenon DEF NextTo
<1>3. s \in SpanRecord /\ s.sizeclass = 0 /\ s.location \in {"NORMAL", "RETURNED"}
      /\ \A x \in LiveIn(sp0) : Proper(sp0, pm, x)
  BY SpanFacts, Zenon DEF Loose
<1>4. /\ before = IF prev \in E THEN sp[prev].length ELSE 0
      /\ after = IF next \in E THEN sp[next].length ELSE 0
  BY Zenon DEF Before, After, Extent
<1>5. w = IF off THEN [[s EXCEPT !.start = @ - before, !.length = before + @ + after]
                         EXCEPT !.location = "RETURNED"]
          ELSE [s EXCEPT !.start = @ - before, !.length = before + @ + after]
  BY DEF WholeSpan, JoinedSpan
<1> HIDE DEF sp0, prev, next, E, before, after, w, off
<1>6. ASSUME prev \in E
      PROVE  /\ before \in Page /\ before = sp[prev].length
             /\ s.start - before = sp[prev].start /\ 0 < s.start - before
             /\ s.start - before \in Int
             /\ LastPage(sp[prev]) = s.start - 1 /\ sp0[prev] = sp[prev]
  <2>1. prev \in LiveIn(sp0) /\ sp0[prev] = sp[prev] /\ before = sp[prev].length
        /\ LastPage(sp[prev]) + 1 = s.start
    BY <1>2, <1>4, <1>6, Zenon
  <2>2. /\ sp[prev].start \in Page /\ LastPage(sp[prev]) \in Page
        /\ sp[prev].length \in Page
        /\ LastPage(sp[prev]) = sp[prev].start + sp[prev].length - 1
    BY <1>3, <2>1, Zenon DEF Proper
  <2> QED
    BY <2>1, <2>2, <1>3, RecordFacts, SMTT(30) DEF Page
<1>7. ASSUME next \in E
      PROVE  /\ after \in Page /\ after = sp[next].length
             /\ LastPage(s) + after = LastPage(sp[next])
             /\ LastPage(s) + after <= NPages
             /\ sp[next].start = LastPage(s) + 1 /\ sp0[next] = sp[next]
  <2>1. next \in LiveIn(sp0) /\ sp0[next] = sp[next] /\ after = sp[next].length
        /\ sp[next].start = LastPage(s) + 1
    BY <1>2, <1>4, <1>7, Zenon
  <2>2. /\ sp[next].start \in Page /\ LastPage(sp[next]) \in Page
        /\ sp[next].length \in Page
        /\ LastPage(sp[next]) = sp[next].start + sp[next].length - 1
    BY <1>3, <2>1, Zenon DEF Proper
  <2> QED
    BY <2>1, <2>2, <1>3, RecordFacts, SMTT(30) DEF Page
<1>8. /\ s.start \in Page /\ LastPage(s) \in Page /\ s.length \in Page
      /\ LastPage(s) = s.start + s.length - 1 /\ NPages \in Nat
  BY <1>2, <1>3, PageHeapAssumption, Zenon DEF Proper
<1>9. /\ before \in Nat /\ after \in Nat
      /\ 0 < s.start - before /\ s.start - before \in 0 .. NPages
      /\ LastPage(s) + after <= NPages
      /\ before + s.length + after \in 0 .. NPages
  <2>1. before \in Nat /\ 0 < s.start - before
    <3>1. CASE prev \in E
      BY <1>6, <1>8, <3>1, SMTT(30) DEF Page
    <3>2. CASE prev \notin E
      BY <1>4, <1>8, <3>2, SMTT(30) DEF Page
    <3> QED
      BY <3>1, <3>2
  <2>2. after \in Nat /\ LastPage(s) + after <= NPages
    <3>1. CASE next \in E
      BY <1>7, <1>8, <3>1, SMTT(30) DEF Page
    <3>2. CASE next \notin E
      BY <1>4, <1>8, <3>2, SMTT(30) DEF Page
    <3> QED
      BY <3>1, <3>2
  <2> QED
    BY <1>8, <2>1, <2>2, SMTT(30) DEF Page
<1>10. /\ w \in SpanRecord /\ w.start = s.start - before
       /\ w.length = before + s.length + after /\ w.sizeclass = 0
       /\ w.location = IF off THEN "RETURNED" ELSE s.location
  <2>1. "RETURNED" \in Located \cup {"DELETED"}
    BY Zenon DEF Located
  <2>2. CASE off
    <3>1. w = [s EXCEPT !.start = @ - before, !.length = before + @ + after,
                        !.location = "RETURNED"]
      BY <1>3, <1>5, <2>2, Zenon DEF SpanRecord
    <3> QED
      BY <1>3, <1>9, <2>1, <2>2, <3>1, Zenon DEF SpanRecord
  <2>3. CASE ~ off
    <3>1. w = [s EXCEPT !.start = @ - before, !.length = before + @ + after]
      BY <1>5, <2>3, Zenon
    <3> QED
      BY <1>3, <1>9, <2>3, <3>1, Zenon DEF SpanRecord
  <2> QED
    BY <2>2, <2>3
<1>11. LastPage(w) = LastPage(s) + after /\ 0 < w.length
  BY <1>8, <1>9, <1>10, SMTT(30) DEF LastPage, Page
<1>12. JoinOf(sp, pm, d, s, rv)
  <2>1. prev \in E => 0 < before
    BY <1>6, SMTT(30) DEF Page
  <2>2. next \in E => 0 < after
    BY <1>7, SMTT(30) DEF Page
  <2> QED
    BY <1>4, <1>6, <1>7, <1>9, <1>10, <1>11, <2>1, <2>2, Zenon
       DEF JoinOf, w, before, after, E, prev, next, off
<1>13. \A p \in Page : In(p, w) <=> \/ In(p, s)
                                    \/ prev \in E /\ In(p, sp[prev])
                                    \/ next \in E /\ In(p, sp[next])
  <2> TAKE p \in Page
  <2>1. In(p, w) <=> s.start - before <= p /\ p <= LastPage(s) + after
    BY <1>10, <1>11, Zenon DEF In
  <2>2. CASE prev \in E /\ next \in E
    <3>1. In(p, sp[prev]) <=> s.start - before <= p /\ p <= s.start - 1
      BY <1>6, <2>2, Zenon DEF In
    <3>2. In(p, sp[next]) <=> LastPage(s) + 1 <= p /\ p <= LastPage(s) + after
      BY <1>7, <2>2, Zenon DEF In
    <3> QED
      BY <1>8, <1>9, <2>1, <2>2, <3>1, <3>2, SMTT(30) DEF In, Page
  <2>3. CASE prev \in E /\ next \notin E
    <3>1. In(p, sp[prev]) <=> s.start - before <= p /\ p <= s.start - 1
      BY <1>6, <2>3, Zenon DEF In
    <3> QED
      BY <1>4, <1>8, <1>9, <2>1, <2>3, <3>1, SMTT(30) DEF In, Page
  <2>4. CASE prev \notin E /\ next \in E
    <3>1. In(p, sp[next]) <=> LastPage(s) + 1 <= p /\ p <= LastPage(s) + after
      BY <1>7, <2>4, Zenon DEF In
    <3> QED
      BY <1>4, <1>8, <1>9, <2>1, <2>4, <3>1, SMTT(30) DEF In, Page
  <2>5. CASE prev \notin E /\ next \notin E
    BY <1>4, <1>8, <1>9, <2>1, <2>5, SMTT(30) DEF In, Page
  <2> QED
    BY <2>2, <2>3, <2>4, <2>5
<1>14. \A p \in Page : In(p, w) <=> \E x \in E \cup {d} : In(p, sp0[x])
  <2> TAKE p \in Page
  <2>1. (\E x \in E \cup {d} : In(p, sp0[x]))
          <=> \/ In(p, s)
              \/ prev \in E /\ In(p, sp[prev])
              \/ next \in E /\ In(p, sp[next])
    <3>1. prev \in E => sp0[prev] = sp[prev]
      BY <1>6, Zenon
    <3>2. next \in E => sp0[next] = sp[next]
      BY <1>7, Zenon
    <3>3. \A x \in E \cup {d} : x = d \/ (x = prev /\ prev \in E) \/ (x = next /\ next \in E)
      BY <1>2, Zenon
    <3> QED
      BY <1>2, <3>1, <3>2, <3>3, SMTT(30)
  <2> QED
    BY <1>13, <2>1, Zenon
<1> QED
  BY <1>12, <1>14, Zenon DEF w, E, sp0

\* MergeIntoFreeList leaves the page map exact and free spans coalesced, and
\* touches no span in use.
MergeKeeps(m, sp, sys, d) ==
  /\ Known(m.span, m.pagemap, sys)
  /\ Eager(aggressive, m.span, {})
  /\ \A x \in Descriptor : m.span[x].location = "IN_USE"
                             <=> x # d /\ sp[x].location = "IN_USE"
  /\ \A x \in Descriptor : m.span[x].location = "IN_USE" => m.span[x] = sp[x]

LEMMA MergeSpans ==
  ASSUME NEW sp, NEW pm, NEW sys, NEW d, NEW s, Loose(sp, pm, sys, d, s),
         aggressive \in BOOLEAN, NEW st, NEW rv
  PROVE  MergeKeeps(Merged(sp, pm, st, d, s, rv), sp, sys, d)
<1> DEFINE sp0 == [sp EXCEPT ![d] = s]
           prev == Prev(pm, s)
           next == Following(pm, s)
           E == Eaten(sp, pm, s)
           w == WholeSpan(sp, pm, s, rv)
           off == Decommits(JoinedSpan(sp, pm, s), rv)
           m == Merged(sp, pm, st, d, s, rv)
           sp2 == m.span
           pm2 == m.pagemap
<1>1. /\ sp2 = [e \in Descriptor |-> IF e = d THEN w
                                     ELSE IF e \in E THEN Deleted ELSE sp[e]]
      /\ pm2 = [p \in 0 .. NPages + 1 |->
                  IF (prev \in E /\ p = w.start) \/ (next \in E /\ p = LastPage(w))
                  THEN d ELSE pm[p]]
  <2>1. PartsOf(m, sp, pm, st, d, s, rv)
    BY MergedParts, Zenon
  <2> QED
    BY <2>1, Zenon DEF PartsOf
<1>2. /\ NextTo(sp, pm, d, s) /\ JoinOf(sp, pm, d, s, rv)
      /\ \A p \in Page : In(p, w) <=> \E x \in E \cup {d} : In(p, sp0[x])
  BY EatenFacts, JoinFacts, Zenon
<1>3. /\ sp0[d] = s /\ d \in LiveIn(sp0) /\ d \in Descriptor
      /\ E \subseteq LiveIn(sp0) \ {d} /\ E \subseteq {prev, next} /\ 0 \notin E
      /\ prev # 0 => prev # next
      /\ \A e \in E : sp[e].location \in {"NORMAL", "RETURNED"}
      /\ \A e \in E : aggressive \/ sp[e].location = s.location
      /\ \A e \in {prev, next} \ (E \cup {0}) :
           \/ sp[e].location = "IN_USE"
           \/ ~ aggressive /\ sp[e].location # s.location
  BY <1>2, Zenon DEF NextTo, Loose
<1>4. /\ w \in SpanRecord /\ w.sizeclass = 0
      /\ w.location = IF off THEN "RETURNED" ELSE s.location
      /\ 0 < w.start /\ 0 < w.length /\ LastPage(w) <= NPages
      /\ prev \in E => w.start = sp[prev].start
      /\ next \in E => LastPage(w) = LastPage(sp[next])
      /\ prev \notin E => w.start = s.start
      /\ next \notin E => LastPage(w) = LastPage(s)
  <2>1. JoinOf(sp, pm, d, s, rv) /\ s \in SpanRecord
    BY <1>2, Zenon DEF Loose
  <2>2. /\ w \in SpanRecord /\ w.sizeclass = 0
        /\ w.location = IF off THEN "RETURNED" ELSE s.location
        /\ 0 < w.start /\ 0 < w.length /\ LastPage(w) <= NPages
        /\ prev \in E => w.start = sp[prev].start
        /\ next \in E => LastPage(w) = LastPage(sp[next])
    BY <2>1, Zenon DEF JoinOf
  <2>3. /\ prev \notin E => w.start = s.start - 0
        /\ next \notin E => LastPage(w) = LastPage(s) + 0
    BY <2>1, Zenon DEF JoinOf
  <2>4. s.start - 0 = s.start /\ LastPage(s) + 0 = LastPage(s)
    BY <2>1, RecordFacts, SMTT(30)
  <2> QED
    BY <2>2, <2>3, <2>4, Zenon
<1>5. /\ Known(sp0, pm, sys) /\ Eager(aggressive, sp0, {d}) /\ s.location \in {"NORMAL", "RETURNED"}
      /\ s \in SpanRecord
      /\ \A x \in Descriptor : x # d => sp0[x] = sp[x]
  BY Zenon DEF Loose
<1>6. \A x \in LiveIn(sp0) : Proper(sp0, pm, x)
  BY <1>5, SpanFacts, Zenon
<1> HIDE DEF sp0, prev, next, E, w, off, sp2, pm2, m
<1>7. sp2 = [e \in Descriptor |-> IF e = d THEN w ELSE IF e \in E THEN Deleted ELSE sp0[e]]
  BY <1>1, <1>5, Zenon
<1>8. pm[s.start] = d /\ pm[LastPage(s)] = d
  BY <1>3, <1>6, Zenon DEF Proper
<1>9. /\ w.start \in 0 .. NPages + 1 /\ LastPage(w) \in 0 .. NPages + 1
      /\ d \in Descriptor \cup {0}
      /\ pm \in [0 .. NPages + 1 -> Descriptor \cup {0}]
  BY <1>3, <1>4, <1>5, RecordFacts, PageHeapAssumption, SMTT(30) DEF Known
<1>10. /\ pm2 \in [0 .. NPages + 1 -> Descriptor \cup {0}]
       /\ \A p \in 0 .. NPages + 1 : p \notin {w.start, LastPage(w)} => pm2[p] = pm[p]
       /\ pm2[w.start] = d \/ (pm2[w.start] = pm[w.start] /\ prev \notin E)
       /\ pm2[LastPage(w)] = d \/ (pm2[LastPage(w)] = pm[LastPage(w)] /\ next \notin E)
  <2>1. \A p \in 0 .. NPages + 1 :
          pm2[p] = IF (prev \in E /\ p = w.start) \/ (next \in E /\ p = LastPage(w))
                   THEN d ELSE pm[p]
    BY <1>1, Zenon
  <2>2. pm2 \in [0 .. NPages + 1 -> Descriptor \cup {0}]
    BY <1>1, <1>9, Zenon
  <2>3. /\ pm2[w.start] = IF prev \in E \/ (next \in E /\ w.start = LastPage(w))
                          THEN d ELSE pm[w.start]
        /\ pm2[LastPage(w)] = IF next \in E \/ (prev \in E /\ w.start = LastPage(w))
                              THEN d ELSE pm[LastPage(w)]
    BY <1>9, <2>1, SMTT(30)
  <2>4. \A p \in 0 .. NPages + 1 : p \notin {w.start, LastPage(w)} => pm2[p] = pm[p]
    BY <2>1, SMTT(30)
  <2>5. /\ pm2[w.start] = d \/ (pm2[w.start] = pm[w.start] /\ prev \notin E)
        /\ pm2[LastPage(w)] = d \/ (pm2[LastPage(w)] = pm[LastPage(w)] /\ next \notin E)
    BY <2>3, SMTT(30)
  <2> QED
    BY <2>2, <2>4, <2>5
<1>11. pm2[w.start] = d /\ pm2[LastPage(w)] = d
  BY <1>4, <1>8, <1>10, Zenon
<1>12. w.location \in {"NORMAL", "RETURNED"} /\ w.location # "DELETED"
       /\ w.location # "IN_USE"
  <2>1. w.location = "RETURNED" \/ w.location = s.location
    BY <1>4, Zenon
  <2> QED
    BY <1>5, <2>1, SMTT(30)
<1>13. Known(sp2, pm2, sys) /\ LiveIn(sp2) = LiveIn(sp0) \ E
  <2>1. Joins(sp0, pm, d, E, w, sp2, pm2)
    <3>1. \A p \in Page : In(p, w) <=> \E x \in E \cup {d} : In(p, sp0[x])
      BY <1>2, Zenon DEF w, E, sp0
    <3> QED
      BY <1>3, <1>4, <1>7, <1>10, <1>11, <1>12, <3>1, Zenon DEF Joins
  <2> QED
    BY <1>5, <2>1, JoinSpans
<1>14. /\ sp2[d] = w
       /\ \A x \in LiveIn(sp2) : x # d => /\ x \in LiveIn(sp0) \ {d} /\ x \notin E
                                          /\ sp2[x] = sp0[x] /\ x \in Descriptor
  BY <1>3, <1>7, <1>13, Zenon DEF LiveIn
<1>15. Eager(aggressive, sp2, {})
  <2> SUFFICES ASSUME NEW x \in LiveIn(sp2), NEW y \in LiveIn(sp2),
                      LastPage(sp2[x]) + 1 = sp2[y].start
               PROVE  \/ "IN_USE" \in {sp2[x].location, sp2[y].location}
                      \/ ~ aggressive /\ sp2[x].location # sp2[y].location
    BY Zenon DEF Eager
  <2>w. ~ aggressive => w.location = s.location
    BY <1>4, Zenon DEF off, Decommits
  <2>r. RealNeighbours(sp0, pm, d) /\ LastPage(s) + 1 = s.start + s.length
    BY <1>3, <1>5, Neighbours, RecordFacts, SMTT(30)
  <2>n. next = pm[LastPage(sp0[d]) + 1] /\ prev = pm[sp0[d].start - 1]
    BY <1>3, <2>r, Zenon DEF next, Following, prev, Prev
  <2>1. CASE x # d /\ y # d
    BY <1>5, <1>14, <2>1, SMT DEF Eager
  <2>2. CASE x = d /\ y # d
    <3>1. /\ y \in LiveIn(sp0) \ {d} /\ y \notin E /\ sp2[y] = sp0[y]
          /\ LastPage(w) + 1 = sp0[y].start /\ sp0[y] = sp[y]
      BY <1>5, <1>14, <2>2, SMT
    <3>2. CASE next \in E
      <4>1. next \in LiveIn(sp0) \ {d} /\ sp0[next] = sp[next] /\ next \in Descriptor
        BY <1>3, <1>5, <3>2, Zenon DEF LiveIn
      <4>2. LastPage(sp0[next]) + 1 = sp0[y].start
        BY <1>4, <3>1, <3>2, <4>1, Zenon
      <4>3. \/ "IN_USE" \in {sp0[next].location, sp0[y].location}
            \/ ~ aggressive /\ sp0[next].location # sp0[y].location
        BY <1>5, <3>1, <4>1, <4>2, Zenon DEF Eager
      <4>4. sp0[next].location # "IN_USE"
            /\ (~ aggressive => sp0[next].location = s.location)
        BY <1>3, <3>2, <4>1, SMTT(30)
      <4> QED
        BY <1>14, <2>2, <2>w, <3>1, <4>3, <4>4, SMTT(30)
    <3>3. CASE next \notin E
      <4>1. LastPage(sp0[d]) + 1 = sp0[y].start
        BY <1>3, <1>4, <3>1, <3>3, Zenon
      <4>2. next = y /\ y # 0
        BY <1>6, <2>n, <3>1, <4>1, Zenon DEF Proper
      <4>3. \/ sp[y].location = "IN_USE"
            \/ ~ aggressive /\ sp[y].location # s.location
        BY <1>3, <3>1, <4>2, Zenon
      <4> QED
        BY <1>14, <2>2, <2>w, <3>1, <4>3, SMTT(30)
    <3> QED
      BY <3>2, <3>3
  <2>3. CASE x # d /\ y = d
    <3>1. /\ x \in LiveIn(sp0) \ {d} /\ x \notin E /\ sp2[x] = sp0[x]
          /\ LastPage(sp0[x]) + 1 = w.start /\ sp0[x] = sp[x]
      BY <1>5, <1>14, <2>3, SMT
    <3>2. CASE prev \in E
      <4>1. prev \in LiveIn(sp0) \ {d} /\ sp0[prev] = sp[prev] /\ prev \in Descriptor
        BY <1>3, <1>5, <3>2, Zenon DEF LiveIn
      <4>2. LastPage(sp0[x]) + 1 = sp0[prev].start
        BY <1>4, <3>1, <3>2, <4>1, Zenon
      <4>3. \/ "IN_USE" \in {sp0[x].location, sp0[prev].location}
            \/ ~ aggressive /\ sp0[x].location # sp0[prev].location
        BY <1>5, <3>1, <4>1, <4>2, Zenon DEF Eager
      <4>4. sp0[prev].location # "IN_USE"
            /\ (~ aggressive => sp0[prev].location = s.location)
        BY <1>3, <3>2, <4>1, SMTT(30)
      <4> QED
        BY <1>14, <2>3, <2>w, <3>1, <4>3, <4>4, SMTT(30)
    <3>3. CASE prev \notin E
      <4>1. LastPage(sp0[x]) = sp0[d].start - 1
        BY <1>3, <1>4, <1>6, <3>1, <3>3, SMTT(30) DEF Proper, Page
      <4>2. prev = x /\ x # 0
        BY <1>6, <2>n, <3>1, <4>1, Zenon DEF Proper
      <4>3. \/ sp[x].location = "IN_USE"
            \/ ~ aggressive /\ sp[x].location # s.location
        BY <1>3, <3>1, <4>2, Zenon
      <4> QED
        BY <1>14, <2>3, <2>w, <3>1, <4>3, SMTT(30)
    <3> QED
      BY <3>2, <3>3
  <2>4. CASE x = d /\ y = d
    BY <1>4, <1>14, <2>4, RecordFacts, SMTT(30)
  <2> QED
    BY <2>1, <2>2, <2>3, <2>4
<1>16. \A x \in Descriptor : /\ sp2[x].location = "IN_USE"
                                 <=> x # d /\ sp[x].location = "IN_USE"
                             /\ sp2[x].location = "IN_USE" => sp2[x] = sp[x]
  <2> TAKE x \in Descriptor
  <2>1. CASE x = d
    BY <1>12, <1>14, <2>1, Zenon
  <2>2. CASE x # d /\ x \in E
    <3>1. sp2[x].location = "DELETED" /\ sp[x].location \in {"NORMAL", "RETURNED"}
      BY <1>1, <1>3, <2>2, Zenon DEF Deleted
    <3> QED
      BY <3>1, SMTT(30)
  <2>3. CASE x # d /\ x \notin E
    BY <1>1, <2>3, Zenon
  <2> QED
    BY <2>1, <2>2, <2>3
<1> QED
  BY <1>13, <1>15, <1>16, Zenon DEF MergeKeeps, sp2, pm2, m


-----------------------------------------------------------------------------
(* The calls.                                                              *)

LEMMA CallFacts ==
  ASSUME NEW c, GoodCall(c)
  PROVE  /\ c.at \in Searching \cup {"idle", "release", "scavenged"}
         /\ c.n \in 0 .. NPages /\ c.s \in Nat /\ c.round \in 0 .. 3 /\ c.ask \in Nat
         /\ c.goal \in Int /\ c.done \in Nat /\ c.i \in Nat
         /\ c.ret \in Searching \cup {"idle", "scavenged"}
         /\ c.at # "release" => Place(c) = c.at
         /\ c.at = "release" => Place(c) = c.ret
  BY Zenon DEF GoodCall, CallRecord, Place

LEMMA IdleCall == GoodCall(Idle)
<1>1. Idle \in CallRecord
  BY PageHeapAssumption, SMTT(30) DEF Idle, CallRecord, Searching
<1>2. Place(Idle) = "idle"
  BY SMTT(30) DEF Idle, Place
<1> QED
  BY <1>1, <1>2, SMTT(30) DEF GoodCall, Searching

LEMMA SearchCall ==
  ASSUME NEW n \in 1 .. NPages, NEW round \in 0 .. 3
  PROVE  GoodCall(Search(n, round))
<1> DEFINE c == Search(n, round)
<1> DEFINE s == IF n < kMaxPages THEN n ELSE kMaxPages
<1>1. c = [Idle EXCEPT !.at = "search", !.n = n, !.round = round, !.s = s]
  BY DEF Search
<1>2. s \in Nat /\ n \in 0 .. NPages /\ "search" \in Searching
  BY PageHeapAssumption, SMTT(30) DEF Searching
<1> HIDE DEF c, s
<1>i. Idle \in CallRecord
  BY IdleCall, Zenon DEF GoodCall
<1>3. c \in CallRecord
  BY <1>i, <1>1, <1>2, Zenon DEF CallRecord
<1>4. c.at = "search" /\ c.n = n /\ c.s = s
  BY <1>i, <1>1, Zenon DEF CallRecord
<1>5. Place(c) = "search"
  BY <1>4, SMTT(30) DEF Place
<1>6. n <= s \/ kMaxPages <= s
  BY PageHeapAssumption, SMTT(30) DEF s
<1>7. n # 0
  BY SMTT(30)
<1>8. GoodCall(c)
  BY <1>3, <1>4, <1>5, <1>6, <1>7, SMTT(30) DEF GoodCall
<1> QED
  BY <1>8 DEF c

\* Only where a call is changes.
LEMMA MovedCall ==
  ASSUME GoodCall(call), NEW at \in Searching,
         Place(call) \in Searching,
         at \in {"search", "small", "large"} => call.n <= call.s \/ kMaxPages <= call.s,
         at = "small" => call.s < kMaxPages,
         at \in {"grow", "grown", "sysalloc"} => call.n <= call.ask
  PROVE  GoodCall([call EXCEPT !.at = at])
<1> DEFINE c == [call EXCEPT !.at = at]
<1>1. c \in CallRecord
  BY Zenon DEF GoodCall, CallRecord
<1>2. c.at = at /\ c.n = call.n /\ c.s = call.s /\ c.ask = call.ask
  BY Zenon DEF GoodCall, CallRecord
<1>3. Place(c) = at
  BY <1>2, SMTT(30) DEF Place, Searching
<1>4. call.n # 0
  BY Zenon DEF GoodCall
<1> HIDE DEF c
<1>5. GoodCall(c)
  BY <1>1, <1>2, <1>3, <1>4, Zenon DEF GoodCall
<1> QED
  BY <1>5 DEF c

LEMMA ReleaseCall ==
  ASSUME NEW c, c \in CallRecord, NEW n \in Int,
         NEW ret \in Searching \cup {"idle", "scavenged"},
         ret \in Searching => c.n # 0,
         ret \in {"search", "small", "large"} => c.n <= c.s \/ kMaxPages <= c.s,
         ret = "small" => c.s < kMaxPages,
         ret \in {"grow", "grown", "sysalloc"} => c.n <= c.ask
  PROVE  GoodCall(StartRelease(c, n, ret))
<1> DEFINE r == StartRelease(c, n, ret)
<1>1. r = [c EXCEPT !.at = "release", !.goal = n, !.done = 0, !.i = 0, !.ret = ret]
  BY DEF StartRelease
<1>2. r \in CallRecord
  <2>1. 0 \in Nat /\ "release" \in Searching \cup {"idle", "release", "scavenged"}
    BY SMTT(30)
  <2> QED
    BY <1>1, <2>1, Zenon DEF CallRecord
<1>3. r.at = "release" /\ r.ret = ret /\ r.n = c.n /\ r.s = c.s /\ r.ask = c.ask
  BY <1>1, Zenon DEF CallRecord
<1> HIDE DEF r
<1>4. Place(r) = ret
  BY <1>3, Zenon DEF Place
<1>5. GoodCall(r)
  BY <1>2, <1>3, <1>4, Zenon DEF GoodCall
<1> QED
  BY <1>5 DEF r

-----------------------------------------------------------------------------
(* The state after a step.                                                 *)

LEMMA PrimedLayout ==
  Layout' <=> Known(span', pagemap', system') /\ Eager(aggressive', span', {})
  BY DEF Layout

LEMMA PrimedCall == GoodCall(call)' <=> GoodCall(call')
  OBVIOUS

LEMMA LiveNow == Live = LiveIn(span)
  BY DEF Live, LiveIn

\* NewSpan finds an unused descriptor for a run no live span begins with.
Fresh == \A p \in Page : (\A x \in LiveIn(span) : span[x].start # p)
                           => NewDescriptor(p) \in Descriptor \ LiveIn(span)

\* The spans in use other than those of D are what they were.
OthersInUse(D) ==
  \A x \in Descriptor \ D : /\ span'[x].location = "IN_USE" <=> span[x].location = "IN_USE"
                            /\ span'[x].location = "IN_USE" => span'[x] = span[x]

LEMMA CounterFacts ==
  ASSUME NEW st \in StatsRecord, NEW s \in SpanRecord
  PROVE  LET l == s.length
             r == RemoveFromFreeList(st, s)
             a == PrependToFreeList(st, s)
         IN  /\ r \in StatsRecord /\ a \in StatsRecord
             /\ r = IF s.location = "NORMAL" THEN [st EXCEPT !.free = @ - l]
                                             ELSE [st EXCEPT !.unmapped = @ - l]
             /\ a = IF s.location = "NORMAL" THEN [st EXCEPT !.free = @ + l]
                                             ELSE [st EXCEPT !.unmapped = @ + l]
<1> DEFINE l == s.length
<1>1. /\ st.free - l \in Int /\ st.free + l \in Int
      /\ st.unmapped - l \in Int /\ st.unmapped + l \in Int
  BY RecordFacts, SMTT(30) DEF StatsRecord
<1>2. /\ [st EXCEPT !.free = @ - l] \in StatsRecord
      /\ [st EXCEPT !.free = @ + l] \in StatsRecord
      /\ [st EXCEPT !.unmapped = @ - l] \in StatsRecord
      /\ [st EXCEPT !.unmapped = @ + l] \in StatsRecord
  BY <1>1, Zenon DEF StatsRecord
<1>3. CASE s.location = "NORMAL"
  BY <1>2, <1>3, Zenon DEF RemoveFromFreeList, PrependToFreeList, Counter
<1>4. CASE s.location # "NORMAL"
  BY <1>2, <1>4, Zenon DEF RemoveFromFreeList, PrependToFreeList, Counter
<1> QED
  BY <1>3, <1>4

\* The statistics r are st, with a more free and b more unmapped pages.
Counts(r, st, a, b) ==
  /\ r \in StatsRecord
  /\ r.system = st.system /\ r.committed = st.committed
  /\ r.free = st.free + a /\ r.unmapped = st.unmapped + b

LEMMA CountFacts ==
  ASSUME NEW st \in StatsRecord, NEW s \in SpanRecord
  PROVE  /\ s.location = "NORMAL" => /\ Counts(RemoveFromFreeList(st, s), st, - s.length, 0)
                                     /\ Counts(PrependToFreeList(st, s), st, s.length, 0)
         /\ s.location # "NORMAL" => /\ Counts(RemoveFromFreeList(st, s), st, 0, - s.length)
                                     /\ Counts(PrependToFreeList(st, s), st, 0, s.length)
<1> DEFINE l == s.length
           r == RemoveFromFreeList(st, s)
           a == PrependToFreeList(st, s)
<1>1. /\ r \in StatsRecord /\ a \in StatsRecord
      /\ r = IF s.location = "NORMAL" THEN [st EXCEPT !.free = @ - l]
                                      ELSE [st EXCEPT !.unmapped = @ - l]
      /\ a = IF s.location = "NORMAL" THEN [st EXCEPT !.free = @ + l]
                                      ELSE [st EXCEPT !.unmapped = @ + l]
  BY CounterFacts, Zenon
<1>2. /\ st.free - l = st.free + (- l) /\ st.unmapped - l = st.unmapped + (- l)
      /\ st.free + 0 = st.free /\ st.unmapped + 0 = st.unmapped
  BY RecordFacts, SMTT(30) DEF StatsRecord
<1> HIDE DEF l, r, a
<1>3. CASE s.location = "NORMAL"
  <2>1. r.free = st.free - l /\ a.free = st.free + l
        /\ r.unmapped = st.unmapped /\ a.unmapped = st.unmapped
        /\ r.system = st.system /\ a.system = st.system
        /\ r.committed = st.committed /\ a.committed = st.committed
    BY <1>1, <1>3, Zenon DEF StatsRecord
  <2> QED
    BY <1>1, <1>2, <1>3, <2>1, Zenon DEF Counts, l, r, a
<1>4. CASE s.location # "NORMAL"
  <2>1. r.unmapped = st.unmapped - l /\ a.unmapped = st.unmapped + l
        /\ r.free = st.free /\ a.free = st.free
        /\ r.system = st.system /\ a.system = st.system
        /\ r.committed = st.committed /\ a.committed = st.committed
    BY <1>1, <1>4, Zenon DEF StatsRecord
  <2> QED
    BY <1>1, <1>2, <1>4, <2>1, Zenon DEF Counts, l, r, a
<1> QED
  BY <1>3, <1>4, Zenon

\* The page p is in a span with location l.
FreeAt(sp, l, p) == \E x \in LiveIn(sp) : sp[x].location = l /\ In(p, sp[x])

\* What Carve does to the statistics when it takes n pages with location loc.
CarvedStats(loc, n) ==
  /\ stats'.system = stats.system
  /\ stats'.free = stats.free - (IF loc = "NORMAL" THEN n ELSE 0)
  /\ stats'.unmapped = stats.unmapped - (IF loc = "NORMAL" THEN 0 ELSE n)
  /\ stats'.committed = stats.committed + (IF loc = "NORMAL" THEN 0 ELSE n)

LEMMA CarveStats ==
  ASSUME stats \in StatsRecord, NEW d \in Descriptor, span[d] \in SpanRecord,
         span[d].location \in {"NORMAL", "RETURNED"},
         NEW n \in Int, 0 < n, n <= span[d].length, LastPage(span[d]) <= NPages,
         Carve(d, n)
  PROVE  stats' \in StatsRecord /\ CarvedStats(span[d].location, n)
<1> DEFINE s == span[d]
           rest == [s EXCEPT !.start = @ + n, !.length = @ - n]
           taken == RemoveFromFreeList(stats, s)
           st == IF rest.length > 0 THEN PrependToFreeList(taken, rest) ELSE taken
<1>1. stats' = IF s.location = "RETURNED" THEN [st EXCEPT !.committed = @ + n] ELSE st
  BY Zenon DEF Carve
<1>2. rest.length = s.length - n /\ rest.location = s.location /\ rest.start = s.start + n
  BY Zenon DEF SpanRecord
<1>3. s.length \in 0 .. NPages /\ s.length \in Int /\ NPages \in Nat
  BY RecordFacts, SMTT(30)
<1>4. Counts(taken, stats, IF s.location = "NORMAL" THEN - s.length ELSE 0,
             IF s.location = "NORMAL" THEN 0 ELSE - s.length)
  BY CountFacts, Zenon
<1> HIDE DEF taken, rest
<1>5. Counts(st, stats, IF s.location = "NORMAL" THEN - n ELSE 0,
             IF s.location = "NORMAL" THEN 0 ELSE - n)
  <2>1. CASE rest.length > 0
    <3>1. rest \in SpanRecord
      <4>1. s.start + n \in 0 .. NPages /\ s.length - n \in 0 .. NPages
        BY <1>2, <1>3, <2>1, RecordFacts, SMTT(30)
      <4> QED
        BY <4>1, Zenon DEF SpanRecord, rest
    <3>2. taken \in StatsRecord
      BY <1>4, Zenon DEF Counts
    <3>3. Counts(st, taken, IF s.location = "NORMAL" THEN s.length - n ELSE 0,
                 IF s.location = "NORMAL" THEN 0 ELSE s.length - n)
      BY <1>2, <2>1, <3>1, <3>2, CountFacts, Zenon
    <3> HIDE DEF st
    <3> QED
      BY <1>3, <1>4, <3>3, SMTT(30) DEF Counts, StatsRecord
  <2>2. CASE ~ (rest.length > 0)
    <3>1. s.length = n
      BY <1>2, <1>3, <2>2, SMTT(30)
    <3> QED
      BY <1>4, <2>2, <3>1, Zenon
  <2> QED
    BY <2>1, <2>2
<1> HIDE DEF st
<1>6. st \in StatsRecord /\ st.committed + n \in Int
  BY <1>5, SMTT(30) DEF Counts, StatsRecord
<1>7. /\ stats' \in StatsRecord
      /\ stats'.system = st.system /\ stats'.free = st.free /\ stats'.unmapped = st.unmapped
      /\ stats'.committed = IF s.location = "NORMAL" THEN st.committed ELSE st.committed + n
  <2>1. CASE s.location = "RETURNED"
    <3>1. s.location # "NORMAL"
      BY <2>1, SMTT(30)
    <3> QED
      BY <1>1, <1>6, <2>1, <3>1, Zenon DEF StatsRecord
  <2>2. CASE s.location = "NORMAL"
    <3>1. s.location # "RETURNED"
      BY <2>2, SMTT(30)
    <3> QED
      BY <1>1, <1>6, <2>2, <3>1, Zenon
  <2> QED
    BY <2>1, <2>2
<1> QED
  BY <1>3, <1>5, <1>7, SMTT(30) DEF Counts, CarvedStats, StatsRecord

\* The first n pages of a free span go to a user.
LEMMA CarveStep ==
  ASSUME Spans, Fresh, NEW d \in Descriptor, span[d].location \in {"NORMAL", "RETURNED"},
         NEW n \in Int, 0 < n, n <= span[d].length, Carve(d, n),
         UNCHANGED <<system, aggressive>>
  PROVE  /\ Layout' /\ stats' \in StatsRecord
         /\ span'[d].start = span[d].start /\ span'[d].length = n
         /\ span'[d].location = "IN_USE"
         /\ OthersInUse({d})
         /\ \A p \in Page, l \in {"NORMAL", "RETURNED"} :
              FreeAt(span', l, p) <=> FreeAt(span, l, p) /\ ~ In(p, span'[d])
         /\ CarvedStats(span[d].location, n)
<1> DEFINE s == span[d]
           e == NewDescriptor(span[d].start + n)
           rest == [s EXCEPT !.start = @ + n, !.length = @ - n]
<1>1. d \in LiveIn(span) /\ Known(span, pagemap, system) /\ Eager(aggressive, span, {})
  <2>1. span[d].location # "DELETED"
    BY SMTT(30)
  <2> QED
    BY <2>1, Zenon DEF Spans, Layout, LiveIn
<1>2. \A x \in LiveIn(span) : Proper(span, pagemap, x)
  BY <1>1, SpanFacts, Zenon
<1>3. s \in SpanRecord /\ s.start \in Page /\ s.length \in Page /\ LastPage(s) \in Page
      /\ LastPage(s) = s.start + s.length - 1 /\ NPages \in Nat
  BY <1>1, <1>2, PageHeapAssumption, Zenon DEF Proper
<1>4. s.sizeclass = 0
  <2>1. Whole(pagemap, system, d, s) /\ s.location # "IN_USE"
    BY <1>1, SMTT(30) DEF Known
  <2> QED
    BY <2>1, Zenon DEF Whole
<1>5. rest.length = s.length - n
  BY <1>3, Zenon DEF SpanRecord
<1>s. stats' \in StatsRecord /\ CarvedStats(span[d].location, n)
  <2>1. LastPage(span[d]) <= NPages
    BY <1>3, SMTT(30) DEF Page
  <2> QED
    BY <1>3, <2>1, CarveStats, Zenon DEF Spans, Bookkeeping
<1>6. CASE n < s.length
  <2>1. rest.length > 0 /\ s.start + n \in Page /\ In(s.start + n, s) /\ s.start # s.start + n
    BY <1>3, <1>5, <1>6, SMTT(30) DEF Page, In
  <2>2. \A x \in LiveIn(span) : span[x].start # s.start + n
    <3> TAKE x \in LiveIn(span)
    <3>1. span[x].start \in Page /\ In(span[x].start, span[x])
      BY <1>2, Zenon DEF Proper
    <3>2. x # d => ~ In(span[x].start, s)
      BY <1>1, <3>1, Zenon DEF Known
    <3> QED
      BY <2>1, <3>2, Zenon
  <2>3. e \in Descriptor \ LiveIn(span)
    BY <2>1, <2>2, Zenon DEF Fresh
  <2> HIDE DEF e
  <2>4. "IN_USE" \in Located /\ s.length # 0
    BY <1>3, SMTT(30) DEF Located, Page
  <2> DEFINE sp2 == CutSpans(span, d, e, n, "IN_USE")
             pm2 == CutMap(pagemap, s, d, e, n)
  <2>5. /\ Known(sp2, pm2, system)
        /\ LiveIn(sp2) = LiveIn(span) \cup {e}
        /\ d # e /\ sp2[d] = Front(s, n, "IN_USE") /\ sp2[e] = Rest(s, n)
        /\ \A x \in Descriptor \ {d, e} : sp2[x] = span[x]
    <3>1. CutKeeps(span, pagemap, system, d, e, n, "IN_USE")
      BY <1>1, <1>4, <1>6, <2>3, <2>4, CutSpan, Zenon
    <3> QED
      BY <3>1, Zenon DEF CutKeeps
  <2>6. span' = sp2
    BY <2>1, Zenon DEF Carve, CutSpans, Front, Rest, e
  <2>7. pagemap' = pm2
    <3>1. rest.start = s.start + n /\ LastPage(rest) = LastPage(s)
      <4>1. rest.start = s.start + n
        BY <1>3, Zenon DEF SpanRecord
      <4> QED
        BY <1>3, <1>5, <4>1, SMTT(30) DEF LastPage, Page
    <3>2. pagemap' = [RecordSpan(pagemap, e, rest) EXCEPT ![s.start + n - 1] = d]
      BY <2>1, Zenon DEF Carve, e
    <3> QED
      BY <3>1, <3>2, Zenon DEF RecordSpan, CutMap
  <2> HIDE DEF sp2, pm2
  <2>8. /\ sp2[d].start = s.start /\ sp2[d].length = n /\ sp2[d].location = "IN_USE"
        /\ sp2[e].start = s.start + n /\ sp2[e].location = s.location
        /\ LastPage(sp2[e]) = LastPage(s) /\ LastPage(sp2[d]) = s.start + n - 1
    <3>1. /\ sp2[d].start = s.start /\ sp2[d].length = n /\ sp2[d].location = "IN_USE"
          /\ sp2[e].start = s.start + n /\ sp2[e].location = s.location
          /\ sp2[e].length = s.length - n
      BY <1>3, <2>5, Zenon DEF SpanRecord, Front, Rest
    <3> QED
      BY <1>3, <3>1, SMTT(30) DEF LastPage, Page
  <2>9. \A x \in LiveIn(sp2) : Proper(sp2, pm2, x)
    BY <2>5, SpanFacts, Zenon
  <2>10. Eager(aggressive, sp2, {})
    <3> SUFFICES ASSUME NEW x \in LiveIn(sp2), NEW y \in LiveIn(sp2),
                        LastPage(sp2[x]) + 1 = sp2[y].start
                 PROVE  \/ "IN_USE" \in {sp2[x].location, sp2[y].location}
                        \/ ~ aggressive /\ sp2[x].location # sp2[y].location
      BY Zenon DEF Eager
    <3>1. CASE x = d \/ y = d
      BY <2>8, <3>1, Zenon
    <3>2. CASE y = e /\ x # d
      <4>1. /\ LastPage(sp2[x]) = s.start + n - 1 /\ In(LastPage(sp2[x]), sp2[x])
            /\ LastPage(sp2[x]) \in Page
        <5>1. /\ In(LastPage(sp2[x]), sp2[x]) /\ LastPage(sp2[x]) \in Page
              /\ LastPage(sp2[x]) + 1 = s.start + n
          BY <2>8, <2>9, <3>2, Zenon DEF Proper
        <5> QED
          BY <1>3, <5>1, SMTT(30) DEF Page
      <4>2. In(LastPage(sp2[x]), sp2[d]) /\ d \in LiveIn(sp2)
        BY <1>1, <1>3, <2>5, <2>8, <4>1, SMTT(30) DEF In, Page
      <4> QED
        BY <2>5, <3>2, <4>1, <4>2, Zenon DEF Known
    <3>3. CASE x = e /\ y \notin {d, e}
      <4>1. y \in LiveIn(span) /\ sp2[y] = span[y] /\ LastPage(span[d]) + 1 = span[y].start
        BY <2>5, <2>8, <3>3, Zenon DEF LiveIn
      <4> QED
        BY <1>1, <2>8, <3>3, <4>1, SMT DEF Eager
    <3>4. CASE x \notin {d, e} /\ y \notin {d, e}
      <4>1. /\ x \in LiveIn(span) /\ sp2[x] = span[x]
            /\ y \in LiveIn(span) /\ sp2[y] = span[y]
        BY <2>5, <3>4, Zenon DEF LiveIn
      <4> QED
        BY <1>1, <4>1, SMT DEF Eager
    <3> QED
      BY <3>1, <3>2, <3>3, <3>4, Zenon
  <2>11. Layout'
    BY <2>5, <2>6, <2>7, <2>10, PrimedLayout, Zenon
  <2>12. OthersInUse({d})
    <3>1. sp2[e].location # "IN_USE" /\ span[e].location # "IN_USE"
      <4>1. span[e].location = "DELETED"
        BY <2>3, Zenon DEF LiveIn
      <4> QED
        BY <2>8, <4>1, SMTT(30)
    <3>2. \A x \in Descriptor \ {d} : x # e => sp2[x] = span[x]
      BY <2>5, Zenon
    <3> QED
      BY <2>6, <3>1, <3>2, SMT DEF OthersInUse
  <2>13. ASSUME NEW p \in Page, NEW l \in {"NORMAL", "RETURNED"}
         PROVE  FreeAt(sp2, l, p) <=> FreeAt(span, l, p) /\ ~ In(p, sp2[d])
    <3>1. In(p, s) <=> In(p, sp2[d]) \/ In(p, sp2[e])
      BY <1>3, <1>6, <2>8, SMTT(30) DEF In, Page
    <3>2. ~ (In(p, sp2[d]) /\ In(p, sp2[e]))
      BY <1>3, <1>6, <2>8, SMTT(30) DEF In, Page
    <3>3. l # "IN_USE" /\ d \in LiveIn(sp2) /\ e \in LiveIn(sp2)
      BY <1>1, <2>5, SMTT(30)
    <3>4. ASSUME NEW x \in LiveIn(sp2), sp2[x].location = l, In(p, sp2[x])
          PROVE  FreeAt(span, l, p) /\ ~ In(p, sp2[d])
      <4>1. x # d
        BY <2>8, <3>3, <3>4, Zenon
      <4>2. CASE x = e
        BY <1>1, <2>8, <3>1, <3>2, <3>4, <4>2, Zenon DEF FreeAt
      <4>3. CASE x # e
        <5>1. x \in LiveIn(span) /\ sp2[x] = span[x]
          BY <2>5, <4>1, <4>3, Zenon DEF LiveIn
        <5>2. ~ In(p, sp2[d])
          BY <2>5, <3>3, <3>4, <4>1, Zenon DEF Known
        <5> QED
          BY <3>4, <5>1, <5>2, Zenon DEF FreeAt
      <4> QED
        BY <4>2, <4>3
    <3>5. ASSUME NEW x \in LiveIn(span), span[x].location = l, In(p, span[x]), ~ In(p, sp2[d])
          PROVE  FreeAt(sp2, l, p)
      <4>1. CASE x = d
        BY <2>8, <3>1, <3>3, <3>5, <4>1, Zenon DEF FreeAt
      <4>2. CASE x # d
        <5>1. x \in LiveIn(sp2) /\ sp2[x] = span[x]
          BY <2>3, <2>5, <4>2, Zenon DEF LiveIn
        <5> QED
          BY <3>5, <5>1, Zenon DEF FreeAt
      <4> QED
        BY <4>1, <4>2
    <3> QED
      BY <3>4, <3>5, Zenon DEF FreeAt
  <2> QED
    BY <1>s, <2>6, <2>8, <2>11, <2>12, <2>13, Zenon
<1>7. CASE ~ (n < s.length)
  <2>1. n = s.length /\ ~ (rest.length > 0)
    BY <1>3, <1>5, <1>7, SMTT(30) DEF Page
  <2> DEFINE t == [s EXCEPT !.location = "IN_USE"]
             sp2 == [span EXCEPT ![d] = t]
  <2>2. span' = sp2 /\ pagemap' = pagemap
    BY <2>1, Zenon DEF Carve
  <2>3. /\ t \in SpanRecord /\ t.start = s.start /\ t.length = s.length
        /\ t.location = "IN_USE" /\ t.sizeclass = 0
    BY <1>3, <1>4, Zenon DEF SpanRecord, Located
  <2>4. "IN_USE" # "DELETED" /\ pagemap \in [0 .. NPages + 1 -> Descriptor \cup {0}]
        /\ span \in [Descriptor -> SpanRecord]
    BY <1>1, SMTT(30) DEF Known
  <2> HIDE DEF t
  <2>5. Known(sp2, pagemap, system) /\ LiveIn(sp2) = LiveIn(span)
    <3>1. Relabels(span, pagemap, d, t, sp2, pagemap)
      BY <1>1, <2>3, <2>4, Zenon DEF Relabels
    <3> HIDE DEF sp2
    <3> QED
      BY <1>1, <3>1, Relabel
  <2>6. sp2[d] = t /\ \A x \in Descriptor : x # d => sp2[x] = span[x]
    BY <2>4, Zenon
  <2> HIDE DEF sp2
  <2>7. Eager(aggressive, sp2, {})
    <3> SUFFICES ASSUME NEW x \in LiveIn(sp2), NEW y \in LiveIn(sp2),
                        LastPage(sp2[x]) + 1 = sp2[y].start
                 PROVE  \/ "IN_USE" \in {sp2[x].location, sp2[y].location}
                        \/ ~ aggressive /\ sp2[x].location # sp2[y].location
      BY Zenon DEF Eager
    <3>1. CASE x = d \/ y = d
      BY <2>3, <2>6, <3>1, Zenon
    <3>2. CASE x # d /\ y # d
      <4>1. /\ x \in LiveIn(span) /\ sp2[x] = span[x]
            /\ y \in LiveIn(span) /\ sp2[y] = span[y]
        BY <2>5, <2>6, <3>2, Zenon DEF LiveIn
      <4> QED
        BY <1>1, <4>1, SMT DEF Eager
    <3> QED
      BY <3>1, <3>2
  <2>8. Layout'
    BY <2>2, <2>5, <2>7, PrimedLayout, Zenon
  <2>9. OthersInUse({d})
    BY <2>2, <2>6, Zenon DEF OthersInUse
  <2>10. ASSUME NEW p \in Page, NEW l \in {"NORMAL", "RETURNED"}
         PROVE  FreeAt(sp2, l, p) <=> FreeAt(span, l, p) /\ ~ In(p, sp2[d])
    <3>1. /\ In(p, s) <=> In(p, sp2[d])
          /\ l # "IN_USE" /\ d \in LiveIn(sp2)
      <4>1. l # "IN_USE"
        BY SMTT(30)
      <4> QED
        BY <1>1, <2>3, <2>5, <2>6, <4>1, Zenon DEF In, LastPage
    <3>2. \A x \in LiveIn(span) \ {d} : sp2[x] = span[x] /\ ~ (In(p, sp2[x]) /\ In(p, sp2[d]))
      <4> TAKE x \in LiveIn(span) \ {d}
      <4>1. sp2[x] = span[x]
        BY <2>6, Zenon DEF LiveIn
      <4> QED
        BY <2>5, <3>1, <4>1, Zenon DEF Known
    <3> QED
      BY <2>3, <2>5, <2>6, <3>1, <3>2, Zenon DEF FreeAt
  <2>11. span'[d] = t /\ t.length = n
    BY <2>1, <2>2, <2>3, <2>6, Zenon
  <2> QED
    BY <1>s, <2>2, <2>3, <2>8, <2>9, <2>10, <2>11, Zenon
<1> QED
  BY <1>6, <1>7

-----------------------------------------------------------------------------
(* The steps that merge spans.                                             *)

\* What MergeIntoFreeList does to the statistics.
MergedStats(m, sp, pm, st, s, rv) ==
  LET w == WholeSpan(sp, pm, s, rv)
      off == Decommits(JoinedSpan(sp, pm, s), rv)
      temp == Temp(sp, pm, s)
  IN  /\ m \in StatsRecord /\ temp \in Nat
      /\ m.system = st.system
      /\ m.free = st.free - (Before(sp, pm, s) + After(sp, pm, s) - temp)
                    + (IF w.location = "NORMAL" THEN w.length ELSE 0)
      /\ m.unmapped = st.unmapped - temp + (IF w.location = "NORMAL" THEN 0 ELSE w.length)
      /\ m.committed = st.committed - (IF off THEN w.length - temp ELSE 0)

LEMMA MergeStats ==
  ASSUME NEW sp, NEW pm, NEW sys, NEW d, NEW s, Loose(sp, pm, sys, d, s),
         aggressive \in BOOLEAN, NEW st \in StatsRecord, NEW rv
  PROVE  MergedStats(Merged(sp, pm, st, d, s, rv).stats, sp, pm, st, s, rv)
<1> DEFINE w == WholeSpan(sp, pm, s, rv)
           off == Decommits(JoinedSpan(sp, pm, s), rv)
           before == Before(sp, pm, s)
           after == After(sp, pm, s)
           temp == Temp(sp, pm, s)
           m == Merged(sp, pm, st, d, s, rv).stats
           x == before + after - temp
           y == IF off THEN w.length - temp ELSE 0
           st1 == [[st EXCEPT !.free = @ - x, !.unmapped = @ - temp] EXCEPT !.committed = @ - y]
<1>1. JoinOf(sp, pm, d, s, rv)
  BY JoinFacts, Zenon
<1>2. before \in Nat /\ after \in Nat /\ w \in SpanRecord
  BY <1>1, Zenon DEF JoinOf
<1>3. m = PrependToFreeList(st1, w)
  <2>1. PartsOf(Merged(sp, pm, st, d, s, rv), sp, pm, st, d, s, rv)
    BY MergedParts, Zenon
  <2> QED
    BY <2>1, Zenon DEF PartsOf
<1>4. temp = (IF Prev(pm, s) \in Back(sp, pm, s) THEN before ELSE 0)
               + (IF Following(pm, s) \in Back(sp, pm, s) THEN after ELSE 0)
  BY DEF Temp
<1> HIDE DEF w, off, before, after, m
<1>5. temp \in Nat
  BY <1>2, <1>4, SMTT(30)
<1> HIDE DEF temp
<1>6. x \in Int /\ y \in Int /\ w.length \in Int
  BY <1>2, <1>5, RecordFacts, SMTT(30)
<1> HIDE DEF x, y
<1>7. st1 \in StatsRecord /\ st1.system = st.system /\ st1.free = st.free - x
      /\ st1.unmapped = st.unmapped - temp /\ st1.committed = st.committed - y
  <2>1. st.free - x \in Int /\ st.unmapped - temp \in Int /\ st.committed - y \in Int
    BY <1>5, <1>6, SMTT(30) DEF StatsRecord
  <2> QED
    BY <2>1, Zenon DEF StatsRecord
<1> HIDE DEF st1
<1>8. /\ m \in StatsRecord
      /\ m = IF w.location = "NORMAL" THEN [st1 EXCEPT !.free = @ + w.length]
                                      ELSE [st1 EXCEPT !.unmapped = @ + w.length]
  BY <1>2, <1>3, <1>7, CounterFacts, Zenon
<1>9. /\ m.system = st1.system /\ m.committed = st1.committed
      /\ m.free = IF w.location = "NORMAL" THEN st1.free + w.length ELSE st1.free
      /\ m.unmapped = IF w.location = "NORMAL" THEN st1.unmapped ELSE st1.unmapped + w.length
  <2>1. CASE w.location = "NORMAL"
    BY <1>7, <1>8, <2>1, Zenon DEF StatsRecord
  <2>2. CASE w.location # "NORMAL"
    BY <1>7, <1>8, <2>2, Zenon DEF StatsRecord
  <2> QED
    BY <2>1, <2>2
<1>10. st1.free \in Int /\ st1.unmapped \in Int
  BY <1>7, Zenon DEF StatsRecord
<1>11. /\ m.free = st.free - x + (IF w.location = "NORMAL" THEN w.length ELSE 0)
       /\ m.unmapped = st.unmapped - temp + (IF w.location = "NORMAL" THEN 0 ELSE w.length)
  BY <1>6, <1>7, <1>9, <1>10, SMTT(30)
<1> QED
  BY <1>5, <1>7, <1>8, <1>9, <1>11, Zenon DEF MergedStats, w, off, before, after, temp, m, x, y

\* The result of a merge is the next state.
LEMMA AppliedMerge ==
  ASSUME NEW sp, NEW pm, NEW d, NEW s, Loose(sp, pm, system', d, s),
         aggressive \in BOOLEAN, UNCHANGED aggressive, NEW st \in StatsRecord, NEW rv,
         ApplyMerge(Merged(sp, pm, st, d, s, rv))
  PROVE  /\ Layout'
         /\ MergedStats(stats', sp, pm, st, s, rv)
         /\ stats' \in StatsRecord
         /\ \A x \in Descriptor : /\ span'[x].location = "IN_USE"
                                      <=> x # d /\ sp[x].location = "IN_USE"
                                  /\ span'[x].location = "IN_USE" => span'[x] = sp[x]
<1> DEFINE m == Merged(sp, pm, st, d, s, rv)
<1>1. MergeKeeps(m, sp, system', d) /\ MergedStats(m.stats, sp, pm, st, s, rv)
  BY MergeSpans, MergeStats, Zenon
<1>2. span' = m.span /\ pagemap' = m.pagemap /\ stats' = m.stats
  BY Zenon DEF ApplyMerge
<1> HIDE DEF m
<1>3. Layout'
  BY <1>1, <1>2, PrimedLayout, Zenon DEF MergeKeeps
<1>4. MergedStats(stats', sp, pm, st, s, rv) /\ stats' \in StatsRecord
  BY <1>1, <1>2, Zenon DEF MergedStats
<1> QED
  BY <1>1, <1>2, <1>3, <1>4, Zenon DEF MergeKeeps

\* A span that is in use, or on the list of normal spans, becomes loose when it
\* is deleted or released.
LEMMA LooseSpan ==
  ASSUME Layout, NEW d \in LiveIn(span), NEW s \in SpanRecord,
         s.location \in {"NORMAL", "RETURNED"}, s.sizeclass = 0,
         s.start = span[d].start, s.length = span[d].length
  PROVE  Loose(span, pagemap, system, d, s)
<1> DEFINE sp0 == [span EXCEPT ![d] = s]
<1>1. Known(span, pagemap, system) /\ Eager(aggressive, span, {})
      /\ span \in [Descriptor -> SpanRecord] /\ d \in Descriptor
      /\ pagemap \in [0 .. NPages + 1 -> Descriptor \cup {0}]
  BY Zenon DEF Layout, Known, LiveIn
<1>2. Relabels(span, pagemap, d, s, sp0, pagemap)
  <2>1. s.location # "DELETED"
    BY SMTT(30)
  <2> QED
    BY <1>1, <2>1, Zenon DEF Relabels
<1> HIDE DEF sp0
<1>3. Known(sp0, pagemap, system) /\ LiveIn(sp0) = LiveIn(span)
  BY <1>1, <1>2, Relabel
<1>4. \A x \in LiveIn(sp0) \ {d} : x \in LiveIn(span) /\ sp0[x] = span[x]
  BY <1>1, <1>3, Zenon DEF LiveIn, sp0
<1>5. Eager(aggressive, sp0, {d})
  <2> SUFFICES ASSUME NEW x \in LiveIn(sp0) \ {d}, NEW y \in LiveIn(sp0) \ {d},
                      LastPage(sp0[x]) + 1 = sp0[y].start
               PROVE  \/ "IN_USE" \in {sp0[x].location, sp0[y].location}
                      \/ ~ aggressive /\ sp0[x].location # sp0[y].location
    BY Zenon DEF Eager
  <2>1. /\ x \in LiveIn(span) /\ sp0[x] = span[x]
        /\ y \in LiveIn(span) /\ sp0[y] = span[y]
    BY <1>4, Zenon
  <2> QED
    BY <1>1, <2>1, SMT DEF Eager
<1> QED
  BY <1>1, <1>3, <1>5, Zenon DEF Loose, sp0

LEMMA ScavengeStep ==
  ASSUME scavenge_counter \in Int, NEW n \in Int, NEW c, GoodCall(c),
         IncrementalScavenge(n, c)
  PROVE  scavenge_counter' \in Int /\ GoodCall(call')
<1>1. scavenge_counter - n \in Int /\ kDefaultReleaseDelay \in Int /\ 1 \in Int
  BY PageHeapAssumption, SMTT(30)
<1>2. GoodCall(StartRelease(c, 1, "scavenged"))
  <2>1. c \in CallRecord /\ "scavenged" \notin Searching
        /\ "scavenged" \notin {"search", "small", "large"} /\ "scavenged" # "small"
        /\ "scavenged" \notin {"grow", "grown", "sysalloc"}
    BY SMTT(30) DEF GoodCall, Searching
  <2> QED
    BY <1>1, <2>1, ReleaseCall, Zenon
<1>3. /\ \/ scavenge_counter' = scavenge_counter - n
         \/ scavenge_counter' = kDefaultReleaseDelay
      /\ call' = c \/ call' = StartRelease(c, 1, "scavenged")
  BY Zenon DEF IncrementalScavenge
<1> QED
  BY <1>1, <1>2, <1>3, Zenon

\* PageHeap::Delete.
LEMMA DeleteStep ==
  ASSUME Spans, NEW d \in Descriptor, Delete(d)
  PROVE  /\ Spans'
         /\ d \in InUse /\ span'[d].location # "IN_USE" /\ OthersInUse({d})
<1> DEFINE freed == [span[d] EXCEPT !.location = "NORMAL", !.sizeclass = 0]
<1> USE DEF Spans
<1>1. d \in LiveIn(span) /\ span[d].location = "IN_USE" /\ d \in InUse
  <2>1. "IN_USE" # "DELETED"
    OBVIOUS
  <2> QED
    BY <2>1, Zenon DEF Delete, InUse, LiveIn
<1>2. /\ span[d] \in SpanRecord /\ aggressive \in BOOLEAN /\ stats \in StatsRecord
      /\ 0 \in {0, 1} /\ "NORMAL" \in Located \cup {"DELETED"}
  BY PageHeapAssumption, SMTT(30) DEF Layout, Known, Bookkeeping, Located
<1>3. /\ freed \in SpanRecord /\ freed.location = "NORMAL" /\ freed.sizeclass = 0
      /\ freed.start = span[d].start /\ freed.length = span[d].length
  BY <1>2, Zenon DEF SpanRecord
<1> HIDE DEF freed
<1>4. Loose(span, pagemap, system, d, freed)
  BY <1>1, <1>3, LooseSpan, Zenon
<1>5. PICK rv \in ReleaseResults :
        LET m == Merged(span, pagemap, stats, d, freed, rv)
        IN  ApplyMerge(m) /\ dirty' = (dirty \cup PagesOf(freed)) \ m.zeroed
  BY Zenon DEF Delete, freed
<1>6. UNCHANGED <<aggressive, release_index, system>>
      /\ IncrementalScavenge(freed.length, Idle)
  BY Zenon DEF Delete, freed
<1>7. /\ Layout' /\ stats' \in StatsRecord
      /\ \A x \in Descriptor : /\ span'[x].location = "IN_USE"
                                   <=> x # d /\ span[x].location = "IN_USE"
                               /\ span'[x].location = "IN_USE" => span'[x] = span[x]
  <2>1. Loose(span, pagemap, system', d, freed)
    BY <1>4, <1>6
  <2>2. ApplyMerge(Merged(span, pagemap, stats, d, freed, rv)) /\ aggressive' = aggressive
    BY <1>5, <1>6, Zenon
  <2> QED
    BY <1>2, <2>1, <2>2, AppliedMerge, Zenon
<1>8. dirty' \subseteq Page
  <2>1. PagesOf(span[d]) \subseteq Page
    BY <1>1, PagesIn, ZenonT(30) DEF Layout
  <2>2. PagesOf(freed) = PagesOf(span[d])
    BY <1>3, Zenon DEF PagesOf, LastPage
  <2> QED
    BY <1>5, <2>1, <2>2, Zenon DEF Bookkeeping
<1>9. scavenge_counter' \in Int /\ GoodCall(call')
  <2>1. freed.length \in Int
    BY <1>3, RecordFacts, SMTT(30)
  <2> QED
    BY <1>6, <2>1, ScavengeStep, IdleCall, Zenon DEF Bookkeeping
<1>10. Spans'
  BY <1>6, <1>7, <1>8, <1>9, Zenon DEF Bookkeeping
<1> QED
  BY <1>1, <1>7, <1>10, Zenon DEF OthersInUse

\* One span released by ReleaseLastNormalSpan.
LEMMA ReleaseStep ==
  ASSUME Spans, NEW d \in Descriptor, span[d].location = "NORMAL", NEW rv,
         UNCHANGED <<aggressive, system>>,
         ApplyMerge(Merged(span, pagemap,
                           [stats EXCEPT !.committed = @ - span[d].length,
                                         !.free = @ - span[d].length],
                           d, [span[d] EXCEPT !.location = "RETURNED"], rv))
  PROVE  Layout' /\ stats' \in StatsRecord /\ OthersInUse({})
<1> DEFINE s == [span[d] EXCEPT !.location = "RETURNED"]
           st == [stats EXCEPT !.committed = @ - span[d].length, !.free = @ - span[d].length]
<1> USE DEF Spans
<1>1. d \in LiveIn(span) /\ span[d] \in SpanRecord /\ span[d].location # "IN_USE"
  BY SMTT(30) DEF LiveIn, Layout, Known
<1>2. aggressive \in BOOLEAN /\ "RETURNED" \in Located \cup {"DELETED"}
      /\ stats \in StatsRecord
  BY PageHeapAssumption, SMTT(30) DEF Bookkeeping, Located
<1>3. span[d].sizeclass = 0
  BY <1>1, Zenon DEF Layout, Known, Whole
<1>4. /\ s \in SpanRecord /\ s.location = "RETURNED" /\ s.sizeclass = 0
      /\ s.start = span[d].start /\ s.length = span[d].length
  BY <1>1, <1>2, <1>3, Zenon DEF SpanRecord
<1>5. st \in StatsRecord
  <2>1. stats.committed - span[d].length \in Int /\ stats.free - span[d].length \in Int
    BY <1>1, <1>2, RecordFacts, SMTT(30) DEF StatsRecord
  <2> QED
    BY <1>2, <2>1, Zenon DEF StatsRecord
<1>6. ApplyMerge(Merged(span, pagemap, st, d, s, rv))
  OBVIOUS
<1> HIDE DEF s, st
<1>7. Loose(span, pagemap, system, d, s)
  BY <1>1, <1>4, LooseSpan, Zenon
<1>8. Loose(span, pagemap, system', d, s)
  BY <1>7
<1>9. /\ Layout' /\ stats' \in StatsRecord
      /\ \A x \in Descriptor : /\ span'[x].location = "IN_USE"
                                   <=> x # d /\ span[x].location = "IN_USE"
                               /\ span'[x].location = "IN_USE" => span'[x] = span[x]
  BY <1>2, <1>5, <1>6, <1>8, AppliedMerge, Zenon
<1> QED
  BY <1>1, <1>9, Zenon DEF OthersInUse

\* PageHeap::Split.
LEMMA SplitStep ==
  ASSUME Spans, Fresh, NEW d \in Descriptor, NEW n \in Page, Split(d, n)
  PROVE  LET e == NewDescriptor(span[d].start + n)
         IN  /\ Spans'
             /\ d \in InUse /\ e \in Descriptor \ LiveIn(span) /\ d # e
             /\ n < span[d].length
             /\ span'[d].start = span[d].start /\ span'[d].length = n
             /\ span'[d].location = "IN_USE"
             /\ span'[e].start = span[d].start + n
             /\ span'[e].length = span[d].length - n
             /\ span'[e].location = "IN_USE"
             /\ OthersInUse({d, e})
<1> DEFINE s == span[d]
           e == NewDescriptor(span[d].start + n)
           rest == [s EXCEPT !.start = @ + n, !.length = @ - n]
           sp2 == CutSpans(span, d, e, n, "IN_USE")
           pm2 == CutMap(pagemap, s, d, e, n)
<1> USE DEF Spans
<1>1. /\ d \in LiveIn(span) /\ s.location = "IN_USE" /\ d \in InUse /\ s.sizeclass = 0
      /\ n < s.length
  <2>1. "IN_USE" # "DELETED"
    OBVIOUS
  <2> QED
    BY <2>1, Zenon DEF Split, InUse, LiveIn
<1>2. /\ Known(span, pagemap, system) /\ Eager(aggressive, span, {})
      /\ \A x \in LiveIn(span) : Proper(span, pagemap, x)
  BY SpanFacts, Zenon DEF Layout
<1>3. /\ s \in SpanRecord /\ s.start \in Page /\ s.length \in Page /\ LastPage(s) \in Page
      /\ LastPage(s) = s.start + s.length - 1 /\ NPages \in Nat /\ n \in Int /\ 0 < n
  BY <1>1, <1>2, PageHeapAssumption, SMTT(30) DEF Proper, Page
<1>4. s.start + n \in Page /\ In(s.start + n, s) /\ s.start # s.start + n
  BY <1>1, <1>3, SMTT(30) DEF Page, In
<1>5. \A x \in LiveIn(span) : span[x].start # s.start + n
  <2> TAKE x \in LiveIn(span)
  <2>1. span[x].start \in Page /\ In(span[x].start, span[x])
    BY <1>2, Zenon DEF Proper
  <2>2. x # d => ~ In(span[x].start, s)
    BY <1>1, <1>2, <2>1, Zenon DEF Known
  <2> QED
    BY <1>4, <2>2, Zenon
<1>6. e \in Descriptor \ LiveIn(span) /\ d # e
  BY <1>1, <1>4, <1>5, Zenon DEF Fresh
<1> HIDE DEF e
<1>7. CutKeeps(span, pagemap, system, d, e, n, "IN_USE")
  BY <1>1, <1>2, <1>3, <1>6, CutSpan, Zenon DEF Located
<1>8. /\ Known(sp2, pm2, system) /\ LiveIn(sp2) = LiveIn(span) \cup {e}
      /\ sp2[d] = Front(s, n, "IN_USE") /\ sp2[e] = Rest(s, n)
      /\ \A x \in Descriptor \ {d, e} : sp2[x] = span[x]
  BY <1>7, Zenon DEF CutKeeps
<1>9. span' = sp2
  <2>1. [s EXCEPT !.length = n] = Front(s, n, "IN_USE")
    BY <1>1, <1>3, Zenon DEF Front, SpanRecord
  <2>2. span' = [span EXCEPT ![d] = [s EXCEPT !.length = n], ![e] = Rest(s, n)]
    BY Zenon DEF Split, e, Rest
  <2> QED
    BY <2>1, <2>2, Zenon DEF CutSpans
<1>10. pagemap' = pm2
  <2>1. rest.start = s.start + n /\ rest.length = s.length - n
    BY <1>3, Zenon DEF SpanRecord
  <2>2. LastPage(rest) = LastPage(s)
    BY <1>3, <2>1, SMTT(30) DEF LastPage, Page
  <2>3. pagemap' = [RecordSpan(pagemap, e, rest) EXCEPT ![s.start + n - 1] = d]
    BY Zenon DEF Split, e
  <2> QED
    BY <2>1, <2>2, <2>3, Zenon DEF RecordSpan, CutMap
<1>11. UNCHANGED <<stats, aggressive, scavenge_counter, release_index, system, dirty, call>>
  BY Zenon DEF Split
<1> HIDE DEF sp2, pm2
<1>12. /\ sp2[d].start = s.start /\ sp2[d].length = n /\ sp2[d].location = "IN_USE"
       /\ sp2[e].start = s.start + n /\ sp2[e].length = s.length - n
       /\ sp2[e].location = "IN_USE"
  BY <1>1, <1>3, <1>8, Zenon DEF Front, Rest, SpanRecord
<1>13. Eager(aggressive, sp2, {})
  <2> SUFFICES ASSUME NEW x \in LiveIn(sp2), NEW y \in LiveIn(sp2),
                      LastPage(sp2[x]) + 1 = sp2[y].start
               PROVE  \/ "IN_USE" \in {sp2[x].location, sp2[y].location}
                      \/ ~ aggressive /\ sp2[x].location # sp2[y].location
    BY Zenon DEF Eager
  <2>1. CASE x \in {d, e} \/ y \in {d, e}
    BY <1>12, <2>1, Zenon
  <2>2. CASE x \notin {d, e} /\ y \notin {d, e}
    <3>1. /\ x \in LiveIn(span) /\ sp2[x] = span[x]
          /\ y \in LiveIn(span) /\ sp2[y] = span[y]
      BY <1>8, <2>2, Zenon DEF LiveIn
    <3> QED
      BY <1>2, <3>1, SMT DEF Eager
  <2> QED
    BY <2>1, <2>2
<1>14. Layout'
  BY <1>8, <1>9, <1>10, <1>11, <1>13, PrimedLayout, Zenon
<1>15. Spans'
  BY <1>11, <1>14 DEF Bookkeeping
<1>16. OthersInUse({d, e})
  BY <1>8, <1>9, Zenon DEF OthersInUse
<1> QED
  BY <1>1, <1>6, <1>9, <1>12, <1>15, <1>16, Zenon DEF e

\* PageHeap::RegisterSizeClass.
LEMMA RegisterStep ==
  ASSUME Spans, NEW d \in Descriptor, RegisterSizeClass(d)
  PROVE  /\ Spans'
         /\ \A x \in Descriptor : /\ span'[x].location = span[x].location
                                  /\ span'[x].start = span[x].start
                                  /\ span'[x].length = span[x].length
<1> DEFINE s == span[d]
           t == [s EXCEPT !.sizeclass = 1]
           sp2 == [span EXCEPT ![d] = t]
           pm2 == pagemap'
<1> USE DEF Spans
<1>1. d \in LiveIn(span) /\ s.location = "IN_USE" /\ "IN_USE" # "DELETED"
  <2>1. "IN_USE" # "DELETED"
    OBVIOUS
  <2> QED
    BY <2>1, Zenon DEF RegisterSizeClass, InUse, LiveIn
<1>2. /\ Known(span, pagemap, system) /\ Eager(aggressive, span, {})
      /\ Proper(span, pagemap, d)
      /\ pagemap \in [0 .. NPages + 1 -> Descriptor \cup {0}]
      /\ span \in [Descriptor -> SpanRecord]
  <2>1. Known(span, pagemap, system) /\ Eager(aggressive, span, {})
    BY Zenon DEF Layout
  <2> QED
    BY <1>1, <2>1, SpanFacts, Zenon DEF Known
<1>3. /\ s \in SpanRecord /\ s.start \in Page /\ LastPage(s) \in Page /\ NPages \in Nat
      /\ pagemap[s.start] = d /\ pagemap[LastPage(s)] = d /\ s.length \in Page
  BY <1>2, PageHeapAssumption, Zenon DEF Proper
<1>4. /\ t \in SpanRecord /\ t.start = s.start /\ t.length = s.length
      /\ t.location = "IN_USE" /\ t.sizeclass = 1
  BY <1>1, <1>3, Zenon DEF SpanRecord
<1>5. LastPage(t) = LastPage(s)
  BY <1>4, Zenon DEF LastPage
<1>6. span' = sp2
  BY <1>2, Zenon DEF RegisterSizeClass
<1> HIDE DEF s, t
<1>7. \A p \in 0 .. NPages + 1 : pm2[p] = IF p \in s.start + 1 .. LastPage(s) - 1 THEN d
                                          ELSE pagemap[p]
  BY <1>2, Zenon DEF RegisterSizeClass, s
<1>8. pm2 \in [0 .. NPages + 1 -> Descriptor \cup {0}]
  <2>1. DOMAIN pagemap = 0 .. NPages + 1
    BY <1>2, Zenon
  <2>2. pm2 = [p \in 0 .. NPages + 1 |-> IF p \in s.start + 1 .. LastPage(s) - 1 THEN d
                                         ELSE pagemap[p]]
    BY <2>1, Zenon DEF RegisterSizeClass, s
  <2> QED
    BY <1>2, <2>2, Zenon
<1> HIDE DEF pm2
<1>9. \A p \in 0 .. NPages + 1 : pm2[p] = pagemap[p] \/ (In(p, t) /\ pm2[p] = d)
  BY <1>3, <1>4, <1>5, <1>7, SMTT(30) DEF In, Page
<1>10. \A p \in Page : In(p, t) => pm2[p] = d
  <2> TAKE p \in Page
  <2> HAVE In(p, t)
  <2>1. p \in 0 .. NPages + 1 /\ (p = s.start \/ p = LastPage(s)
                                   \/ p \in s.start + 1 .. LastPage(s) - 1)
    BY <1>3, <1>4, <1>5, SMTT(30) DEF In, Page
  <2> QED
    BY <1>3, <1>7, <2>1, Zenon
<1>11. Relabels(span, pagemap, d, t, sp2, pm2)
  BY <1>1, <1>3, <1>4, <1>8, <1>9, <1>10, Zenon DEF Relabels, s
<1>12. /\ sp2[d] = t /\ \A x \in Descriptor : x # d => sp2[x] = span[x]
  BY <1>2, Zenon
<1> HIDE DEF sp2
<1>13. Known(sp2, pm2, system) /\ LiveIn(sp2) = LiveIn(span)
  BY <1>2, <1>11, Relabel
<1>14. \A x \in Descriptor : /\ sp2[x].location = span[x].location
                             /\ sp2[x].start = span[x].start
                             /\ sp2[x].length = span[x].length
                             /\ LastPage(sp2[x]) = LastPage(span[x])
  <2> TAKE x \in Descriptor
  <2>1. CASE x = d
    BY <1>1, <1>4, <1>5, <1>12, <2>1, Zenon DEF s
  <2>2. CASE x # d
    BY <1>12, <2>2, Zenon
  <2> QED
    BY <2>1, <2>2
<1>15. Eager(aggressive, sp2, {})
  <2> SUFFICES ASSUME NEW x \in LiveIn(sp2), NEW y \in LiveIn(sp2),
                      LastPage(sp2[x]) + 1 = sp2[y].start
               PROVE  \/ "IN_USE" \in {sp2[x].location, sp2[y].location}
                      \/ ~ aggressive /\ sp2[x].location # sp2[y].location
    BY Zenon DEF Eager
  <2>1. /\ x \in LiveIn(span) /\ y \in LiveIn(span) /\ x \in Descriptor /\ y \in Descriptor
    BY <1>13, Zenon DEF LiveIn
  <2> QED
    BY <1>2, <1>14, <2>1, SMT DEF Eager
<1>16. UNCHANGED <<stats, aggressive, scavenge_counter, release_index, system, dirty, call>>
  BY Zenon DEF RegisterSizeClass
<1>17. Layout'
  BY <1>6, <1>13, <1>15, <1>16, PrimedLayout, Zenon DEF pm2
<1>18. Spans'
  BY <1>16, <1>17 DEF Bookkeeping
<1> QED
  BY <1>6, <1>14, <1>18, Zenon

\* GrowHeap with memory from the system.
Grown(p) == [start |-> p, length |-> call.ask, location |-> "NORMAL", sizeclass |-> 0]
GrownStats == [stats EXCEPT !.system = @ + call.ask, !.committed = @ + call.ask]

LEMMA GrowFacts ==
  ASSUME Spans, Fresh, call.at = "sysalloc", NEW p \in Page,
         PagesOf(Grown(p)) \subseteq Page \ system,
         NEW sys, sys = system \cup PagesOf(Grown(p))
  PROVE  /\ NewDescriptor(p) \in Descriptor \ LiveIn(span)
         /\ Loose(span, RecordSpan(pagemap, NewDescriptor(p), Grown(p)), sys,
                  NewDescriptor(p), Grown(p))
         /\ GrownStats \in StatsRecord /\ call.ask \in Nat \ {0}
         /\ call.n \in 1 .. NPages
         /\ PagesOf(Grown(p)) = {q \in Page : In(q, Grown(p))}
         /\ LastPage(Grown(p)) = p + call.ask - 1
<1> DEFINE s == Grown(p)
           d == NewDescriptor(p)
           sp0 == [span EXCEPT ![d] = s]
           pm0 == RecordSpan(pagemap, d, s)
<1> USE DEF Spans
<1>1. call.ask \in Nat \ {0} /\ call.n \in 1 .. NPages
  <2>1. Place(call) = "sysalloc" /\ call.ask \in Nat /\ call.n \in 0 .. NPages
    <3>1. call.at # "release"
      BY SMTT(30)
    <3> QED
      BY <3>1, CallFacts, Zenon
  <2>2. call.n # 0 /\ call.n <= call.ask
    BY <2>1, SMTT(30) DEF GoodCall, Searching
  <2> QED
    BY <2>1, <2>2, PageHeapAssumption, SMTT(30)
<1>2. /\ s.start = p /\ s.length = call.ask /\ s.location = "NORMAL" /\ s.sizeclass = 0
      /\ LastPage(s) = p + call.ask - 1
  BY Zenon DEF Grown, LastPage
<1>3. p \in Int /\ 0 < p /\ NPages \in Nat
  BY PageHeapAssumption, SMTT(30) DEF Page
<1>4. PagesOf(s) = p .. p + call.ask - 1
  BY <1>2, Zenon DEF PagesOf
<1>5. p \in PagesOf(s) /\ p + call.ask - 1 \in PagesOf(s)
  BY <1>1, <1>3, <1>4, SMTT(30)
<1>6. p + call.ask - 1 \in Page
  BY <1>5, Zenon
<1>7. s \in SpanRecord
  <2>1. p \in 0 .. NPages /\ call.ask \in 0 .. NPages /\ 0 \in {0, 1}
        /\ "NORMAL" \in Located \cup {"DELETED"}
    BY <1>1, <1>3, <1>6, SMTT(30) DEF Page, Located
  <2> QED
    BY <2>1, Zenon DEF Grown, SpanRecord
<1>8. PagesOf(s) = {q \in Page : In(q, s)}
  <2>1. \A q : q \in PagesOf(s) <=> q \in Page /\ In(q, s)
    BY <1>1, <1>2, <1>3, <1>4, <1>6, SMTT(30) DEF In, Page
  <2> QED
    BY <2>1, Zenon
<1>9. \A q \in Page : In(q, s) => q \notin system /\ q \in sys
  BY <1>8, Zenon
<1>10. Known(span, pagemap, system) /\ Eager(aggressive, span, {})
       /\ span \in [Descriptor -> SpanRecord]
  BY Zenon DEF Layout, Known
<1>11. sys \subseteq Page /\ system \subseteq sys
  BY <1>10, Zenon DEF Known
<1>12. d \in Descriptor \ LiveIn(span)
  <2>1. \A x \in LiveIn(span) : span[x].start # p
    <3> TAKE x \in LiveIn(span)
    <3>1. Proper(span, pagemap, x)
      BY <1>10, SpanFacts, Zenon
    <3>2. span[x].start \in system
      BY <1>10, <3>1, Zenon DEF Known, Whole, Proper
    <3> QED
      BY <1>5, <3>2, Zenon
  <2> QED
    BY <2>1, Zenon DEF Fresh
<1> HIDE DEF s, d
<1>13. s.location # "DELETED" /\ 0 < s.start /\ 0 < s.length /\ LastPage(s) <= NPages
  BY <1>1, <1>2, <1>3, <1>6, SMTT(30) DEF Page
<1>14. Known(sp0, pm0, sys) /\ LiveIn(sp0) = LiveIn(span) \cup {d}
  <2>1. Adds(span, pagemap, system, d, s, sp0, pm0, sys)
    BY <1>2, <1>7, <1>9, <1>11, <1>12, <1>13, Zenon DEF Adds
  <2> HIDE DEF sp0, pm0
  <2> QED
    BY <1>10, <2>1, AddSpan
<1> HIDE DEF sp0, pm0
<1>15. \A x \in LiveIn(sp0) \ {d} : x \in LiveIn(span) /\ sp0[x] = span[x]
  BY <1>10, <1>14, Zenon DEF LiveIn, sp0
<1>16. Eager(aggressive, sp0, {d})
  <2> SUFFICES ASSUME NEW x \in LiveIn(sp0) \ {d}, NEW y \in LiveIn(sp0) \ {d},
                      LastPage(sp0[x]) + 1 = sp0[y].start
               PROVE  \/ "IN_USE" \in {sp0[x].location, sp0[y].location}
                      \/ ~ aggressive /\ sp0[x].location # sp0[y].location
    BY Zenon DEF Eager
  <2>1. /\ x \in LiveIn(span) /\ sp0[x] = span[x]
        /\ y \in LiveIn(span) /\ sp0[y] = span[y]
    BY <1>15, Zenon
  <2> QED
    BY <1>10, <2>1, SMT DEF Eager
<1>17. Loose(span, pm0, sys, d, s)
  BY <1>2, <1>7, <1>10, <1>12, <1>14, <1>16, Zenon DEF Loose, sp0
<1>18. GrownStats \in StatsRecord
  <2>1. stats \in StatsRecord /\ stats.system + call.ask \in Nat
        /\ stats.committed + call.ask \in Int
    BY <1>1, SMTT(30) DEF Bookkeeping, StatsRecord
  <2> QED
    BY <2>1, Zenon DEF StatsRecord, GrownStats
<1> QED
  BY <1>1, <1>2, <1>8, <1>12, <1>17, <1>18, Zenon DEF s, d, pm0

-----------------------------------------------------------------------------
(* The steps of a call.                                                    *)

\* The place of a call that is not in a release.
LEMMA PlaceFacts ==
  ASSUME GoodCall(call), call.at \in Searching
  PROVE  /\ call.n \in 1 .. NPages /\ call.s \in Nat /\ call.ask \in Nat
         /\ call \in CallRecord /\ Place(call) = call.at
         /\ call.at \in {"search", "small", "large"} => call.n <= call.s \/ kMaxPages <= call.s
         /\ call.at = "small" => call.s < kMaxPages
         /\ call.at \in {"grow", "grown", "sysalloc"} => call.n <= call.ask
<1>1. call.at # "release"
  BY SMTT(30) DEF Searching
<1>2. Place(call) = call.at /\ call.n \in 0 .. NPages /\ call.s \in Nat /\ call.ask \in Nat
      /\ call \in CallRecord
  BY <1>1, CallFacts, Zenon DEF GoodCall
<1>3. call.n # 0
  BY <1>2, Zenon DEF GoodCall
<1>4. call.n \in 1 .. NPages
  BY <1>2, <1>3, PageHeapAssumption, SMTT(30)
<1> QED
  BY <1>2, <1>4, Zenon DEF GoodCall

\* EnsureLimit.
LEMMA EnsureCall ==
  ASSUME Bookkeeping, GoodCall(call), call.at \in Searching,
         NEW n \in Int, NEW ret \in {"small", "large", "grown"},
         ret \in {"small", "large"} => call.at = "search",
         ret = "grown" => call.at = "grow"
  PROVE  /\ Taken + n - HeapLimit \in Int
         /\ ret # "small" => GoodCall(StartEnsure(n, ret))
         /\ \A s \in Nat : ret = "small" /\ call.n <= s /\ s < kMaxPages
                             => GoodCall([StartEnsure(n, ret) EXCEPT !.s = s])
<1>1. Taken + n - HeapLimit \in Int
  BY PageHeapAssumption, SMTT(30) DEF Taken, Bookkeeping, StatsRecord
<1>2. /\ call \in CallRecord /\ call.n # 0
      /\ call.at = "search" => call.n <= call.s \/ kMaxPages <= call.s
      /\ call.at = "grow" => call.n <= call.ask
  BY PlaceFacts, SMTT(30)
<1>3. ret \in Searching
  BY SMTT(30) DEF Searching
<1>4. ASSUME ret # "small" PROVE GoodCall(StartEnsure(n, ret))
  <2>1. /\ ret \in {"search", "small", "large"} => call.n <= call.s \/ kMaxPages <= call.s
        /\ ret \in {"grow", "grown", "sysalloc"} => call.n <= call.ask
    BY <1>2, <1>4, SMTT(30)
  <2> QED
    BY <1>1, <1>2, <1>3, <1>4, <2>1, ReleaseCall, Zenon DEF StartEnsure
<1>5. ASSUME NEW s \in Nat, ret = "small", call.n <= s, s < kMaxPages
      PROVE  GoodCall([StartEnsure(n, ret) EXCEPT !.s = s])
  <2> DEFINE c == [StartEnsure(n, ret) EXCEPT !.s = s]
             g == Taken + n - HeapLimit
  <2>1. c = [[call EXCEPT !.at = "release", !.goal = g, !.done = 0, !.i = 0, !.ret = ret]
               EXCEPT !.s = s]
    BY Zenon DEF StartEnsure, StartRelease
  <2>2. 0 \in Nat /\ "release" \in Searching \cup {"idle", "release", "scavenged"}
        /\ ret \in Searching \cup {"idle", "scavenged"} /\ g \in Int
    BY <1>1, <1>3, SMTT(30)
  <2> HIDE DEF c, g
  <2>3. c \in CallRecord
    BY <1>2, <2>1, <2>2, Zenon DEF CallRecord
  <2>4. c.at = "release" /\ c.n = call.n /\ c.s = s /\ c.ret = "small"
    BY <1>2, <1>5, <2>1, Zenon DEF CallRecord
  <2>5. Place(c) = "small"
    BY <2>4, Zenon DEF Place
  <2>6. "small" \notin {"grow", "grown", "sysalloc"}
    OBVIOUS
  <2>7. GoodCall(c)
    BY <1>2, <1>5, <2>3, <2>4, <2>5, <2>6, Zenon DEF GoodCall
  <2> QED
    BY <2>7 DEF c
<1> QED
  BY <1>1, <1>4, <1>5, Zenon

\* The end of a search, and a refused growth.
LEMMA FailedCalls ==
  ASSUME GoodCall(call), call.at \in Searching
  PROVE  /\ GoodCall(SearchFailed)
         /\ GoodCall(GrowFailed)
<1>1. /\ call.n \in 1 .. NPages /\ call \in CallRecord /\ call.ask \in Nat
      /\ "grow" \in Searching /\ "coalesced" \in Searching /\ NPages + 1 \in Int
      /\ kMinSystemAlloc \in Nat
  BY PlaceFacts, PageHeapAssumption, SMTT(30) DEF Searching, kMinSystemAlloc
<1>2. ASSUME NEW a \in Nat, call.n <= a
      PROVE  GoodCall([call EXCEPT !.at = "grow", !.ask = a])
  <2> DEFINE c == [call EXCEPT !.at = "grow", !.ask = a]
  <2>1. c \in CallRecord /\ c.at = "grow" /\ c.n = call.n /\ c.ask = a
    BY <1>1, Zenon DEF CallRecord
  <2> HIDE DEF c
  <2>2. Place(c) = "grow" /\ c.n # 0
    BY <1>1, <2>1, SMTT(30) DEF Place
  <2>3. "grow" \notin {"search", "small", "large"}
    OBVIOUS
  <2>4. GoodCall(c)
    BY <1>2, <2>1, <2>2, <2>3, Zenon DEF GoodCall
  <2> QED
    BY <2>4 DEF c
<1>3. GoodCall(StartRelease(call, NPages + 1, "coalesced"))
  <2>1. "coalesced" \notin {"search", "small", "large"} /\ "coalesced" # "small"
        /\ "coalesced" \notin {"grow", "grown", "sysalloc"} /\ call.n # 0
    BY <1>1, SMTT(30)
  <2> QED
    BY <1>1, <2>1, ReleaseCall, Zenon
<1>4. GoodCall(SearchFailed)
  <2> DEFINE a == IF call.n > kMinSystemAlloc THEN call.n ELSE kMinSystemAlloc
  <2>1. a \in Nat /\ call.n <= a
    BY <1>1, SMTT(30)
  <2> HIDE DEF a
  <2>2. GoodCall([call EXCEPT !.at = "grow", !.ask = a])
    BY <1>2, <2>1, Zenon
  <2> QED
    BY <1>3, <2>2, IdleCall, Zenon DEF SearchFailed, a
<1>5. GoodCall(GrowFailed)
  <2>1. call.n \in Nat /\ call.n <= call.n
    BY <1>1, SMTT(30)
  <2> QED
    BY <1>2, <2>1, IdleCall, Zenon DEF GrowFailed
<1> QED
  BY <1>4, <1>5

\* A step that leaves the heap as it is.
Quiet == UNCHANGED <<heapVars, system, aggressive>>

LEMMA QuietStep ==
  ASSUME Spans, Quiet, GoodCall(call'), scavenge_counter' \in Int,
         release_index' \in 0 .. kMaxPages + 1
  PROVE  Spans'
<1>1. UNCHANGED <<span, pagemap, stats, dirty, system, aggressive>>
  BY Zenon DEF Quiet, heapVars
<1>2. Layout'
  BY <1>1 DEF Spans, Layout
<1>3. Bookkeeping'
  BY <1>1 DEF Spans, Bookkeeping
<1> QED
  BY <1>2, <1>3 DEF Spans

LEMMA ContinueStep ==
  ASSUME Spans, NEW c, GoodCall(c), Continue(c)
  PROVE  Quiet /\ Spans'
<1>1. Quiet /\ call' = c /\ UNCHANGED <<scavenge_counter, release_index>>
  BY Zenon DEF Continue, Quiet
<1>2. scavenge_counter' \in Int /\ release_index' \in 0 .. kMaxPages + 1
  BY <1>1, Zenon DEF Spans, Bookkeeping
<1> QED
  BY <1>1, <1>2, QuietStep, Zenon

\* The spans on the lists.
LEMMA ListFacts ==
  ASSUME NEW loc \in {"NORMAL", "RETURNED"}, NEW i, NEW d \in List(loc, i)
  PROVE  /\ d \in Descriptor /\ span[d].location = loc
         /\ span[d].location \in {"NORMAL", "RETURNED"}
         /\ i # kMaxPages => span[d].length = i
         /\ i = kMaxPages => span[d].length >= kMaxPages
  BY Zenon DEF List, Free

\* New returns pages of a free span.
Carves(d) ==
  /\ d \in Descriptor /\ span[d].location \in {"NORMAL", "RETURNED"}
  /\ call.n \in Int /\ 0 < call.n /\ call.n <= span[d].length
  /\ call.at # "idle"
  /\ \/ span[d].location = "NORMAL"
     \/ WithinLimit(call.n)
     \/ call.at = "small" /\ Ensured
  /\ ReturnCarved(d)

LEMMA CarvesStep ==
  ASSUME Spans, Fresh, NEW d, Carves(d)
  PROVE  /\ Spans'
         /\ span'[d].start = span[d].start /\ span'[d].length = call.n
         /\ span'[d].location = "IN_USE"
         /\ OthersInUse({d})
         /\ \A p \in Page, l \in {"NORMAL", "RETURNED"} :
              FreeAt(span', l, p) <=> FreeAt(span, l, p) /\ ~ In(p, span'[d])
         /\ CarvedStats(span[d].location, call.n)
<1>1. /\ d \in Descriptor /\ span[d].location \in {"NORMAL", "RETURNED"}
      /\ call.n \in Int /\ 0 < call.n /\ call.n <= span[d].length /\ ReturnCarved(d)
  BY Zenon DEF Carves
<1>2. /\ Carve(d, call.n) /\ call' = Idle /\ dirty' = dirty \ PagesOf(span'[d])
      /\ UNCHANGED <<aggressive, scavenge_counter, release_index, system>>
  BY <1>1, Zenon DEF ReturnCarved
<1>3. /\ Layout' /\ stats' \in StatsRecord
      /\ span'[d].start = span[d].start /\ span'[d].length = call.n
      /\ span'[d].location = "IN_USE"
      /\ OthersInUse({d})
      /\ \A p \in Page, l \in {"NORMAL", "RETURNED"} :
           FreeAt(span', l, p) <=> FreeAt(span, l, p) /\ ~ In(p, span'[d])
      /\ CarvedStats(span[d].location, call.n)
  BY <1>1, <1>2, CarveStep, Zenon
<1>4. Bookkeeping'
  BY <1>2, <1>3, Zenon DEF Spans, Bookkeeping
<1>5. GoodCall(call')
  BY <1>2, IdleCall, Zenon
<1>6. Spans'
  BY <1>3, <1>4, <1>5, Zenon DEF Spans
<1> QED
  BY <1>3, <1>6

\* One turn of ReleaseAtLeastNPages that releases the span d.
ReleasesSpan(d, rv) ==
  LET s == [span[d] EXCEPT !.location = "RETURNED"]
      off == [stats EXCEPT !.committed = @ - s.length, !.free = @ - s.length]
      m == Merged(span, pagemap, off, d, s, rv)
  IN  /\ call.at = "release" /\ ~ Ensured
      /\ d \in Descriptor /\ span[d].location = "NORMAL"
      /\ rv \in ReleaseResults /\ TRUE \in ReleaseResults
      /\ ApplyMerge(m)
      /\ dirty' = dirty \ (PagesOf(s) \cup m.zeroed)
      /\ call' = [call EXCEPT !.i = (call.i + 1) % (kMaxPages + 1), !.done = @ + s.length]
      /\ UNCHANGED <<aggressive, scavenge_counter, system>>

LEMMA ReleaseOneKinds ==
  ASSUME Spans, ReleaseOne
  PROVE  \/ Quiet /\ Spans' /\ call.at = "release"
              /\ \/ call'.at = "release" /\ call'.goal = call.goal /\ call'.done = call.done
                      /\ call'.ret = call.ret /\ call'.n = call.n /\ call'.ask = call.ask
                 \/ call' = [call EXCEPT !.at = call.ret]
         \/ \E d, rv : ReleasesSpan(d, rv) /\ Spans'
<1> DEFINE idx == IF release_index > kMaxPages THEN 0 ELSE release_index
           turn == (call.i + 1) % (kMaxPages + 1)
<1>1. idx \in 0 .. kMaxPages /\ idx \in 0 .. kMaxPages + 1 /\ idx + 1 \in 0 .. kMaxPages + 1
      /\ turn \in Nat
  <2>1. call.i \in Nat /\ release_index \in 0 .. kMaxPages + 1
    BY CallFacts, Zenon DEF Spans, Bookkeeping
  <2> QED
    BY <2>1, PageHeapAssumption, SMTT(30)
<1>2. call.at = "release" /\ call \in CallRecord /\ GoodCall(call) /\ ~ Ensured
      /\ UNCHANGED <<aggressive, scavenge_counter, system>>
  BY Zenon DEF ReleaseOne, Spans, GoodCall
<1>i. scavenge_counter' \in Int
  BY <1>2, Zenon DEF Spans, Bookkeeping
<1>3. ASSUME NEW done \in Nat
      PROVE  GoodCall([call EXCEPT !.i = turn, !.done = done])
  <2> DEFINE c == [call EXCEPT !.i = turn, !.done = done]
  <2> HIDE DEF turn
  <2>1. /\ c \in CallRecord /\ c.at = call.at /\ c.ret = call.ret /\ c.n = call.n
        /\ c.s = call.s /\ c.ask = call.ask
    BY <1>1, <1>2, <1>3, Zenon DEF CallRecord
  <2> HIDE DEF c
  <2>2. Place(c) = Place(call)
    BY <2>1, Zenon DEF Place
  <2>3. GoodCall(c)
    BY <1>2, <2>1, <2>2, Zenon DEF GoodCall
  <2> QED
    BY <2>3 DEF c
<1>4. GoodCall([call EXCEPT !.i = turn])
  <2> DEFINE c == [call EXCEPT !.i = turn]
  <2> HIDE DEF turn
  <2>1. /\ c \in CallRecord /\ c.at = call.at /\ c.ret = call.ret /\ c.n = call.n
        /\ c.s = call.s /\ c.ask = call.ask
    BY <1>1, <1>2, Zenon DEF CallRecord
  <2> HIDE DEF c
  <2>2. Place(c) = Place(call)
    BY <2>1, Zenon DEF Place
  <2>3. GoodCall(c)
    BY <1>2, <2>1, <2>2, Zenon DEF GoodCall
  <2> QED
    BY <2>3 DEF c
<1>5. GoodCall([call EXCEPT !.at = call.ret])
  <2> DEFINE c == [call EXCEPT !.at = call.ret]
  <2>1. /\ c \in CallRecord /\ c.at = call.ret /\ c.n = call.n
        /\ c.s = call.s /\ c.ask = call.ask
    BY <1>2, CallFacts, Zenon DEF CallRecord
  <2>2. call.ret # "release"
    BY <1>2, CallFacts, SMTT(30) DEF Searching
  <2> HIDE DEF c
  <2>3. Place(c) = Place(call)
    BY <1>2, <2>1, <2>2, Zenon DEF Place
  <2>4. GoodCall(c)
    BY <1>2, <2>1, <2>3, Zenon DEF GoodCall
  <2> QED
    BY <2>4 DEF c
<1>6. CASE /\ release_index' = idx + 1
           /\ call' = [call EXCEPT !.i = turn]
           /\ UNCHANGED heapVars
  <2>1. Quiet /\ Spans'
    <3>1. Quiet
      BY <1>2, <1>6, Zenon DEF Quiet
    <3> QED
      BY <1>1, <1>4, <1>6, <1>i, <3>1, QuietStep, Zenon
  <2> HIDE DEF turn
  <2>2. /\ call'.at = "release" /\ call'.goal = call.goal /\ call'.done = call.done
        /\ call'.ret = call.ret /\ call'.n = call.n /\ call'.ask = call.ask
    BY <1>2, <1>6, Zenon DEF CallRecord
  <2> QED
    BY <1>2, <2>1, <2>2, Zenon
<1>7. CASE /\ release_index' = idx
           /\ call' = [call EXCEPT !.at = call.ret]
           /\ UNCHANGED heapVars
  <2>1. Quiet
    BY <1>2, <1>7, Zenon DEF Quiet
  <2>2. Spans'
    BY <1>1, <1>5, <1>7, <1>i, <2>1, QuietStep, Zenon
  <2> QED
    BY <1>2, <1>7, <2>1, <2>2, Zenon
<1>8. ASSUME NEW d \in List("NORMAL", idx), NEW rv \in ReleaseResults,
             LET s == [span[d] EXCEPT !.location = "RETURNED"]
                 off == [stats EXCEPT !.committed = @ - s.length,
                                      !.free = @ - s.length]
                 m == Merged(span, pagemap, off, d, s, rv)
             IN  /\ TRUE \in ReleaseResults
                 /\ ApplyMerge(m)
                 /\ dirty' = dirty \ (PagesOf(s) \cup m.zeroed)
                 /\ release_index' = idx + 1
                 /\ call' = [call EXCEPT !.i = turn, !.done = @ + s.length]
      PROVE  ReleasesSpan(d, rv) /\ Spans'
  <2>1. d \in Descriptor /\ span[d].location = "NORMAL"
    BY <1>8, ListFacts, Zenon
  <2>2. ReleasesSpan(d, rv)
    BY <1>2, <1>8, <2>1, Zenon DEF ReleasesSpan
  <2> DEFINE s == [span[d] EXCEPT !.location = "RETURNED"]
  <2>3. span[d] \in SpanRecord /\ s.length = span[d].length
    BY <2>1, Zenon DEF Spans, Layout, Known, SpanRecord
  <2>4. ApplyMerge(Merged(span, pagemap,
                          [stats EXCEPT !.committed = @ - span[d].length,
                                        !.free = @ - span[d].length], d, s, rv))
    BY <1>8, <2>3, Zenon
  <2>5. Layout' /\ stats' \in StatsRecord
    BY <1>2, <2>1, <2>4, ReleaseStep, Zenon
  <2>6. GoodCall(call')
    <3>1. call.done + s.length \in Nat
      BY <1>2, <2>3, RecordFacts, CallFacts, SMTT(30)
    <3>2. call' = [call EXCEPT !.i = turn, !.done = call.done + s.length]
      BY <1>8, Zenon
    <3> HIDE DEF s, turn
    <3> QED
      BY <1>3, <3>1, <3>2, Zenon DEF turn
  <2>7. Bookkeeping'
    <3>1. release_index' \in 0 .. kMaxPages + 1 /\ dirty' \subseteq Page
      BY <1>1, <1>8, Zenon DEF Spans, Bookkeeping
    <3> QED
      BY <1>2, <1>i, <2>5, <3>1, Zenon DEF Spans, Bookkeeping
  <2> QED
    BY <2>2, <2>5, <2>6, <2>7, Zenon DEF Spans
<1> HIDE DEF idx, turn
<1> QED
  BY <1>6, <1>7, <1>8, Zenon DEF ReleaseOne, idx, turn

\* GrowHeap: the new pages p, p+1, ... are merged into the free lists, or lost.
Grows(p, rv) ==
  LET m == Merged(span, RecordSpan(pagemap, NewDescriptor(p), Grown(p)), GrownStats,
                  NewDescriptor(p), Grown(p), rv)
  IN  /\ call.at = "sysalloc" /\ p \in Page /\ rv \in ReleaseResults
      /\ PagesOf(Grown(p)) \subseteq Page \ system
      /\ system' = system \cup PagesOf(Grown(p))
      /\ ApplyMerge(m) /\ dirty' = dirty \ m.zeroed
      /\ IncrementalScavenge(call.ask, Search(call.n, 3))
      /\ UNCHANGED <<aggressive, release_index>>

Loses(p) ==
  /\ call.at = "sysalloc" /\ p \in Page
  /\ PagesOf(Grown(p)) \subseteq Page \ system
  /\ system' = system \cup PagesOf(Grown(p))
  /\ stats' = GrownStats
  /\ call' = Idle
  /\ UNCHANGED <<span, pagemap, dirty, scavenge_counter, aggressive, release_index>>

LEMMA SystemAllocKinds ==
  ASSUME SystemAlloc
  PROVE  (\E p, rv : Grows(p, rv)) \/ (\E p : Loses(p))
<1>1. PICK p \in Page :
        /\ call.at = "sysalloc"
        /\ PagesOf(Grown(p)) \subseteq Page \ system
        /\ system' = system \cup PagesOf(Grown(p))
        /\ \/ /\ \E rv \in ReleaseResults :
                   LET m == Merged(span, RecordSpan(pagemap, NewDescriptor(p), Grown(p)),
                                   GrownStats, NewDescriptor(p), Grown(p), rv)
                   IN  ApplyMerge(m) /\ dirty' = dirty \ m.zeroed
              /\ IncrementalScavenge(call.ask, Search(call.n, 3))
           \/ /\ stats' = GrownStats
              /\ call' = Idle
              /\ UNCHANGED <<span, pagemap, dirty, scavenge_counter>>
        /\ UNCHANGED <<aggressive, release_index>>
  BY Zenon DEF SystemAlloc, Grown, GrownStats
<1> QED
  BY <1>1, Zenon DEF Grows, Loses

LEMMA GrowsStep ==
  ASSUME Spans, Fresh, NEW p, NEW rv, Grows(p, rv)
  PROVE  /\ Spans' /\ OthersInUse({})
         /\ call.n = 0 \/ call'.at # "idle"
<1> DEFINE s == Grown(p)
           d == NewDescriptor(p)
           pm0 == RecordSpan(pagemap, d, s)
<1>1. /\ call.at = "sysalloc" /\ p \in Page /\ rv \in ReleaseResults
      /\ PagesOf(s) \subseteq Page \ system
      /\ system' = system \cup PagesOf(s)
      /\ ApplyMerge(Merged(span, pm0, GrownStats, d, s, rv))
      /\ IncrementalScavenge(call.ask, Search(call.n, 3))
      /\ UNCHANGED <<aggressive, release_index>>
      /\ dirty' \subseteq dirty
  BY Zenon DEF Grows
<1>2. /\ d \in Descriptor \ LiveIn(span)
      /\ Loose(span, pm0, system', d, s)
      /\ GrownStats \in StatsRecord /\ call.ask \in Nat \ {0} /\ call.n \in 1 .. NPages
  BY <1>1, GrowFacts, Zenon
<1>3. aggressive \in BOOLEAN
  BY PageHeapAssumption, SMTT(30) DEF Spans, Bookkeeping
<1> HIDE DEF s, d, pm0
<1>4. /\ Layout' /\ stats' \in StatsRecord
      /\ \A x \in Descriptor : /\ span'[x].location = "IN_USE"
                                   <=> x # d /\ span[x].location = "IN_USE"
                               /\ span'[x].location = "IN_USE" => span'[x] = span[x]
  BY <1>1, <1>2, <1>3, AppliedMerge, Zenon
<1>5. OthersInUse({})
  <2>1. span[d].location # "IN_USE"
    <3>1. span[d].location = "DELETED"
      BY <1>2, Zenon DEF LiveIn
    <3> QED
      BY <3>1, SMTT(30)
  <2> QED
    BY <1>4, <2>1, Zenon DEF OthersInUse
<1>6. scavenge_counter' \in Int /\ GoodCall(call')
  <2>1. call.ask \in Int /\ 3 \in 0 .. 3
    BY <1>2, SMTT(30)
  <2>2. GoodCall(Search(call.n, 3))
    BY <1>2, <2>1, SearchCall, Zenon
  <2> QED
    BY <1>1, <2>1, <2>2, ScavengeStep, Zenon DEF Spans, Bookkeeping
<1>7. call'.at # "idle"
  <2>1. call' = Search(call.n, 3) \/ call' = StartRelease(Search(call.n, 3), 1, "scavenged")
    BY <1>1, Zenon DEF IncrementalScavenge
  <2>2. Search(call.n, 3).at = "search" /\ StartRelease(Search(call.n, 3), 1, "scavenged").at = "release"
    BY Zenon DEF Search, StartRelease, Idle
  <2> QED
    BY <2>1, <2>2, SMTT(30)
<1>8. Bookkeeping'
  BY <1>1, <1>4, <1>6, Zenon DEF Spans, Bookkeeping
<1> QED
  BY <1>4, <1>5, <1>6, <1>7, <1>8, Zenon DEF Spans

LEMMA LosesStep ==
  ASSUME Spans, Fresh, NEW p, Loses(p)
  PROVE  Spans' /\ UNCHANGED span
<1> DEFINE s == Grown(p)
<1>1. /\ call.at = "sysalloc" /\ p \in Page
      /\ PagesOf(s) \subseteq Page \ system
      /\ system' = system \cup PagesOf(s)
      /\ stats' = GrownStats /\ call' = Idle
      /\ UNCHANGED <<span, pagemap, dirty, scavenge_counter, aggressive, release_index>>
  BY Zenon DEF Loses
<1>2. GrownStats \in StatsRecord
  BY <1>1, GrowFacts, Zenon
<1>3. Known(span, pagemap, system')
  <2>1. system \subseteq system' /\ system' \subseteq Page
    BY <1>1, Zenon DEF Spans, Layout, Known
  <2>2. Known(span, pagemap, system)
    BY Zenon DEF Spans, Layout
  <2>3. \A x \in LiveIn(span) : Whole(pagemap, system', x, span[x])
    BY <2>1, <2>2, Zenon DEF Known, Whole
  <2> QED
    BY <2>1, <2>2, <2>3, Zenon DEF Known
<1>4. Layout'
  BY <1>1, <1>3, PrimedLayout, Zenon DEF Spans, Layout
<1>5. Bookkeeping' /\ GoodCall(call')
  BY <1>1, <1>2, IdleCall, Zenon DEF Spans, Bookkeeping
<1> QED
  BY <1>1, <1>4, <1>5, Zenon DEF Spans

-----------------------------------------------------------------------------
(* Every step is of one of a few kinds.                                    *)

\* How a call moves on in a quiet step, as far as the heap limit goes.
QuietMove ==
  \/ Place(call') \notin {"small", "large", "grown", "sysalloc"}
  \/ /\ Place(call') \in {"small", "large"} /\ call'.n = call.n
     /\ call'.goal = Taken + call.n - HeapLimit /\ call'.done = 0
  \/ /\ Place(call') = "grown" /\ call'.ask = call.ask
     /\ call'.goal = Taken + call.ask - HeapLimit /\ call'.done = 0
  \/ /\ Place(call') = Place(call) /\ call'.n = call.n /\ call'.ask = call.ask
     /\ call'.goal = call.goal /\ call'.done = call.done
  \/ /\ Place(call') = "sysalloc" /\ call'.ask = call.ask
     /\ WithinLimit(call.ask) \/ (call.at = "grown" /\ Ensured)

StepKind ==
  \/ Quiet /\ Spans' /\ QuietMove
  \/ \E d : Carves(d)
  \/ \E d, rv : ReleasesSpan(d, rv) /\ Spans'
  \/ \E p, rv : Grows(p, rv)
  \/ \E p : Loses(p)

LEMMA IdlePlace == Place(Idle) \notin {"small", "large", "grown", "sysalloc"}
  BY SMTT(30) DEF Place, Idle

LEMMA SearchPlace ==
  ASSUME NEW n, NEW r
  PROVE  Place(Search(n, r)) \notin {"small", "large", "grown", "sysalloc"}
<1>1. Search(n, r).at = "search"
  BY Zenon DEF Search, Idle
<1> QED
  BY <1>1, SMTT(30) DEF Place

LEMMA ReleasePlace ==
  ASSUME NEW c \in CallRecord, NEW n, NEW ret
  PROVE  /\ Place(StartRelease(c, n, ret)) = ret
         /\ StartRelease(c, n, ret).goal = n
         /\ StartRelease(c, n, ret).done = 0
         /\ StartRelease(c, n, ret).n = c.n
         /\ StartRelease(c, n, ret).ask = c.ask
<1> DEFINE r == StartRelease(c, n, ret)
<1>1. /\ r.at = "release" /\ r.ret = ret /\ r.goal = n /\ r.done = 0 /\ r.n = c.n
      /\ r.ask = c.ask
  BY Zenon DEF CallRecord, StartRelease
<1> QED
  BY <1>1, Zenon DEF Place

LEMMA FailedPlaces ==
  ASSUME GoodCall(call)
  PROVE  /\ Place(SearchFailed) \notin {"small", "large", "grown", "sysalloc"}
         /\ Place(GrowFailed) \notin {"small", "large", "grown", "sysalloc"}
<1>1. ASSUME NEW a
      PROVE  Place([call EXCEPT !.at = "grow", !.ask = a])
               \notin {"small", "large", "grown", "sysalloc"}
  <2>1. [call EXCEPT !.at = "grow", !.ask = a].at = "grow"
    BY Zenon DEF GoodCall, CallRecord
  <2> QED
    BY <2>1, SMTT(30) DEF Place
<1>2. Place(StartRelease(call, NPages + 1, "coalesced"))
        \notin {"small", "large", "grown", "sysalloc"}
  <2> DEFINE r == StartRelease(call, NPages + 1, "coalesced")
  <2>0. call \in CallRecord
    BY Zenon DEF GoodCall
  <2>1. Place(r) = "coalesced"
    <3>1. r.at = "release" /\ r.ret = "coalesced"
      BY <2>0, Zenon DEF CallRecord, StartRelease
    <3> QED
      BY <3>1, Zenon DEF Place
  <2> QED
    BY <2>1, SMTT(30)
<1> QED
  BY <1>1, <1>2, IdlePlace, Zenon DEF SearchFailed, GrowFailed

\* SearchFreeAndLargeLists among the small lists.
LEMMA SearchSmallKinds ==
  ASSUME Spans, SearchSmall
  PROVE  StepKind
<1>1. PICK s \in call.s .. kMaxPages - 1 :
        /\ call.at = "search"
        /\ \/ \E d \in List("NORMAL", s) : ReturnCarved(d)
           \/ /\ WithinLimit(call.n)
              /\ \E d \in List("RETURNED", s) : ReturnCarved(d)
           \/ /\ ~ WithinLimit(call.n)
              /\ Continue([StartEnsure(call.n, "small") EXCEPT !.s = s])
  BY Zenon DEF SearchSmall, ComesTo
<1>2. /\ call.at \in Searching /\ GoodCall(call) /\ Bookkeeping
      /\ call.at \in {"search", "small", "large"}
      /\ call.at # "idle"
  BY <1>1, SMTT(30) DEF Spans, Searching
<1>3. /\ call.n \in 1 .. NPages /\ call.s \in Nat /\ call \in CallRecord
      /\ call.n <= call.s \/ kMaxPages <= call.s
  BY <1>2, PlaceFacts, Zenon
<1>4. /\ s \in Nat /\ call.n <= s /\ s < kMaxPages /\ s # kMaxPages
      /\ call.n \in Int /\ 0 < call.n
  BY <1>3, PageHeapAssumption, SMTT(30)
<1>5. ASSUME NEW loc \in {"NORMAL", "RETURNED"}, NEW d \in List(loc, s), ReturnCarved(d),
             loc = "NORMAL" \/ WithinLimit(call.n)
      PROVE  Carves(d)
  <2>1. d \in Descriptor /\ span[d].location = loc /\ span[d].length = s
        /\ span[d].location \in {"NORMAL", "RETURNED"}
    BY <1>4, <1>5, ListFacts, Zenon
  <2> QED
    BY <1>2, <1>4, <1>5, <2>1, Zenon DEF Carves
<1>6. CASE ~ WithinLimit(call.n) /\ Continue([StartEnsure(call.n, "small") EXCEPT !.s = s])
  <2> DEFINE r == StartEnsure(call.n, "small")
             c == [r EXCEPT !.s = s]
  <2>1. GoodCall(c)
    <3>1. /\ "small" \in {"small", "large", "grown"} /\ "small" # "grown"
      OBVIOUS
    <3> QED
      BY <1>1, <1>2, <1>4, <3>1, EnsureCall, Zenon
  <2>2. /\ r.at = "release" /\ r.ret = "small" /\ r.n = call.n /\ r.done = 0
        /\ r.goal = Taken + call.n - HeapLimit
    BY <1>3, Zenon DEF CallRecord, StartEnsure, StartRelease
  <2>3. /\ c.at = "release" /\ c.ret = "small" /\ c.n = call.n /\ c.done = 0
        /\ c.goal = Taken + call.n - HeapLimit
    BY <1>3, <2>2, Zenon DEF CallRecord, StartEnsure, StartRelease
  <2> HIDE DEF c
  <2>4. Place(c) = "small"
    BY <2>3, Zenon DEF Place
  <2>5. Quiet /\ Spans' /\ call' = c
    BY <1>6, <2>1, ContinueStep, Zenon DEF c, Continue
  <2> QED
    BY <2>3, <2>4, <2>5, Zenon DEF StepKind, QuietMove
<1> QED
  BY <1>1, <1>5, <1>6, Zenon DEF StepKind

LEMMA SearchSmallEnsuredKinds ==
  ASSUME Spans, SearchSmallEnsured
  PROVE  StepKind
<1>1. /\ call.at = "small"
      /\ \/ Ensured /\ \E d \in List("RETURNED", call.s) : ReturnCarved(d)
         \/ Continue([call EXCEPT !.at = "search", !.s = @ + 1])
  BY Zenon DEF SearchSmallEnsured
<1>2. /\ call.at \in Searching /\ GoodCall(call)
      /\ call.at \in {"search", "small", "large"} /\ call.at # "idle"
  BY <1>1, SMTT(30) DEF Spans, Searching
<1>3. /\ call.n \in 1 .. NPages /\ call.s \in Nat /\ call \in CallRecord
      /\ call.n <= call.s \/ kMaxPages <= call.s
      /\ call.s < kMaxPages
  BY <1>1, <1>2, PlaceFacts, Zenon
<1>4. /\ call.n <= call.s /\ call.s # kMaxPages /\ call.n \in Int /\ 0 < call.n
      /\ call.s + 1 \in Nat /\ call.n <= call.s + 1
  BY <1>3, PageHeapAssumption, SMTT(30)
<1>5. ASSUME NEW d \in List("RETURNED", call.s), Ensured, ReturnCarved(d)
      PROVE  Carves(d)
  <2>1. d \in Descriptor /\ span[d].length = call.s
        /\ span[d].location \in {"NORMAL", "RETURNED"}
    BY <1>4, <1>5, ListFacts, Zenon
  <2> QED
    BY <1>1, <1>2, <1>4, <1>5, <2>1, Zenon DEF Carves
<1>6. CASE Continue([call EXCEPT !.at = "search", !.s = @ + 1])
  <2> DEFINE c == [call EXCEPT !.at = "search", !.s = @ + 1]
  <2>1. c.at = "search" /\ c.n = call.n /\ c.s = call.s + 1
    BY <1>3, Zenon DEF CallRecord
  <2>2. c \in CallRecord
    <3>1. "search" \in Searching
      BY Zenon DEF Searching
    <3> QED
      BY <1>3, <1>4, <3>1, Zenon DEF CallRecord
  <2> HIDE DEF c
  <2>3. Place(c) = "search" /\ c.n # 0
    BY <1>4, <2>1, SMTT(30) DEF Place
  <2>4. "search" \notin {"grow", "grown", "sysalloc"} /\ "search" # "small"
        /\ "search" \notin {"small", "large", "grown", "sysalloc"}
    OBVIOUS
  <2>5. GoodCall(c)
    BY <1>4, <2>1, <2>2, <2>3, <2>4, Zenon DEF GoodCall
  <2>6. Quiet /\ Spans' /\ call' = c
    BY <1>6, <2>5, ContinueStep, Zenon DEF c, Continue
  <2> QED
    BY <2>3, <2>4, <2>6, Zenon DEF StepKind, QuietMove
<1> QED
  BY <1>1, <1>5, <1>6, Zenon DEF StepKind

\* A call that goes on, and not where the heap limit matters.
LEMMA ContinueKind ==
  ASSUME Spans, NEW c, GoodCall(c), Continue(c),
         Place(c) \notin {"small", "large", "grown", "sysalloc"}
  PROVE  StepKind
<1>1. Quiet /\ Spans' /\ call' = c
  BY ContinueStep, Zenon DEF Continue
<1> QED
  BY <1>1, Zenon DEF StepKind, QuietMove

\* EnsureLimit(n), on the way to ret.
LEMMA EnsureKind ==
  ASSUME Spans, NEW n, NEW ret \in {"large", "grown"}, GoodCall(StartEnsure(n, ret)),
         Continue(StartEnsure(n, ret)),
         ret = "large" => n = call.n, ret = "grown" => n = call.ask
  PROVE  StepKind
<1> DEFINE r == StartEnsure(n, ret)
<1>1. call \in CallRecord
  BY Zenon DEF Spans, GoodCall
<1>2. /\ r.at = "release" /\ r.ret = ret /\ r.n = call.n /\ r.ask = call.ask /\ r.done = 0
      /\ r.goal = Taken + n - HeapLimit
  BY <1>1, Zenon DEF CallRecord, StartEnsure, StartRelease
<1>3. Place(r) = ret
  BY <1>2, Zenon DEF Place
<1>4. Quiet /\ Spans' /\ call' = r
  BY ContinueStep, Zenon DEF Continue
<1> HIDE DEF r
<1>5. CASE ret = "large"
  BY <1>2, <1>3, <1>4, <1>5, Zenon DEF StepKind, QuietMove
<1>6. CASE ret = "grown"
  BY <1>2, <1>3, <1>4, <1>6, Zenon DEF StepKind, QuietMove
<1> QED
  BY <1>5, <1>6

\* SearchFreeAndLargeLists at the large lists.
LEMMA AllocLargeKinds ==
  ASSUME Spans, AllocLarge
  PROVE  StepKind
<1> DEFINE best == BestFit({"NORMAL", "RETURNED"}, call.n)
<1>1. /\ call.at = "search"
      /\ \/ Continue(SearchFailed)
         \/ \E d \in best : /\ span[d].location = "NORMAL" \/ WithinLimit(call.n)
                            /\ ReturnCarved(d)
         \/ Continue(StartEnsure(call.n, "large"))
  BY Zenon DEF AllocLarge, ComesTo
<1>2. /\ call.at \in Searching /\ GoodCall(call) /\ Bookkeeping
      /\ call.at # "idle" /\ "large" \in {"small", "large", "grown"}
      /\ "large" \in {"large", "grown"} /\ "large" # "grown" /\ "large" # "small"
  BY <1>1, SMTT(30) DEF Spans, Searching
<1>3. call.n \in 1 .. NPages
  BY <1>2, PlaceFacts, Zenon
<1>4. call.n \in Int /\ 0 < call.n
  BY <1>3, PageHeapAssumption, SMTT(30)
<1>5. CASE Continue(SearchFailed)
  BY <1>2, <1>5, FailedCalls, FailedPlaces, ContinueKind, Zenon
<1>6. ASSUME NEW d \in best, ReturnCarved(d),
             span[d].location = "NORMAL" \/ WithinLimit(call.n)
      PROVE  StepKind
  <2>1. /\ d \in UNION {List(l, kMaxPages) : l \in {"NORMAL", "RETURNED"}}
        /\ span[d].length >= call.n
    BY Zenon DEF BestFit
  <2>2. PICK l \in {"NORMAL", "RETURNED"} : d \in List(l, kMaxPages)
    BY <2>1, Zenon
  <2>3. d \in Descriptor /\ span[d].location \in {"NORMAL", "RETURNED"}
    BY <2>2, ListFacts, Zenon
  <2>4. span[d].length \in Int
    BY <2>3, RecordFacts, SMTT(30) DEF Spans, Layout, Known
  <2>5. call.n <= span[d].length
    BY <1>4, <2>1, <2>4, SMTT(30)
  <2>6. Carves(d)
    BY <1>2, <1>4, <1>6, <2>3, <2>5, Zenon DEF Carves
  <2> QED
    BY <2>6, Zenon DEF StepKind
<1>7. CASE Continue(StartEnsure(call.n, "large"))
  <2>1. GoodCall(StartEnsure(call.n, "large"))
    BY <1>1, <1>2, <1>4, EnsureCall, Zenon
  <2> QED
    BY <1>2, <1>7, <2>1, EnsureKind, Zenon
<1> QED
  BY <1>1, <1>5, <1>6, <1>7, Zenon

\* A call that moves on to where it asks the system or searches again.
LEMMA AllocLargeEnsuredKinds ==
  ASSUME Spans, AllocLargeEnsured
  PROVE  StepKind
<1>1. call.at = "large" /\ call.at \in Searching /\ GoodCall(call)
      /\ "search" \in Searching
      /\ "search" \notin {"grow", "grown", "sysalloc"} /\ "search" # "small"
      /\ "search" \notin {"small", "large", "grown", "sysalloc"}
      /\ call.at \in {"search", "small", "large"}
  BY SMTT(30) DEF AllocLargeEnsured, Spans, Searching
<1>2. /\ Place(call) \in Searching /\ call \in CallRecord
      /\ call.n <= call.s \/ kMaxPages <= call.s
  BY <1>1, PlaceFacts, Zenon
<1>3. GoodCall([call EXCEPT !.at = "search"])
  BY <1>1, <1>2, MovedCall, Zenon
<1>4. Place([call EXCEPT !.at = "search"]) = "search"
  <2>1. [call EXCEPT !.at = "search"].at = "search"
    BY <1>2, Zenon DEF CallRecord
  <2> QED
    BY <2>1, SMTT(30) DEF Place
<1>5. CASE Continue([call EXCEPT !.at = "search"])
  BY <1>1, <1>3, <1>4, <1>5, ContinueKind, Zenon
<1>6. CASE Continue(SearchFailed)
  BY <1>1, <1>6, FailedCalls, FailedPlaces, ContinueKind, Zenon
<1> QED
  BY <1>5, <1>6, Zenon DEF AllocLargeEnsured

\* GrowHeap goes to the system.
LEMMA AskSystem ==
  ASSUME Spans, call.at \in {"grow", "grown"},
         WithinLimit(call.ask) \/ (call.at = "grown" /\ Ensured),
         Continue([call EXCEPT !.at = "sysalloc"])
  PROVE  StepKind
<1> DEFINE c == [call EXCEPT !.at = "sysalloc"]
<1>1. call.at \in Searching /\ GoodCall(call) /\ "sysalloc" \in Searching
      /\ "sysalloc" \notin {"search", "small", "large"} /\ "sysalloc" # "small"
      /\ call.at \in {"grow", "grown", "sysalloc"}
  BY SMTT(30) DEF Spans, Searching
<1>2. Place(call) \in Searching /\ call \in CallRecord /\ call.n <= call.ask
  BY <1>1, PlaceFacts, Zenon
<1>3. GoodCall(c)
  BY <1>1, <1>2, MovedCall, Zenon
<1>4. c.at = "sysalloc" /\ c.ask = call.ask
  BY <1>2, Zenon DEF CallRecord
<1>5. Quiet /\ Spans' /\ call' = c
  BY <1>3, ContinueStep, Zenon DEF Continue
<1> HIDE DEF c
<1>6. Place(c) = "sysalloc"
  BY <1>4, SMTT(30) DEF Place
<1> QED
  BY <1>4, <1>5, <1>6, Zenon DEF StepKind, QuietMove

LEMMA GrowKinds ==
  ASSUME Spans, Grow
  PROVE  StepKind
<1>1. call.at = "grow" /\ call.at \in Searching /\ GoodCall(call) /\ Bookkeeping
      /\ call.at \in {"grow", "grown"} /\ "grown" \in {"small", "large", "grown"}
      /\ "grown" \in {"large", "grown"} /\ "grown" \notin {"small", "large"}
      /\ "grown" # "large" /\ "grown" # "small"
  BY SMTT(30) DEF Grow, Spans, Searching
<1>2. call.ask \in Int
  <2>1. call.ask \in Nat
    BY <1>1, PlaceFacts, Zenon
  <2> QED
    BY <2>1, SMTT(30)
<1>3. CASE WithinLimit(call.ask) /\ Continue([call EXCEPT !.at = "sysalloc"])
  BY <1>1, <1>3, AskSystem, Zenon
<1>4. CASE Continue(StartEnsure(call.ask, "grown"))
  <2>1. GoodCall(StartEnsure(call.ask, "grown"))
    BY <1>1, <1>2, EnsureCall, Zenon
  <2> QED
    BY <1>1, <1>4, <2>1, EnsureKind, Zenon
<1> QED
  BY <1>3, <1>4, Zenon DEF Grow

LEMMA GrowEnsuredKinds ==
  ASSUME Spans, GrowEnsured
  PROVE  StepKind
<1>1. call.at = "grown" /\ call.at \in Searching /\ GoodCall(call)
      /\ call.at \in {"grow", "grown"}
  BY SMTT(30) DEF GrowEnsured, Spans, Searching
<1>3. CASE Ensured /\ Continue([call EXCEPT !.at = "sysalloc"])
  BY <1>1, <1>3, AskSystem, Zenon
<1>4. CASE Continue(GrowFailed)
  BY <1>1, <1>4, FailedCalls, FailedPlaces, ContinueKind, Zenon
<1> QED
  BY <1>3, <1>4, Zenon DEF GrowEnsured

LEMMA SearchAgainKinds ==
  ASSUME Spans, NEW c,
         c = Idle \/ \E n \in 1 .. NPages, r \in 0 .. 3 : c = Search(n, r)
  PROVE  GoodCall(c) /\ Place(c) \notin {"small", "large", "grown", "sysalloc"}
  BY IdleCall, SearchCall, IdlePlace, SearchPlace, Zenon

LEMMA CoalescedKinds ==
  ASSUME Spans, Coalesced
  PROVE  StepKind
<1>1. call.at \in Searching /\ GoodCall(call) /\ 2 \in 0 .. 3 /\ Continue(Search(call.n, 2))
  BY SMTT(30) DEF Coalesced, Spans, Searching
<1>2. call.n \in 1 .. NPages
  BY <1>1, PlaceFacts, Zenon
<1> QED
  BY <1>1, <1>2, SearchAgainKinds, ContinueKind, Zenon

LEMMA NewCallKinds ==
  ASSUME Spans, NEW n \in Requests, NewCall(n)
  PROVE  StepKind
<1>1. n \in 1 .. NPages /\ 1 \in 0 .. 3
  BY PageHeapAssumption, SMTT(30)
<1>2. Continue(Search(n, 1))
  BY Zenon DEF NewCall
<1> QED
  BY <1>1, <1>2, SearchAgainKinds, ContinueKind, Zenon

LEMMA SystemAllocFailsKinds ==
  ASSUME Spans, SystemAllocFails
  PROVE  StepKind
<1>1. call.at \in Searching /\ GoodCall(call) /\ Continue(GrowFailed)
  BY SMTT(30) DEF SystemAllocFails, Spans, Searching
<1> QED
  BY <1>1, FailedCalls, FailedPlaces, ContinueKind, Zenon

LEMMA ReleasePagesKinds ==
  ASSUME Spans, NEW n \in Releases, ReleasePages(n)
  PROVE  StepKind
<1> DEFINE r == StartRelease(Idle, n, "idle")
<1>1. n \in Int /\ Idle \in CallRecord /\ "idle" \notin Searching
      /\ "idle" \notin {"search", "small", "large"} /\ "idle" # "small"
      /\ "idle" \notin {"grow", "grown", "sysalloc"}
      /\ "idle" \notin {"small", "large", "grown", "sysalloc"}
  BY PageHeapAssumption, IdleCall, SMTT(30) DEF Searching, GoodCall
<1>2. GoodCall(r)
  BY <1>1, ReleaseCall, Zenon
<1>3. Place(r) = "idle"
  <2>1. r.at = "release" /\ r.ret = "idle"
    BY <1>1, Zenon DEF CallRecord, StartRelease
  <2> QED
    BY <2>1, Zenon DEF Place
<1>4. Continue(r)
  BY Zenon DEF ReleasePages
<1> QED
  BY <1>1, <1>2, <1>3, <1>4, ContinueKind, Zenon

\* ReleaseAtLeastNPages returns.
LEMMA ReturnedCall ==
  ASSUME GoodCall(call), call.at = "release"
  PROVE  /\ GoodCall([call EXCEPT !.at = call.ret])
         /\ Place([call EXCEPT !.at = call.ret]) = Place(call)
         /\ [call EXCEPT !.at = call.ret].n = call.n
         /\ [call EXCEPT !.at = call.ret].ask = call.ask
         /\ [call EXCEPT !.at = call.ret].goal = call.goal
         /\ [call EXCEPT !.at = call.ret].done = call.done
<1> DEFINE c == [call EXCEPT !.at = call.ret]
<1>1. /\ c \in CallRecord
      /\ c.at = call.ret /\ c.n = call.n /\ c.s = call.s /\ c.ask = call.ask
      /\ c.goal = call.goal /\ c.done = call.done
  <2>1. call \in CallRecord /\ call.ret \in Searching \cup {"idle", "release", "scavenged"}
    BY CallFacts, Zenon DEF GoodCall
  <2> QED
    BY <2>1, Zenon DEF CallRecord
<1>2. Place(c) = Place(call)
  <2>1. call.ret # "release"
    BY CallFacts, SMTT(30) DEF Searching
  <2> HIDE DEF c
  <2> QED
    BY <1>1, <2>1, Zenon DEF Place
<1>3. GoodCall(c)
  <2> HIDE DEF c
  <2> QED
    BY <1>1, <1>2, Zenon DEF GoodCall
<1> QED
  BY <1>1, <1>2, <1>3, Zenon

LEMMA ReleaseDoneKinds ==
  ASSUME Spans, ReleaseDone
  PROVE  StepKind
<1> DEFINE c == [call EXCEPT !.at = call.ret]
<1>1. call.at = "release" /\ GoodCall(call) /\ Continue(c)
  BY Zenon DEF ReleaseDone, Spans
<1>2. /\ GoodCall(c) /\ Place(c) = Place(call) /\ c.n = call.n /\ c.ask = call.ask
      /\ c.goal = call.goal /\ c.done = call.done
  BY <1>1, ReturnedCall, Zenon
<1> HIDE DEF c
<1>3. Quiet /\ Spans' /\ call' = c
  BY <1>1, <1>2, ContinueStep, Zenon DEF Continue
<1> QED
  BY <1>2, <1>3, Zenon DEF StepKind, QuietMove

LEMMA ReleaseOneStepKinds ==
  ASSUME Spans, ReleaseOne
  PROVE  StepKind
<1>1. CASE /\ Quiet /\ Spans' /\ call.at = "release"
           /\ call'.at = "release" /\ call'.goal = call.goal /\ call'.done = call.done
           /\ call'.ret = call.ret /\ call'.n = call.n /\ call'.ask = call.ask
  <2>1. Place(call') = Place(call)
    BY <1>1, Zenon DEF Place
  <2> QED
    BY <1>1, <2>1, Zenon DEF StepKind, QuietMove
<1>2. CASE Quiet /\ Spans' /\ call.at = "release" /\ call' = [call EXCEPT !.at = call.ret]
  <2> DEFINE c == [call EXCEPT !.at = call.ret]
  <2>0. GoodCall(call)
    BY Zenon DEF Spans
  <2>1. /\ Place(c) = Place(call) /\ c.n = call.n /\ c.ask = call.ask
        /\ c.goal = call.goal /\ c.done = call.done
    BY <1>2, <2>0, ReturnedCall, Zenon
  <2> HIDE DEF c
  <2> QED
    BY <1>2, <2>1, Zenon DEF StepKind, QuietMove, c
<1>3. CASE \E d, rv : ReleasesSpan(d, rv) /\ Spans'
  BY <1>3, Zenon DEF StepKind
<1> QED
  BY <1>1, <1>2, <1>3, ReleaseOneKinds, Zenon

LEMMA ScavengedKinds ==
  ASSUME Spans, Scavenged
  PROVE  StepKind
<1>1. /\ call.at = "scavenged" /\ GoodCall(call)
      /\ call' = IF call.n = 0 THEN Idle ELSE Search(call.n, 3)
      /\ UNCHANGED <<heapVars, aggressive, release_index, system>>
      /\ \/ scavenge_counter' = kDefaultReleaseDelay
         \/ scavenge_counter' = kMaxReleaseDelay
         \/ scavenge_counter' = ReleaseWait * call.done
  BY Zenon DEF Scavenged, Spans
<1>2. call.n \in 0 .. NPages /\ call.done \in Nat
  BY <1>1, CallFacts, Zenon
<1>3. /\ call.n # 0 => call.n \in 1 .. NPages
      /\ 3 \in 0 .. 3 /\ ReleaseWait * call.done \in Int
      /\ kDefaultReleaseDelay \in Int /\ kMaxReleaseDelay \in Int
  BY <1>2, PageHeapAssumption, SMTT(30)
<1>4. GoodCall(call') /\ Place(call') \notin {"small", "large", "grown", "sysalloc"}
  BY <1>1, <1>3, SearchAgainKinds, Zenon
<1>5. scavenge_counter' \in Int /\ release_index' \in 0 .. kMaxPages + 1 /\ Quiet
  BY <1>1, <1>3, Zenon DEF Quiet, Spans, Bookkeeping
<1>6. Spans'
  BY <1>4, <1>5, QuietStep, Zenon
<1> QED
  BY <1>4, <1>5, <1>6, Zenon DEF StepKind, QuietMove

\* Each step of a call is of one of the kinds, and so are New and
\* ReleaseAtLeastNPages.
LEMMA StepKinds ==
  ASSUME Spans, \/ Step
                \/ \E n \in Requests : NewCall(n)
                \/ \E n \in Releases : ReleasePages(n)
  PROVE  StepKind
<1>1. CASE SystemAlloc
  BY <1>1, SystemAllocKinds, Zenon DEF StepKind
<1>2. CASE Step
  BY <1>1, <1>2, SearchSmallKinds, SearchSmallEnsuredKinds, AllocLargeKinds,
     AllocLargeEnsuredKinds, CoalescedKinds, GrowKinds, GrowEnsuredKinds, ScavengedKinds,
     SystemAllocFailsKinds, ReleaseDoneKinds, ReleaseOneStepKinds, Zenon DEF Step
<1> QED
  BY <1>2, NewCallKinds, ReleasePagesKinds, Zenon

\* What PageHeapNext may do.
LEMMA NextKinds ==
  ASSUME Spans, PageHeapNext
  PROVE  \/ StepKind
         \/ \E d \in Descriptor : Delete(d)
         \/ \E d \in Descriptor, n \in Page : Split(d, n)
         \/ \E d \in Descriptor : RegisterSizeClass(d)
  BY StepKinds, Zenon DEF PageHeapNext

LEMMA SpansKept ==
  ASSUME Spans, Fresh, PageHeapNext
  PROVE  Spans'
<1>1. CASE StepKind
  BY <1>1, CarvesStep, GrowsStep, LosesStep, Zenon DEF StepKind
<1>2. CASE \E d \in Descriptor, n \in Page : Split(d, n)
  BY <1>2, SplitStep, Zenon
<1> QED
  BY <1>1, <1>2, NextKinds, DeleteStep, RegisterStep, Zenon

\* Two live spans begin at different pages, and one ends before the other.
LEMMA SpansApart ==
  ASSUME Layout, NEW d \in LiveIn(span), NEW e \in LiveIn(span), d # e
  PROVE  /\ span[d].start # span[e].start
         /\ LastPage(span[d]) < span[e].start \/ LastPage(span[e]) < span[d].start
<1>1. Proper(span, pagemap, d) /\ Proper(span, pagemap, e)
  BY SpanFacts, Zenon DEF Layout
<1>2. \A p \in Page : ~ (In(p, span[d]) /\ In(p, span[e]))
  BY Zenon DEF Layout, Known
<1>3. /\ span[d].start \in Page /\ span[e].start \in Page
      /\ LastPage(span[d]) \in Page /\ LastPage(span[e]) \in Page
      /\ In(span[d].start, span[d]) /\ In(span[e].start, span[e])
      /\ NPages \in Nat
  BY <1>1, PageHeapAssumption, Zenon DEF Proper
<1> QED
  BY <1>2, <1>3, SMTT(30) DEF In, Page

-----------------------------------------------------------------------------
(* The refinement of SpanAllocator.                                        *)

\* What the user of New knows of the span d.
RunOf(d) == [start |-> span[d].start, len |-> span[d].length]
Runs == {RunOf(d) : d \in InUse}

LEMMA RunsApart ==
  ASSUME Spans, NEW d \in LiveIn(span)
  PROVE  /\ RunOf(d) \in Allocator!Span
         /\ Allocator!LastPage(RunOf(d)) <= NPages
         /\ \A e \in InUse \ {d} : RunOf(e) # RunOf(d)
<1>1. \A x \in LiveIn(span) : Proper(span, pagemap, x)
  BY SpanFacts, Zenon DEF Spans, Layout
<1>2. /\ span[d].start \in Page /\ span[d].length \in Page /\ LastPage(span[d]) \in Page
      /\ LastPage(span[d]) = span[d].start + span[d].length - 1 /\ NPages \in Nat
  BY <1>1, PageHeapAssumption, Zenon DEF Proper
<1>3. RunOf(d).start = span[d].start /\ RunOf(d).len = span[d].length
  BY Zenon DEF RunOf
<1>4. RunOf(d) \in Allocator!Span
  BY <1>2, SMTT(30) DEF RunOf, Allocator!Span, Allocator!Page, Page
<1>5. Allocator!LastPage(RunOf(d)) <= NPages
  BY <1>2, <1>3, SMTT(30) DEF Allocator!LastPage, Page
<1>6. ASSUME NEW e \in InUse \ {d} PROVE RunOf(e) # RunOf(d)
  <2>1. e \in LiveIn(span)
    <3>1. "IN_USE" # "DELETED"
      OBVIOUS
    <3> QED
      BY <3>1, Zenon DEF InUse, LiveIn
  <2>2. span[d].start # span[e].start
    BY <1>6, <2>1, SpansApart, Zenon DEF Spans
  <2>3. RunOf(e).start = span[e].start
    BY Zenon DEF RunOf
  <2> QED
    BY <1>3, <2>2, <2>3, Zenon
<1> QED
  BY <1>4, <1>5, <1>6, Zenon

\* A step that leaves the spans in use alone is a stutter of the allocator.
LEMMA RunsUnchanged ==
  ASSUME OthersInUse({}) \/ \A x \in Descriptor : /\ span'[x].location = span[x].location
                                                  /\ span'[x].start = span[x].start
                                                  /\ span'[x].length = span[x].length
  PROVE  Runs' = Runs
<1>1. InUse' = InUse /\ \A d \in InUse : RunOf(d)' = RunOf(d)
  BY Zenon DEF OthersInUse, InUse, RunOf
<1> QED
  BY <1>1, Zenon DEF Runs

LEMMA ReleasesOthers ==
  ASSUME Spans, NEW d, NEW rv, ReleasesSpan(d, rv)
  PROVE  OthersInUse({})
<1> DEFINE s == [span[d] EXCEPT !.location = "RETURNED"]
<1>1. /\ d \in Descriptor /\ span[d].location = "NORMAL"
      /\ UNCHANGED <<aggressive, system>>
      /\ ApplyMerge(Merged(span, pagemap,
                           [stats EXCEPT !.committed = @ - s.length, !.free = @ - s.length],
                           d, s, rv))
  BY Zenon DEF ReleasesSpan
<1>2. span[d] \in SpanRecord
  BY <1>1, Zenon DEF Spans, Layout, Known
<1>3. s.length = span[d].length
  BY <1>2, Zenon DEF SpanRecord
<1>4. [stats EXCEPT !.committed = @ - s.length, !.free = @ - s.length]
        = [stats EXCEPT !.committed = @ - span[d].length, !.free = @ - span[d].length]
  BY <1>3
<1> QED
  BY <1>1, <1>4, ReleaseStep, Zenon

LEMMA CarveIsNew ==
  ASSUME Spans, Fresh, NEW d, Carves(d)
  PROVE  \E n \in Page : \E r \in Allocator!FreeRuns(Runs, n) : Runs' = Runs \cup {r}
<1> DEFINE r == [start |-> span[d].start, len |-> call.n]
<1>1. /\ span'[d].start = span[d].start /\ span'[d].length = call.n
      /\ span'[d].location = "IN_USE"
      /\ OthersInUse({d})
  BY CarvesStep, Zenon
<1>2. d \in Descriptor /\ call.n \in Int /\ 0 < call.n /\ call.n <= span[d].length
      /\ span[d].location \notin {"IN_USE", "DELETED"}
  BY SMTT(30) DEF Carves
<1>3. d \in LiveIn(span) /\ d \notin InUse
  BY <1>2, Zenon DEF LiveIn, InUse
<1>4. /\ span[d].start \in Page /\ span[d].length \in Page /\ LastPage(span[d]) \in Page
      /\ LastPage(span[d]) = span[d].start + span[d].length - 1 /\ NPages \in Nat
  BY <1>3, SpanFacts, PageHeapAssumption, Zenon DEF Spans, Layout, Proper
<1>5. call.n \in Page
  BY <1>2, <1>4, SMTT(30) DEF Page
<1>6. r \in Allocator!Span /\ r.start = span[d].start /\ r.len = call.n
  BY <1>4, <1>5, SMTT(30) DEF Allocator!Span, Allocator!Page, Page
<1>7. Allocator!LastPage(r) = r.start + r.len - 1
  BY DEF Allocator!LastPage
<1>8. Runs' = Runs \cup {r}
  <2>1. InUse' = InUse \cup {d}
    BY <1>1, <1>2, Zenon DEF OthersInUse, InUse
  <2>2. RunOf(d)' = r
    BY <1>1, Zenon DEF RunOf
  <2>3. \A x \in InUse : RunOf(x)' = RunOf(x)
    <3> TAKE x \in InUse
    <3>1. span'[x] = span[x]
      BY <1>1, <1>3, Zenon DEF OthersInUse, InUse
    <3> QED
      BY <3>1, Zenon DEF RunOf
  <2> HIDE DEF r
  <2>4. Runs' = {RunOf(x)' : x \in InUse'}
    BY DEF Runs
  <2> QED
    BY <2>1, <2>2, <2>3, <2>4, Zenon DEF Runs
<1> HIDE DEF r
<1>9. Allocator!LastPage(r) <= NPages /\ Allocator!LastPage(r) <= LastPage(span[d])
  BY <1>2, <1>4, <1>6, <1>7, SMTT(30) DEF Page
<1>10. ASSUME NEW t \in Runs PROVE Allocator!Apart(r, t)
  <2>1. PICK e \in InUse : t = RunOf(e)
    BY Zenon DEF Runs
  <2>2. e \in LiveIn(span) /\ e # d
    <3>1. "IN_USE" # "DELETED"
      OBVIOUS
    <3> QED
      BY <1>3, <3>1, Zenon DEF InUse, LiveIn
  <2>3. LastPage(span[d]) < span[e].start \/ LastPage(span[e]) < span[d].start
    BY <1>3, <2>2, SpansApart, Zenon DEF Spans
  <2>4. t.start = span[e].start /\ t.len = span[e].length
    BY <2>1, Zenon DEF RunOf
  <2>5. Allocator!LastPage(t) = LastPage(span[e])
    BY <2>4, Zenon DEF Allocator!LastPage, LastPage
  <2>6. span[e].start \in Page
    BY <2>2, SpanFacts, Zenon DEF Spans, Layout, Proper
  <2>7. /\ Allocator!LastPage(r) < t.start \/ Allocator!LastPage(t) < r.start
    <3>1. Allocator!LastPage(r) \in Int /\ NPages \in Nat
      BY <1>2, <1>4, <1>6, <1>7, SMTT(30) DEF Page
    <3> QED
      BY <3>1, <1>4, <1>6, <1>9, <2>3, <2>4, <2>5, <2>6, SMTT(30) DEF Page
  <2> QED
    BY <2>7, Zenon DEF Allocator!Apart
<1>11. r \in Allocator!FreeRuns(Runs, call.n)
  BY <1>6, <1>9, <1>10, Zenon DEF Allocator!FreeRuns
<1> QED
  BY <1>5, <1>8, <1>11, Zenon

LEMMA DeleteIsDelete ==
  ASSUME Spans, NEW d \in Descriptor, Delete(d)
  PROVE  \E r \in Runs : Runs' = Runs \ {r}
<1>1. d \in InUse /\ span'[d].location # "IN_USE" /\ OthersInUse({d})
  BY DeleteStep, Zenon
<1>2. d \in LiveIn(span)
  <2>1. "IN_USE" # "DELETED"
    OBVIOUS
  <2> QED
    BY <1>1, <2>1, Zenon DEF InUse, LiveIn
<1>3. \A e \in InUse \ {d} : RunOf(e) # RunOf(d)
  BY <1>2, RunsApart, Zenon
<1>4. InUse' = InUse \ {d}
  BY <1>1, Zenon DEF OthersInUse, InUse
<1>5. \A x \in InUse \ {d} : RunOf(x)' = RunOf(x)
  <2> TAKE x \in InUse \ {d}
  <2>1. span'[x] = span[x]
    BY <1>1, Zenon DEF OthersInUse, InUse
  <2> QED
    BY <2>1, Zenon DEF RunOf
<1>6. Runs' = {RunOf(x)' : x \in InUse'}
  BY DEF Runs
<1>7. Runs' = Runs \ {RunOf(d)}
  BY <1>3, <1>4, <1>5, <1>6, Zenon DEF Runs
<1>8. RunOf(d) \in Runs
  BY <1>1, Zenon DEF Runs
<1> QED
  BY <1>7, <1>8, Zenon

LEMMA SplitIsSplit ==
  ASSUME Spans, Fresh, NEW d \in Descriptor, NEW n \in Page, Split(d, n)
  PROVE  \E r \in Runs : /\ n < r.len
                         /\ Runs' = (Runs \ {r})
                              \cup {[start |-> r.start, len |-> n],
                                    [start |-> r.start + n, len |-> r.len - n]}
<1> PICK e : e = NewDescriptor(span[d].start + n)
  OBVIOUS
<1> DEFINE r == RunOf(d)
           a == [start |-> r.start, len |-> n]
           b == [start |-> r.start + n, len |-> r.len - n]
<1>1. /\ d \in InUse /\ e \in Descriptor \ LiveIn(span) /\ d # e
      /\ n < span[d].length
      /\ span'[d].start = span[d].start /\ span'[d].length = n
      /\ span'[d].location = "IN_USE"
      /\ span'[e].start = span[d].start + n
      /\ span'[e].length = span[d].length - n
      /\ span'[e].location = "IN_USE"
      /\ OthersInUse({d, e})
  BY SplitStep, Zenon
<1>2. d \in LiveIn(span) /\ e \notin InUse
  <2>1. "IN_USE" # "DELETED"
    OBVIOUS
  <2> QED
    BY <1>1, <2>1, Zenon DEF InUse, LiveIn
<1>3. \A x \in InUse \ {d} : RunOf(x) # RunOf(d)
  BY <1>2, RunsApart, Zenon
<1>4. InUse' = InUse \cup {e}
  BY <1>1, Zenon DEF OthersInUse, InUse
<1>5. \A x \in InUse \ {d} : RunOf(x)' = RunOf(x)
  <2> TAKE x \in InUse \ {d}
  <2>1. span'[x] = span[x]
    BY <1>1, <1>2, Zenon DEF OthersInUse, InUse
  <2> QED
    BY <2>1, Zenon DEF RunOf
<1>6. r.start = span[d].start /\ r.len = span[d].length
  BY Zenon DEF RunOf
<1>7. RunOf(d)' = a /\ RunOf(e)' = b
  <2>1. /\ RunOf(d)' = [start |-> span'[d].start, len |-> span'[d].length]
        /\ RunOf(e)' = [start |-> span'[e].start, len |-> span'[e].length]
    BY DEF RunOf
  <2>2. r.len - n = span[d].length - n /\ r.start + n = span[d].start + n
    BY <1>6, Zenon
  <2> HIDE DEF r
  <2> QED
    BY <1>1, <1>6, <2>1, <2>2
<1>8. Runs' = {RunOf(x)' : x \in InUse'}
  BY DEF Runs
<1> HIDE DEF a, b
<1>9. Runs' = (Runs \ {RunOf(d)}) \cup {a, b}
  <2>1. Runs' = {RunOf(x)' : x \in InUse \ {d}} \cup {a, b}
    BY <1>1, <1>4, <1>7, <1>8, Zenon
  <2>2. {RunOf(x)' : x \in InUse \ {d}} = {RunOf(x) : x \in InUse \ {d}}
    BY <1>5, Zenon
  <2>3. {RunOf(x) : x \in InUse \ {d}} = Runs \ {RunOf(d)}
    BY <1>1, <1>3, Zenon DEF Runs
  <2> QED
    BY <2>1, <2>2, <2>3, Zenon
<1>10. r \in Runs /\ n < r.len
  BY <1>1, <1>6, Zenon DEF Runs
<1> QED
  BY <1>9, <1>10, Zenon DEF a, b

\* A step of the page heap, seen by the allocator.
LEMMA StepRefines ==
  ASSUME Spans, Fresh, [PageHeapNext]_pageHeapVars
  PROVE  [Allocator!AllocNext]_Runs
<1>r. Runs = {[start |-> span[d].start, len |-> span[d].length] : d \in InUse}
  BY DEF Runs, RunOf
<1>0. Page = Allocator!Page
  BY DEF Page, Allocator!Page
<1>1. ASSUME NEW d, Carves(d) PROVE Allocator!AllocNext
  BY <1>0, <1>1, <1>r, CarveIsNew, Zenon DEF Allocator!AllocNext, Allocator!New, Runs, RunOf
<1>2. ASSUME NEW d \in Descriptor, Delete(d) PROVE Allocator!AllocNext
  BY <1>2, DeleteIsDelete, Zenon DEF Allocator!AllocNext, Allocator!Delete, Runs, RunOf
<1>3. ASSUME NEW d \in Descriptor, NEW n \in Page, Split(d, n) PROVE Allocator!AllocNext
  <2>1. PICK r \in Runs :
          /\ n < r.len
          /\ Runs' = (Runs \ {r}) \cup {[start |-> r.start, len |-> n],
                                        [start |-> r.start + n, len |-> r.len - n]}
    BY <1>3, SplitIsSplit, Zenon
  <2>2. Allocator!Split(r, n)
    BY <2>1 DEF Allocator!Split, Runs, RunOf
  <2>3. r \in {[start |-> span[x].start, len |-> span[x].length] : x \in InUse}
    BY <1>r, Zenon
  <2> QED
    BY <1>0, <2>2, <2>3, Zenon DEF Allocator!AllocNext
<1>4. CASE StepKind
  <2>1. ASSUME Quiet \/ \E p : Loses(p) PROVE Runs' = Runs
    <3>1. UNCHANGED span
      BY <2>1, Zenon DEF Quiet, heapVars, Loses
    <3> QED
      BY <3>1 DEF Runs, RunOf, InUse
  <2>2. ASSUME NEW d, NEW rv, ReleasesSpan(d, rv) PROVE Runs' = Runs
    BY <2>2, ReleasesOthers, RunsUnchanged, Zenon
  <2>3. ASSUME NEW p, NEW rv, Grows(p, rv) PROVE Runs' = Runs
    BY <2>3, GrowsStep, RunsUnchanged, Zenon
  <2> QED
    BY <1>1, <1>4, <2>1, <2>2, <2>3, Zenon DEF StepKind
<1>5. CASE \E d \in Descriptor : RegisterSizeClass(d)
  <2>1. Runs' = Runs
    BY <1>5, RegisterStep, RunsUnchanged, Zenon
  <2> QED
    BY <2>1
<1>6. CASE UNCHANGED pageHeapVars
  <2>1. Runs' = Runs
    BY <1>6 DEF pageHeapVars, Runs, RunOf, InUse
  <2> QED
    BY <2>1
<1> QED
  BY <1>2, <1>3, <1>4, <1>5, <1>6, NextKinds, Zenon

-----------------------------------------------------------------------------
(* The steps that merge the span d, with content s, into the free lists,   *)
(* given the statistics st and the page map pm.                            *)

Merges(d, s, st, pm, rv) ==
  /\ Loose(span, pm, system', d, s)
  /\ st \in StatsRecord
  /\ aggressive' = aggressive
  /\ ApplyMerge(Merged(span, pm, st, d, s, rv))
  /\ d \in LiveIn(span) => span[d].start = s.start /\ span[d].length = s.length
  /\ span[d].location # "RETURNED"

Freed(d) == [span[d] EXCEPT !.location = "NORMAL", !.sizeclass = 0]
Released(d) == [span[d] EXCEPT !.location = "RETURNED"]
ReleasedStats(d) ==
  [stats EXCEPT !.committed = @ - Released(d).length, !.free = @ - Released(d).length]

LEMMA DeleteMerges ==
  ASSUME Spans, NEW d \in Descriptor, Delete(d)
  PROVE  \E rv \in ReleaseResults :
           /\ Merges(d, Freed(d), stats, pagemap, rv)
           /\ Freed(d).location = "NORMAL"
           /\ span[d].location = "IN_USE"
           /\ dirty' = (dirty \cup PagesOf(Freed(d)))
                         \ Merged(span, pagemap, stats, d, Freed(d), rv).zeroed
           /\ system' = system
           /\ call.at = "idle"
           /\ Place(call') \notin {"small", "large", "grown", "sysalloc"}
<1> DEFINE freed == Freed(d)
<1>1. d \in LiveIn(span) /\ span[d].location = "IN_USE" /\ span[d].location # "RETURNED"
  <2>1. "IN_USE" # "DELETED" /\ "IN_USE" # "RETURNED"
    OBVIOUS
  <2> QED
    BY <2>1, Zenon DEF Delete, InUse, LiveIn
<1>2. /\ span[d] \in SpanRecord /\ stats \in StatsRecord
      /\ 0 \in {0, 1} /\ "NORMAL" \in Located \cup {"DELETED"}
  BY SMTT(30) DEF Spans, Layout, Known, Bookkeeping, Located
<1>3. /\ freed \in SpanRecord /\ freed.location = "NORMAL" /\ freed.sizeclass = 0
      /\ freed.start = span[d].start /\ freed.length = span[d].length
  BY <1>2, Zenon DEF SpanRecord, Freed
<1>4. /\ UNCHANGED <<aggressive, release_index, system>>
      /\ IncrementalScavenge(Freed(d).length, Idle) /\ call.at = "idle"
  BY Zenon DEF Delete, Freed
<1>5. PICK rv \in ReleaseResults :
        LET m == Merged(span, pagemap, stats, d, freed, rv)
        IN  ApplyMerge(m) /\ dirty' = (dirty \cup PagesOf(freed)) \ m.zeroed
  BY Zenon DEF Delete, Freed
<1> HIDE DEF freed
<1>6. Loose(span, pagemap, system, d, freed)
  BY <1>1, <1>3, LooseSpan, Zenon DEF Spans
<1>7. Loose(span, pagemap, system', d, freed)
  BY <1>4, <1>6
<1>8. Place(call') \notin {"small", "large", "grown", "sysalloc"}
  <2>1. call' = Idle \/ call' = StartRelease(Idle, 1, "scavenged")
    BY <1>4, Zenon DEF IncrementalScavenge
  <2>2. Place(StartRelease(Idle, 1, "scavenged")) = "scavenged"
    <3>1. StartRelease(Idle, 1, "scavenged").at = "release"
          /\ StartRelease(Idle, 1, "scavenged").ret = "scavenged"
      BY Zenon DEF StartRelease, Idle
    <3> QED
      BY <3>1, Zenon DEF Place
  <2>3. "scavenged" \notin {"small", "large", "grown", "sysalloc"}
    OBVIOUS
  <2> QED
    BY <2>1, <2>2, <2>3, IdlePlace, Zenon
<1>9. Merges(d, freed, stats, pagemap, rv)
  BY <1>1, <1>2, <1>3, <1>4, <1>5, <1>7, Zenon DEF Merges
<1> QED
  BY <1>1, <1>3, <1>4, <1>5, <1>8, <1>9, Zenon DEF freed

LEMMA ReleaseMerges ==
  ASSUME Spans, NEW d, NEW rv, ReleasesSpan(d, rv)
  PROVE  /\ Merges(d, Released(d), ReleasedStats(d), pagemap, rv)
         /\ Released(d).location = "RETURNED" /\ Released(d).length = span[d].length
         /\ Released(d).length \in Nat /\ d \in Descriptor
         /\ ReleasedStats(d).system = stats.system
         /\ ReleasedStats(d).unmapped = stats.unmapped
         /\ ReleasedStats(d).committed = stats.committed - Released(d).length
         /\ ReleasedStats(d).free = stats.free - Released(d).length
         /\ span[d].location = "NORMAL"
         /\ system' = system
         /\ Place(call') = Place(call) /\ call'.n = call.n /\ call'.ask = call.ask
         /\ call'.goal = call.goal /\ call'.done = call.done + Released(d).length
<1> DEFINE s == Released(d)
           st == ReleasedStats(d)
<1>1. /\ d \in Descriptor /\ span[d].location = "NORMAL" /\ call.at = "release"
      /\ ApplyMerge(Merged(span, pagemap, st, d, s, rv))
      /\ call' = [call EXCEPT !.i = (call.i + 1) % (kMaxPages + 1), !.done = @ + s.length]
      /\ UNCHANGED <<aggressive, scavenge_counter, system>>
  BY Zenon DEF ReleasesSpan, Released, ReleasedStats
<1>2. d \in LiveIn(span) /\ span[d] \in SpanRecord /\ span[d].location # "IN_USE"
      /\ span[d].location # "RETURNED" /\ "RETURNED" \in Located \cup {"DELETED"}
      /\ stats \in StatsRecord
  BY <1>1, SMTT(30) DEF LiveIn, Spans, Layout, Known, Bookkeeping, Located
<1>3. span[d].sizeclass = 0
  BY <1>2, Zenon DEF Spans, Layout, Known, Whole
<1>4. /\ s \in SpanRecord /\ s.location = "RETURNED" /\ s.sizeclass = 0
      /\ s.start = span[d].start /\ s.length = span[d].length
  BY <1>2, <1>3, Zenon DEF SpanRecord, Released
<1>5. stats.committed - s.length \in Int /\ stats.free - s.length \in Int /\ s.length \in Nat
  BY <1>2, <1>4, RecordFacts, SMTT(30) DEF StatsRecord
<1>6. /\ st \in StatsRecord /\ st.system = stats.system /\ st.unmapped = stats.unmapped
      /\ st.committed = stats.committed - s.length /\ st.free = stats.free - s.length
  BY <1>2, <1>5, Zenon DEF StatsRecord, ReleasedStats
<1>7. /\ call'.at = "release" /\ call'.ret = call.ret /\ call'.n = call.n
      /\ call'.ask = call.ask /\ call'.goal = call.goal /\ call'.done = call.done + s.length
  BY <1>1, Zenon DEF Spans, GoodCall, CallRecord
<1>8. Place(call') = Place(call)
  BY <1>1, <1>7, Zenon DEF Place
<1> HIDE DEF s, st
<1>9. Loose(span, pagemap, system, d, s)
  BY <1>2, <1>4, LooseSpan, Zenon DEF Spans
<1>10. Loose(span, pagemap, system', d, s)
  BY <1>1, <1>9
<1>11. Merges(d, s, st, pagemap, rv)
  BY <1>1, <1>2, <1>4, <1>6, <1>10, Zenon DEF Merges
<1> QED
  BY <1>1, <1>4, <1>5, <1>6, <1>7, <1>8, <1>11, Zenon DEF s, st

LEMMA GrowMerges ==
  ASSUME Spans, Fresh, NEW p, NEW rv, Grows(p, rv)
  PROVE  /\ Merges(NewDescriptor(p), Grown(p), GrownStats,
                   RecordSpan(pagemap, NewDescriptor(p), Grown(p)), rv)
         /\ Grown(p).location = "NORMAL"
         /\ NewDescriptor(p) \in Descriptor /\ span[NewDescriptor(p)].location = "DELETED"
         /\ system' = system \cup PagesOf(Grown(p))
         /\ PagesOf(Grown(p)) \subseteq Page \ system
         /\ PagesOf(Grown(p)) = {q \in Page : In(q, Grown(p))}
         /\ Grown(p).length = call.ask
         /\ Place(call) = "sysalloc"
         /\ Place(call') \notin {"small", "large", "grown", "sysalloc"}
<1> DEFINE s == Grown(p)
           d == NewDescriptor(p)
           pm0 == RecordSpan(pagemap, d, s)
<1>1. /\ call.at = "sysalloc" /\ p \in Page /\ rv \in ReleaseResults
      /\ PagesOf(s) \subseteq Page \ system
      /\ system' = system \cup PagesOf(s)
      /\ ApplyMerge(Merged(span, pm0, GrownStats, d, s, rv))
      /\ IncrementalScavenge(call.ask, Search(call.n, 3))
      /\ UNCHANGED <<aggressive, release_index>>
  BY Zenon DEF Grows
<1>2. /\ d \in Descriptor \ LiveIn(span)
      /\ Loose(span, pm0, system', d, s)
      /\ GrownStats \in StatsRecord
      /\ PagesOf(Grown(p)) = {q \in Page : In(q, Grown(p))}
  BY <1>1, GrowFacts, Zenon
<1>3. span[d].location = "DELETED" /\ span[d].location # "RETURNED"
  <2>1. span[d].location = "DELETED"
    BY <1>2, Zenon DEF LiveIn
  <2> QED
    BY <2>1, SMTT(30)
<1>4. s.location = "NORMAL" /\ s.length = call.ask
  BY Zenon DEF Grown
<1>5. Place(call) = "sysalloc"
  BY <1>1, SMTT(30) DEF Place
<1>6. Place(call') \notin {"small", "large", "grown", "sysalloc"}
  <2> DEFINE c == Search(call.n, 3)
  <2>1. call' = c \/ call' = StartRelease(c, 1, "scavenged")
    BY <1>1, Zenon DEF IncrementalScavenge
  <2>2. Place(StartRelease(c, 1, "scavenged")) = "scavenged"
    <3>1. StartRelease(c, 1, "scavenged").at = "release"
          /\ StartRelease(c, 1, "scavenged").ret = "scavenged"
      BY Zenon DEF StartRelease, Search, Idle
    <3> QED
      BY <3>1, Zenon DEF Place
  <2>3. "scavenged" \notin {"small", "large", "grown", "sysalloc"}
    OBVIOUS
  <2> QED
    BY <2>1, <2>2, <2>3, SearchPlace, Zenon
<1> HIDE DEF s, d, pm0
<1>7. Merges(d, s, GrownStats, pm0, rv)
  BY <1>1, <1>2, <1>3, Zenon DEF Merges
<1> QED
  BY <1>1, <1>2, <1>3, <1>4, <1>5, <1>6, <1>7, Zenon DEF s, d, pm0

\* What a merge does to the statistics, in aggressive mode when the system
\* takes the pages back, and in the other mode.
Outcome(s, st, rv) ==
  /\ stats' \in StatsRecord /\ stats'.system = st.system
  /\ aggressive /\ rv => /\ stats'.unmapped + stats'.committed = st.unmapped + st.committed
                         /\ st.unmapped <= stats'.unmapped
  /\ ~ aggressive => /\ stats'.unmapped = st.unmapped
                                            + (IF s.location = "RETURNED" THEN s.length ELSE 0)
                     /\ stats'.committed = st.committed

LEMMA MergeOutcome ==
  ASSUME Spans, NEW d, NEW s, NEW st, NEW pm, NEW rv, Merges(d, s, st, pm, rv)
  PROVE  Outcome(s, st, rv)
<1> DEFINE E == Eaten(span, pm, s)
           w == WholeSpan(span, pm, s, rv)
           off == Decommits(JoinedSpan(span, pm, s), rv)
           temp == Temp(span, pm, s)
           before == Before(span, pm, s)
           after == After(span, pm, s)
           prev == Prev(pm, s)
           next == Following(pm, s)
           back == Back(span, pm, s)
<1>1. aggressive \in BOOLEAN
  BY PageHeapAssumption, SMTT(30) DEF Spans, Bookkeeping
<1>2. /\ Loose(span, pm, system', d, s) /\ st \in StatsRecord
      /\ ApplyMerge(Merged(span, pm, st, d, s, rv)) /\ aggressive' = aggressive
  BY Zenon DEF Merges
<1>3. MergedStats(stats', span, pm, st, s, rv)
  BY <1>1, <1>2, AppliedMerge, Zenon
<1>4. JoinOf(span, pm, d, s, rv) /\ NextTo(span, pm, d, s)
  BY <1>1, <1>2, JoinFacts, EatenFacts, Zenon
<1>5. s \in SpanRecord /\ s.location \in {"NORMAL", "RETURNED"}
  BY <1>2, Zenon DEF Loose
<1>6. /\ stats' \in StatsRecord /\ temp \in Nat /\ stats'.system = st.system
      /\ stats'.unmapped = st.unmapped - temp + (IF w.location = "NORMAL" THEN 0 ELSE w.length)
      /\ stats'.committed = st.committed - (IF off THEN w.length - temp ELSE 0)
  BY <1>3, Zenon DEF MergedStats
<1>7. /\ w.location = IF off THEN "RETURNED" ELSE s.location
      /\ before \in Nat /\ after \in Nat /\ w.length = before + s.length + after
      /\ w.length \in Nat /\ s.length \in Nat
      /\ prev \notin E => before = 0
      /\ next \notin E => after = 0
  <2>1. w \in SpanRecord
    BY <1>4, Zenon DEF JoinOf
  <2>2. w.length \in Nat /\ s.length \in Nat
    BY <1>5, <2>1, RecordFacts, SMTT(30)
  <2> QED
    BY <1>4, <2>2, Zenon DEF JoinOf
<1>8. temp = (IF prev \in back THEN before ELSE 0) + (IF next \in back THEN after ELSE 0)
  BY DEF Temp
<1>9. temp <= before + after
  <2> HIDE DEF temp, before, after, prev, next, back
  <2> QED
    BY <1>7, <1>8, SMTT(30)
<1>10. ASSUME ~ aggressive
       PROVE  temp = IF s.location = "RETURNED" THEN before + after ELSE 0
  <2>1. \A e \in E : span[e].location = s.location
    BY <1>4, <1>10, Zenon DEF NextTo
  <2>2. \A e : e \in back <=> e \in E /\ s.location = "RETURNED"
    BY <2>1, Zenon DEF Back
  <2> HIDE DEF temp, before, after, prev, next, back, E
  <2> QED
    BY <1>7, <1>8, <2>2, SMTT(30)
<1>11. off <=> aggressive /\ rv
  BY DEF Decommits
<1> HIDE DEF temp, before, after, prev, next, back, E, w, off
<1>12. st.unmapped \in Int /\ st.committed \in Int
  BY <1>2, SMTT(30) DEF StatsRecord
<1>13. ASSUME aggressive /\ rv
       PROVE  /\ stats'.unmapped + stats'.committed = st.unmapped + st.committed
              /\ st.unmapped <= stats'.unmapped
  <2>1. stats'.unmapped = st.unmapped - temp + w.length
        /\ stats'.committed = st.committed - (w.length - temp)
    <3>1. off /\ w.location # "NORMAL"
      BY <1>7, <1>11, <1>13, SMTT(30)
    <3> QED
      BY <1>6, <3>1, Zenon
  <2> QED
    BY <1>6, <1>7, <1>9, <1>12, <2>1, SMTT(30)
<1>14. ASSUME ~ aggressive
       PROVE  /\ stats'.unmapped = st.unmapped
                                     + (IF s.location = "RETURNED" THEN s.length ELSE 0)
              /\ stats'.committed = st.committed
  <2>1. ~ off /\ w.location = s.location
    BY <1>7, <1>11, <1>14, Zenon
  <2> QED
    BY <1>5, <1>6, <1>7, <1>10, <1>12, <1>14, <2>1, SMTT(30)
<1> QED
  BY <1>6, <1>13, <1>14, Zenon DEF Outcome

\* What a merge does to the free pages: those of the span that results get its
\* location, the others keep theirs.
MergedFree(w) ==
  \A p \in Page, l \in {"NORMAL", "RETURNED"} :
    /\ In(p, w) => (FreeAt(span', l, p) <=> l = w.location)
    /\ ~ In(p, w) => (FreeAt(span', l, p) <=> FreeAt(span, l, p))

LEMMA MergeFree ==
  ASSUME Spans, NEW d, NEW s, NEW st, NEW pm, NEW rv, Merges(d, s, st, pm, rv)
  PROVE  MergedFree(WholeSpan(span, pm, s, rv))
<1> DEFINE E == Eaten(span, pm, s)
           w == WholeSpan(span, pm, s, rv)
           sp0 == [span EXCEPT ![d] = s]
<1>1. aggressive \in BOOLEAN
  BY PageHeapAssumption, SMTT(30) DEF Spans, Bookkeeping
<1>2. /\ Loose(span, pm, system', d, s) /\ st \in StatsRecord
      /\ ApplyMerge(Merged(span, pm, st, d, s, rv)) /\ aggressive' = aggressive
      /\ d \in LiveIn(span) => span[d].start = s.start /\ span[d].length = s.length
  BY Zenon DEF Merges
<1>3. Layout'
  BY <1>1, <1>2, AppliedMerge, Zenon
<1>4. /\ \A p \in Page : In(p, w) <=> \E x \in E \cup {d} : In(p, sp0[x])
      /\ NextTo(span, pm, d, s) /\ JoinOf(span, pm, d, s, rv)
  BY <1>1, <1>2, JoinFacts, EatenFacts, Zenon
<1>5. span' = [e \in Descriptor |-> IF e = d THEN w ELSE IF e \in E THEN Deleted ELSE span[e]]
  <2>1. PartsOf(Merged(span, pm, st, d, s, rv), span, pm, st, d, s, rv)
    BY MergedParts, Zenon
  <2> QED
    BY <1>2, <2>1, Zenon DEF PartsOf, ApplyMerge
<1>6. d \in Descriptor /\ sp0[d] = s /\ \A x \in Descriptor \ {d} : sp0[x] = span[x]
  BY <1>2, Zenon DEF Loose
<1>7. Deleted.location = "DELETED" /\ E \subseteq Descriptor /\ d \notin E
  <2>1. Deleted.location = "DELETED"
    BY DEF Deleted
  <2> QED
    BY <1>4, <2>1, Zenon DEF NextTo, LiveIn
<1>8. w.location \in {"NORMAL", "RETURNED"} /\ w.location # "DELETED"
  <2>1. w.location = IF Decommits(JoinedSpan(span, pm, s), rv) THEN "RETURNED" ELSE s.location
    BY <1>4, Zenon DEF JoinOf
  <2>2. s.location \in {"NORMAL", "RETURNED"}
    BY <1>2, Zenon DEF Loose
  <2> HIDE DEF w
  <2> QED
    BY <2>1, <2>2, SMTT(30)
<1> HIDE DEF w, sp0, E
<1>9. /\ span'[d] = w /\ d \in LiveIn(span')
      /\ \A x \in LiveIn(span') \ {d} : x \notin E /\ x \in LiveIn(span) /\ span'[x] = span[x]
      /\ \A x \in LiveIn(span) \ (E \cup {d}) : x \in LiveIn(span') /\ span'[x] = span[x]
  BY <1>5, <1>6, <1>7, <1>8, Zenon DEF LiveIn
<1> SUFFICES ASSUME NEW p \in Page, NEW l \in {"NORMAL", "RETURNED"}
             PROVE  /\ In(p, w) => (FreeAt(span', l, p) <=> l = w.location)
                    /\ ~ In(p, w) => (FreeAt(span', l, p) <=> FreeAt(span, l, p))
  BY Zenon DEF MergedFree, w
<1>10. ASSUME In(p, w) PROVE FreeAt(span', l, p) <=> l = w.location
  <2>1. \A x \in LiveIn(span') : In(p, span'[x]) => x = d
    BY <1>3, <1>9, <1>10, PrimedLayout, Zenon DEF Known
  <2> QED
    BY <1>9, <1>10, <2>1, Zenon DEF FreeAt
<1>11. ASSUME ~ In(p, w) PROVE FreeAt(span', l, p) <=> FreeAt(span, l, p)
  <2>1. \A x \in E : ~ In(p, span[x])
    BY <1>4, <1>6, <1>7, <1>11, Zenon
  <2>2. d \in LiveIn(span) => ~ In(p, span[d])
    <3>1. ~ In(p, s)
      BY <1>4, <1>6, <1>11, Zenon
    <3> QED
      BY <1>2, <3>1, Zenon DEF In, LastPage
  <2> QED
    BY <1>9, <1>11, <2>1, <2>2, Zenon DEF FreeAt
<1> QED
  BY <1>10, <1>11

-----------------------------------------------------------------------------
(* In aggressive mode, when the system takes back what it is given, no     *)
(* normal pages are left: the committed count is then exact.               *)

Obliging == aggressive => FALSE \notin ReleaseResults
NoNormal == aggressive => \A p \in Page : ~ FreeAt(span, "NORMAL", p)

\* What EnsureLimit has made sure of, wherever the call is: that the pages asked
\* of the system fit under the limit, and that the pages still to be released are
\* those by which the wanted ones exceed it.
LimitFollowed ==
  HeapLimit # 0 =>
    /\ Taken <= HeapLimit
    /\ Place(call) = "sysalloc" => Taken + call.ask <= HeapLimit
    /\ Place(call) \in {"small", "large"}
         => call.goal - call.done = Taken + call.n - HeapLimit
    /\ Place(call) = "grown" => call.goal - call.done = Taken + call.ask - HeapLimit

Exact == Obliging => NoNormal /\ CommittedExact /\ LimitFollowed

LEMMA LiveIsFreeAt ==
  ASSUME Spans, NEW d \in Descriptor, NEW l \in Located, span[d].location = l
  PROVE  span[d].start \in Page /\ FreeAt(span, l, span[d].start)
<1>1. d \in LiveIn(span)
  <2>1. l # "DELETED"
    BY SMTT(30) DEF Located
  <2> QED
    BY <2>1, Zenon DEF LiveIn
<1>2. span[d].start \in Page /\ In(span[d].start, span[d])
  BY <1>1, SpanFacts, Zenon DEF Spans, Layout, Proper
<1> QED
  BY <1>1, <1>2, Zenon DEF FreeAt

\* In aggressive mode a merge with a successful release leaves no normal page.
LEMMA MergeNoNormal ==
  ASSUME Spans, NoNormal, NEW d, NEW s, NEW st, NEW pm, NEW rv, Merges(d, s, st, pm, rv),
         aggressive => rv
  PROVE  NoNormal'
<1> DEFINE w == WholeSpan(span, pm, s, rv)
<1>1. aggressive' = aggressive /\ Loose(span, pm, system', d, s)
  BY Zenon DEF Merges
<1>2. aggressive \in BOOLEAN
  BY PageHeapAssumption, SMTT(30) DEF Spans, Bookkeeping
<1>3. ASSUME aggressive PROVE w.location = "RETURNED" /\ w.location # "NORMAL"
  <2>1. JoinOf(span, pm, d, s, rv)
    BY <1>1, <1>2, JoinFacts, Zenon
  <2>2. w.location = "RETURNED"
    BY <1>3, <2>1, Zenon DEF JoinOf, Decommits
  <2> QED
    BY <2>2, SMTT(30)
<1>4. MergedFree(w)
  BY MergeFree, Zenon
<1> HIDE DEF w
<1>5. ASSUME aggressive, NEW p \in Page PROVE ~ FreeAt(span', "NORMAL", p)
  BY <1>3, <1>4, <1>5, Zenon DEF MergedFree, NoNormal
<1> QED
  BY <1>1, <1>5, Zenon DEF NoNormal

\* Split and RegisterSizeClass are for spans in use.
LEMMA FreeUntouched ==
  ASSUME Spans, Fresh,
         \/ \E d \in Descriptor, n \in Page : Split(d, n)
         \/ \E d \in Descriptor : RegisterSizeClass(d)
  PROVE  /\ \A p \in Page, l \in {"NORMAL", "RETURNED"} :
              FreeAt(span', l, p) <=> FreeAt(span, l, p)
         /\ UNCHANGED <<stats, aggressive, system, dirty, call>>
<1>0. /\ "IN_USE" # "DELETED" /\ \A l \in {"NORMAL", "RETURNED"} : l # "IN_USE" /\ l # "DELETED"
  OBVIOUS
<1>1. ASSUME NEW d \in Descriptor, NEW n \in Page, Split(d, n),
             NEW p \in Page, NEW l \in {"NORMAL", "RETURNED"}
      PROVE  FreeAt(span', l, p) <=> FreeAt(span, l, p)
  <2> PICK e : e = NewDescriptor(span[d].start + n)
    OBVIOUS
  <2>1. /\ d \in InUse /\ e \in Descriptor \ LiveIn(span) /\ d # e
        /\ span'[d].location = "IN_USE" /\ span'[e].location = "IN_USE"
    BY <1>1, SplitStep, Zenon
  <2>2. ASSUME NEW x \in Descriptor \ {d, e} PROVE span'[x] = span[x]
    BY Zenon, <1>1 DEF Split, Spans, Layout, Known
  <2>3. span[d].location = "IN_USE"
    BY <2>1, Zenon DEF InUse
  <2>4. ASSUME FreeAt(span', l, p) PROVE FreeAt(span, l, p)
    <3>1. PICK x \in LiveIn(span') : span'[x].location = l /\ In(p, span'[x])
      BY <2>4, Zenon DEF FreeAt
    <3>2. x \in Descriptor \ {d, e}
      BY <1>0, <2>1, <3>1, Zenon DEF LiveIn
    <3>3. x \in LiveIn(span) /\ span[x].location = l /\ In(p, span[x])
      BY <2>2, <3>1, <3>2, Zenon DEF LiveIn
    <3> QED
      BY <3>3, Zenon DEF FreeAt
  <2>5. ASSUME FreeAt(span, l, p) PROVE FreeAt(span', l, p)
    <3>1. PICK x \in LiveIn(span) : span[x].location = l /\ In(p, span[x])
      BY <2>5, Zenon DEF FreeAt
    <3>2. x \in Descriptor \ {d, e}
      BY <1>0, <2>1, <2>3, <3>1, Zenon DEF LiveIn
    <3>3. x \in LiveIn(span') /\ span'[x].location = l /\ In(p, span'[x])
      BY <2>2, <3>1, <3>2, Zenon DEF LiveIn
    <3> QED
      BY <3>3, Zenon DEF FreeAt
  <2> QED
    BY <2>4, <2>5
<1>2. ASSUME NEW d \in Descriptor, RegisterSizeClass(d),
             NEW p \in Page, NEW l \in {"NORMAL", "RETURNED"}
      PROVE  FreeAt(span', l, p) <=> FreeAt(span, l, p)
  <2>1. \A x \in Descriptor : /\ span'[x].location = span[x].location
                              /\ span'[x].start = span[x].start
                              /\ span'[x].length = span[x].length
    BY <1>2, RegisterStep, Zenon
  <2> QED
    BY <2>1, Zenon DEF FreeAt, LiveIn, In, LastPage
<1>3. UNCHANGED <<stats, aggressive, system, dirty, call>>
  BY Zenon DEF Split, RegisterSizeClass
<1> QED
  BY <1>1, <1>2, <1>3, Zenon

LEMMA GrownFacts ==
  ASSUME Spans, Place(call) = "sysalloc"
  PROVE  /\ GrownStats \in StatsRecord /\ call.ask \in Nat
         /\ GrownStats.system = stats.system + call.ask
         /\ GrownStats.committed = stats.committed + call.ask
         /\ GrownStats.free = stats.free /\ GrownStats.unmapped = stats.unmapped
<1>1. call.ask \in Nat /\ stats \in StatsRecord
  BY CallFacts, Zenon DEF Spans, Bookkeeping
<1>2. stats.system + call.ask \in Nat /\ stats.committed + call.ask \in Int
  BY <1>1, SMTT(30) DEF StatsRecord
<1> QED
  BY <1>1, <1>2, Zenon DEF GrownStats, StatsRecord

\* In the terms of the two counts the limit goes by.
LEMMA TakenFacts ==
  ASSUME Spans, Spans'
  PROVE  /\ stats.system \in Nat /\ stats.unmapped \in Int /\ stats.committed \in Int
         /\ stats'.system \in Nat /\ stats'.unmapped \in Int /\ stats'.committed \in Int
         /\ Taken = stats.system - stats.unmapped /\ Taken \in Int
         /\ Taken' = stats'.system - stats'.unmapped /\ Taken' \in Int
         /\ HeapLimit \in Nat
         /\ call.n \in Int /\ call.ask \in Int /\ call.goal \in Int /\ call.done \in Int
<1>1. stats \in StatsRecord /\ stats' \in StatsRecord
  BY Zenon DEF Spans, Bookkeeping
<1>2. call.n \in 0 .. NPages /\ call.ask \in Nat /\ call.goal \in Int /\ call.done \in Nat
  BY CallFacts, Zenon DEF Spans
<1> QED
  BY <1>1, <1>2, PageHeapAssumption, SMTT(30) DEF StatsRecord, Taken

LEMMA ExactCarve ==
  ASSUME Spans, Fresh, Exact, Obliging, NEW d, Carves(d)
  PROVE  NoNormal' /\ CommittedExact' /\ LimitFollowed'
<1>1. /\ Spans'
      /\ \A p \in Page, l \in {"NORMAL", "RETURNED"} :
           FreeAt(span', l, p) <=> FreeAt(span, l, p) /\ ~ In(p, span'[d])
      /\ CarvedStats(span[d].location, call.n)
  BY CarvesStep, Zenon
<1>2. call' = Idle /\ aggressive' = aggressive
  BY Zenon DEF Carves, ReturnCarved
<1>3. NoNormal /\ CommittedExact /\ LimitFollowed
  BY Zenon DEF Exact
<1>4. NoNormal'
  BY <1>1, <1>2, <1>3, ZenonT(30) DEF NoNormal
<1>5. CommittedExact'
  BY <1>1, <1>3, TakenFacts, SMTT(30) DEF CommittedExact, CarvedStats
<1>6. Place(call') \notin {"small", "large", "grown", "sysalloc"}
  BY <1>2, IdlePlace, Zenon
<1>7. HeapLimit # 0 => Taken' <= HeapLimit
  <2>1. CASE span[d].location = "NORMAL"
    BY <1>1, <1>3, <2>1, TakenFacts, SMTT(30) DEF CarvedStats, LimitFollowed
  <2>2. CASE WithinLimit(call.n)
    BY <1>1, <1>3, <2>2, TakenFacts, SMTT(30) DEF CarvedStats, LimitFollowed, WithinLimit
  <2>3. CASE call.at = "small" /\ Ensured
    <3>1. Place(call) = "small"
      BY <2>3, SMTT(30) DEF Place
    <3>2. HeapLimit # 0 => /\ call.goal - call.done = Taken + call.n - HeapLimit
                           /\ Taken <= HeapLimit
      BY <1>3, <3>1, Zenon DEF LimitFollowed
    <3>3. call.done >= call.goal
      BY <2>3, Zenon DEF Ensured
    <3> QED
      BY <1>1, <3>2, <3>3, TakenFacts, SMTT(30) DEF CarvedStats
  <2> QED
    BY <2>1, <2>2, <2>3, ZenonT(30) DEF Carves
<1>8. LimitFollowed'
  BY <1>6, <1>7, Zenon DEF LimitFollowed
<1> QED
  BY <1>4, <1>5, <1>8

LEMMA ExactDelete ==
  ASSUME Spans, Exact, Obliging, NEW d \in Descriptor, Delete(d)
  PROVE  NoNormal' /\ CommittedExact' /\ LimitFollowed'
<1>1. PICK rv \in ReleaseResults :
           /\ Merges(d, Freed(d), stats, pagemap, rv)
           /\ Freed(d).location = "NORMAL"
           /\ Place(call') \notin {"small", "large", "grown", "sysalloc"}
  BY DeleteMerges, Zenon
<1>2. aggressive => rv
  <2>1. rv \in BOOLEAN
    BY PageHeapAssumption, Zenon
  <2> QED
    BY <1>1, <2>1, Zenon DEF Obliging
<1>3. NoNormal /\ CommittedExact /\ LimitFollowed
  BY Zenon DEF Exact
<1>4. NoNormal'
  BY <1>1, <1>2, <1>3, MergeNoNormal, Zenon
<1>5. Outcome(Freed(d), stats, rv)
  BY <1>1, MergeOutcome, Zenon
<1>6. Spans'
  BY DeleteStep, Zenon
<1>7. aggressive \in BOOLEAN
  BY PageHeapAssumption, SMTT(30) DEF Spans, Bookkeeping
<1>8. /\ stats'.system = stats.system
      /\ stats'.unmapped + stats'.committed = stats.unmapped + stats.committed
      /\ stats.unmapped <= stats'.unmapped
  <2>1. CASE aggressive
    BY <1>2, <1>5, <2>1, Zenon DEF Outcome
  <2>2. CASE ~ aggressive
    <3>1. stats'.unmapped = stats.unmapped + 0 /\ stats'.committed = stats.committed
          /\ stats'.system = stats.system
      BY <1>1, <1>5, <2>2, SMTT(30) DEF Outcome
    <3> QED
      BY <1>6, <3>1, TakenFacts, SMTT(30)
  <2> QED
    BY <2>1, <2>2
<1>9. CommittedExact'
  BY <1>3, <1>6, <1>8, TakenFacts, SMTT(30) DEF CommittedExact
<1>10. HeapLimit # 0 => Taken' <= HeapLimit
  BY <1>3, <1>6, <1>8, TakenFacts, SMTT(30) DEF LimitFollowed
<1>11. LimitFollowed'
  BY <1>1, <1>10, Zenon DEF LimitFollowed
<1> QED
  BY <1>4, <1>9, <1>11

LEMMA ExactGrow ==
  ASSUME Spans, Fresh, Exact, Obliging, NEW p, NEW rv, Grows(p, rv)
  PROVE  NoNormal' /\ CommittedExact' /\ LimitFollowed'
<1> DEFINE d == NewDescriptor(p)
           s == Grown(p)
           pm == RecordSpan(pagemap, d, s)
<1>1. /\ Merges(d, s, GrownStats, pm, rv)
      /\ s.location = "NORMAL"
      /\ Place(call) = "sysalloc"
      /\ Place(call') \notin {"small", "large", "grown", "sysalloc"}
  BY GrowMerges, Zenon
<1>2. aggressive => rv
  <2>1. rv \in BOOLEAN /\ rv \in ReleaseResults
    BY PageHeapAssumption, Zenon DEF Grows
  <2> QED
    BY <2>1, Zenon DEF Obliging
<1>3. NoNormal /\ CommittedExact /\ LimitFollowed
  BY Zenon DEF Exact
<1> HIDE DEF d, s, pm
<1>4. NoNormal'
  BY <1>1, <1>2, <1>3, MergeNoNormal, Zenon
<1>5. Outcome(s, GrownStats, rv)
  BY <1>1, MergeOutcome, Zenon
<1>6. Spans'
  BY GrowsStep, Zenon
<1>7. aggressive \in BOOLEAN
  BY PageHeapAssumption, SMTT(30) DEF Spans, Bookkeeping
<1>g. /\ call.ask \in Nat
      /\ GrownStats.system = stats.system + call.ask
      /\ GrownStats.committed = stats.committed + call.ask
      /\ GrownStats.unmapped = stats.unmapped
  BY <1>1, GrownFacts, Zenon
<1>8. /\ stats'.system = stats.system + call.ask
      /\ stats'.unmapped + stats'.committed = stats.unmapped + (stats.committed + call.ask)
      /\ stats.unmapped <= stats'.unmapped
  <2>1. CASE aggressive
    BY <1>2, <1>5, <1>g, <2>1, Zenon DEF Outcome
  <2>2. CASE ~ aggressive
    <3>1. stats'.unmapped = stats.unmapped + 0 /\ stats'.committed = stats.committed + call.ask
          /\ stats'.system = stats.system + call.ask
      BY <1>1, <1>5, <1>g, <2>2, SMTT(30) DEF Outcome
    <3> QED
      BY <1>6, <3>1, TakenFacts, SMTT(30)
  <2> QED
    BY <2>1, <2>2
<1>9. CommittedExact'
  BY <1>3, <1>6, <1>8, <1>g, TakenFacts, SMTT(30) DEF CommittedExact
<1>10. HeapLimit # 0 => Taken' <= HeapLimit
  <2>1. HeapLimit # 0 => Taken + call.ask <= HeapLimit
    BY <1>1, <1>3, Zenon DEF LimitFollowed
  <2> QED
    BY <1>6, <1>8, <1>g, <2>1, TakenFacts, SMTT(30)
<1>11. LimitFollowed'
  BY <1>1, <1>10, Zenon DEF LimitFollowed
<1> QED
  BY <1>4, <1>9, <1>11

LEMMA ExactRelease ==
  ASSUME Spans, Spans', Exact, Obliging, NEW d, NEW rv, ReleasesSpan(d, rv)
  PROVE  NoNormal' /\ CommittedExact' /\ LimitFollowed'
<1> DEFINE s == Released(d)
           st == ReleasedStats(d)
<1>1. /\ Merges(d, s, st, pagemap, rv)
      /\ s.location = "RETURNED" /\ s.length \in Nat /\ d \in Descriptor
      /\ st.system = stats.system /\ st.unmapped = stats.unmapped
      /\ st.committed = stats.committed - s.length
      /\ span[d].location = "NORMAL"
      /\ Place(call') = Place(call) /\ call'.n = call.n /\ call'.ask = call.ask
      /\ call'.goal = call.goal /\ call'.done = call.done + s.length
  BY ReleaseMerges, Zenon
<1>2. NoNormal /\ CommittedExact /\ LimitFollowed
  BY Zenon DEF Exact
<1>3. ~ aggressive
  <2>1. "NORMAL" \in Located
    BY Zenon DEF Located
  <2> QED
    BY <1>1, <1>2, <2>1, LiveIsFreeAt, Zenon DEF NoNormal
<1> HIDE DEF s, st
<1>4. NoNormal'
  <2>1. aggressive' = aggressive
    BY <1>1, Zenon DEF Merges
  <2> QED
    BY <1>3, <2>1, Zenon DEF NoNormal
<1>5. Outcome(s, st, rv)
  BY <1>1, MergeOutcome, Zenon
<1>6. /\ stats'.system = stats.system
      /\ stats'.unmapped = stats.unmapped + s.length
      /\ stats'.committed = stats.committed - s.length
  BY <1>1, <1>3, <1>5, Zenon DEF Outcome
<1>7. CommittedExact'
  BY <1>1, <1>2, <1>6, TakenFacts, SMTT(30) DEF CommittedExact
<1>8. Taken' = Taken - s.length
  BY <1>1, <1>6, TakenFacts, SMTT(30)
<1>9. ASSUME HeapLimit # 0
      PROVE  /\ Taken' <= HeapLimit
             /\ Place(call') = "sysalloc" => Taken' + call'.ask <= HeapLimit
             /\ Place(call') \in {"small", "large"}
                  => call'.goal - call'.done = Taken' + call'.n - HeapLimit
             /\ Place(call') = "grown"
                  => call'.goal - call'.done = Taken' + call'.ask - HeapLimit
  <2>1. Taken' <= HeapLimit
    BY <1>1, <1>2, <1>8, <1>9, TakenFacts, SMTT(30) DEF LimitFollowed
  <2>2. ASSUME Place(call') = "sysalloc" PROVE Taken' + call'.ask <= HeapLimit
    <3>1. Taken + call.ask <= HeapLimit
      BY <1>1, <1>2, <1>9, <2>2, ZenonT(30) DEF LimitFollowed
    <3> QED
      BY <1>1, <1>8, <3>1, TakenFacts, SMTT(30)
  <2>3. ASSUME Place(call') \in {"small", "large"}
        PROVE  call'.goal - call'.done = Taken' + call'.n - HeapLimit
    <3>1. call.goal - call.done = Taken + call.n - HeapLimit
      BY <1>1, <1>2, <1>9, <2>3, ZenonT(30) DEF LimitFollowed
    <3> QED
      BY <1>1, <1>8, <3>1, TakenFacts, SMTT(30)
  <2>4. ASSUME Place(call') = "grown"
        PROVE  call'.goal - call'.done = Taken' + call'.ask - HeapLimit
    <3>1. call.goal - call.done = Taken + call.ask - HeapLimit
      BY <1>1, <1>2, <1>9, <2>4, Zenon DEF LimitFollowed
    <3> QED
      BY <1>1, <1>8, <3>1, TakenFacts, SMTT(30)
  <2> QED
    BY <2>1, <2>2, <2>3, <2>4, ZenonT(30)
<1>10. LimitFollowed'
  BY <1>9, Zenon DEF LimitFollowed
<1> QED
  BY <1>4, <1>7, <1>10

LEMMA ExactLoses ==
  ASSUME Spans, Fresh, Exact, Obliging, NEW p, Loses(p)
  PROVE  NoNormal' /\ CommittedExact' /\ LimitFollowed'
<1>1. /\ call.at = "sysalloc" /\ stats' = GrownStats /\ call' = Idle
      /\ aggressive' = aggressive /\ span' = span
  BY Zenon DEF Loses
<1>2. Place(call) = "sysalloc"
  BY <1>1, SMTT(30) DEF Place
<1>3. /\ call.ask \in Nat
      /\ stats'.system = stats.system + call.ask
      /\ stats'.committed = stats.committed + call.ask
      /\ stats'.unmapped = stats.unmapped
  BY <1>1, <1>2, GrownFacts, Zenon
<1>4. Spans'
  BY LosesStep, Zenon
<1>5. NoNormal /\ CommittedExact /\ LimitFollowed
  BY Zenon DEF Exact
<1>6. NoNormal'
  BY <1>1, <1>5 DEF NoNormal
<1>7. CommittedExact'
  BY <1>3, <1>4, <1>5, TakenFacts, SMTT(30) DEF CommittedExact
<1>8. HeapLimit # 0 => Taken' <= HeapLimit
  <2>1. HeapLimit # 0 => Taken + call.ask <= HeapLimit
    BY <1>2, <1>5, Zenon DEF LimitFollowed
  <2> QED
    BY <1>3, <1>4, <2>1, TakenFacts, SMTT(30)
<1>9. LimitFollowed'
  BY <1>1, <1>8, IdlePlace, Zenon DEF LimitFollowed
<1> QED
  BY <1>6, <1>7, <1>9

LEMMA ExactQuiet ==
  ASSUME Spans, Spans', Exact, Obliging, Quiet, QuietMove
  PROVE  NoNormal' /\ CommittedExact' /\ LimitFollowed'
<1>1. span' = span /\ stats' = stats /\ aggressive' = aggressive
  BY Zenon DEF Quiet, heapVars
<1>2. NoNormal /\ CommittedExact /\ LimitFollowed
  BY Zenon DEF Exact
<1>3. NoNormal' /\ CommittedExact' /\ Taken' = Taken
  BY <1>1, <1>2 DEF NoNormal, CommittedExact, Taken
<1>4. ASSUME HeapLimit # 0
      PROVE  /\ Taken <= HeapLimit
             /\ Place(call') = "sysalloc" => Taken + call'.ask <= HeapLimit
             /\ Place(call') \in {"small", "large"}
                  => call'.goal - call'.done = Taken + call'.n - HeapLimit
             /\ Place(call') = "grown"
                  => call'.goal - call'.done = Taken + call'.ask - HeapLimit
  <2>0. /\ Taken <= HeapLimit
        /\ Place(call) = "sysalloc" => Taken + call.ask <= HeapLimit
        /\ Place(call) \in {"small", "large"}
             => call.goal - call.done = Taken + call.n - HeapLimit
        /\ Place(call) = "grown" => call.goal - call.done = Taken + call.ask - HeapLimit
    BY <1>2, <1>4, Zenon DEF LimitFollowed
  <2>n. /\ "sysalloc" \notin {"small", "large", "grown"}
        /\ "grown" \notin {"small", "large", "sysalloc"}
        /\ "small" \notin {"grown", "sysalloc"} /\ "large" \notin {"grown", "sysalloc"}
    OBVIOUS
  <2>1. CASE Place(call') \notin {"small", "large", "grown", "sysalloc"}
    BY <2>0, <2>1, Zenon
  <2>2. CASE /\ Place(call') \in {"small", "large"} /\ call'.n = call.n
             /\ call'.goal = Taken + call.n - HeapLimit /\ call'.done = 0
    <3>1. call'.goal - call'.done = Taken + call'.n - HeapLimit
      BY <2>2, TakenFacts, SMTT(30)
    <3> QED
      BY <2>0, <2>2, <2>n, <3>1, Zenon
  <2>3. CASE /\ Place(call') = "grown" /\ call'.ask = call.ask
             /\ call'.goal = Taken + call.ask - HeapLimit /\ call'.done = 0
    <3>1. call'.goal - call'.done = Taken + call'.ask - HeapLimit
      BY <2>3, TakenFacts, SMTT(30)
    <3> QED
      BY <2>0, <2>3, <2>n, <3>1, Zenon
  <2>4. CASE /\ Place(call') = Place(call) /\ call'.n = call.n /\ call'.ask = call.ask
             /\ call'.goal = call.goal /\ call'.done = call.done
    BY <2>0, <2>4, Zenon
  <2>5. CASE /\ Place(call') = "sysalloc" /\ call'.ask = call.ask
             /\ WithinLimit(call.ask) \/ (call.at = "grown" /\ Ensured)
    <3>1. Taken + call.ask <= HeapLimit
      <4>1. CASE WithinLimit(call.ask)
        BY <1>4, <4>1, Zenon DEF WithinLimit
      <4>2. CASE call.at = "grown" /\ Ensured
        <5>1. Place(call) = "grown"
          BY <4>2, SMTT(30) DEF Place
        <5> QED
          BY <2>0, <4>2, <5>1, TakenFacts, SMTT(30) DEF Ensured
      <4> QED
        BY <2>5, <4>1, <4>2
    <3> QED
      BY <2>0, <2>5, <2>n, <3>1, Zenon
  <2> QED
    BY <2>1, <2>2, <2>3, <2>4, <2>5, Zenon DEF QuietMove
<1>5. LimitFollowed'
  BY <1>3, <1>4, Zenon DEF LimitFollowed
<1> QED
  BY <1>3, <1>5

LEMMA ExactNext ==
  ASSUME Spans, Fresh, Spans', Exact, [PageHeapNext]_pageHeapVars
  PROVE  Exact'
<1>2. aggressive' = aggressive
  BY Zenon DEF PageHeapNext, Step, pageHeapVars, SearchSmall, SearchSmallEnsured, AllocLarge,
     AllocLargeEnsured, Coalesced, Grow, GrowEnsured, Scavenged, SystemAlloc, SystemAllocFails,
     ReleaseDone, ReleaseOne, ReturnCarved, Continue, NewCall, Delete, Split,
     RegisterSizeClass, ReleasePages
<1> SUFFICES ASSUME Obliging PROVE NoNormal' /\ CommittedExact' /\ LimitFollowed'
  BY <1>2, Zenon DEF Exact, Obliging
<1>3. NoNormal /\ CommittedExact /\ LimitFollowed
  BY Zenon DEF Exact
<1>4. CASE StepKind
  BY <1>4, ExactQuiet, ExactCarve, ExactRelease, ExactGrow, ExactLoses, ZenonT(30)
     DEF StepKind
<1>5. CASE \/ \E d \in Descriptor, n \in Page : Split(d, n)
           \/ \E d \in Descriptor : RegisterSizeClass(d)
  <2>1. /\ \A p \in Page, l \in {"NORMAL", "RETURNED"} :
             FreeAt(span', l, p) <=> FreeAt(span, l, p)
        /\ stats' = stats /\ call' = call
    BY <1>5, FreeUntouched, Zenon
  <2>2. NoNormal'
    BY <1>2, <1>3, <2>1, ZenonT(30) DEF NoNormal
  <2> QED
    BY <1>3, <2>1, <2>2 DEF CommittedExact, LimitFollowed, Taken
<1>6. CASE UNCHANGED pageHeapVars
  BY <1>3, <1>6 DEF pageHeapVars, NoNormal, CommittedExact, LimitFollowed, Taken
<1> QED
  BY <1>4, <1>5, <1>6, NextKinds, ExactDelete, ZenonT(30)

LEMMA ExactInit == PageHeapInit => Exact
<1> SUFFICES ASSUME PageHeapInit PROVE NoNormal /\ CommittedExact /\ LimitFollowed
  BY Zenon DEF Exact
<1>1. LiveIn(span) = {}
  <2>1. Deleted.location = "DELETED"
    BY DEF Deleted
  <2> QED
    BY <2>1, Zenon DEF PageHeapInit, LiveIn
<1>2. NoNormal
  BY <1>1, Zenon DEF NoNormal, FreeAt
<1>3. stats.system = 0 /\ stats.unmapped = 0 /\ stats.committed = 0 /\ call = Idle
  BY DEF PageHeapInit
<1>4. CommittedExact /\ Taken <= HeapLimit
  BY <1>3, PageHeapAssumption, SMTT(30) DEF CommittedExact, Taken
<1>5. LimitFollowed
  BY <1>3, <1>4, IdlePlace, Zenon DEF LimitFollowed
<1> QED
  BY <1>2, <1>4, <1>5

-----------------------------------------------------------------------------
(* In aggressive mode free pages hold zeros.                               *)

Clean == aggressive => dirty = {}

LEMMA DeleteCleans ==
  ASSUME Spans, Clean, FALSE \notin ReleaseResults, NEW d \in Descriptor, Delete(d), aggressive
  PROVE  dirty' = {}
<1> DEFINE s == Freed(d)
<1>1. PICK rv \in ReleaseResults :
        /\ Merges(d, s, stats, pagemap, rv)
        /\ dirty' = (dirty \cup PagesOf(s)) \ Merged(span, pagemap, stats, d, s, rv).zeroed
  BY DeleteMerges, Zenon
<1> HIDE DEF s
<1> DEFINE w == WholeSpan(span, pagemap, s, rv)
<1>2. rv = TRUE /\ aggressive \in BOOLEAN
  <2>1. rv \in BOOLEAN /\ aggressive \in BOOLEAN
    BY PageHeapAssumption, Zenon DEF Spans, Bookkeeping
  <2> QED
    BY <2>1, Zenon
<1>3. Loose(span, pagemap, system', d, s)
  BY <1>1, Zenon DEF Merges
<1>4. JoinOf(span, pagemap, d, s, rv)
  BY <1>2, <1>3, JoinFacts, Zenon
<1>5. s \in SpanRecord /\ w \in SpanRecord /\ w.start = s.start - Before(span, pagemap, s)
      /\ LastPage(w) = LastPage(s) + After(span, pagemap, s)
      /\ Before(span, pagemap, s) \in Nat /\ After(span, pagemap, s) \in Nat
  BY <1>3, <1>4, Zenon DEF Loose, JoinOf
<1>6. Merged(span, pagemap, stats, d, s, rv).zeroed = PagesOf(w)
  <2>1. PartsOf(Merged(span, pagemap, stats, d, s, rv), span, pagemap, stats, d, s, rv)
    BY MergedParts, Zenon
  <2> QED
    BY <1>2, <2>1, Zenon DEF PartsOf, Decommits
<1> HIDE DEF w
<1>7. PagesOf(s) \subseteq PagesOf(w)
  <2>1. s.start \in Int /\ LastPage(s) \in Int
    BY <1>5, RecordFacts, SMTT(30)
  <2> QED
    BY <1>5, <2>1, SMTT(30) DEF PagesOf
<1> QED
  BY <1>1, <1>6, <1>7, Zenon DEF Clean

LEMMA CleanNext ==
  ASSUME Spans, Fresh, Clean, FALSE \notin ReleaseResults, [PageHeapNext]_pageHeapVars
  PROVE  Clean'
<1> SUFFICES ASSUME aggressive' PROVE dirty' = {}
  BY Zenon DEF Clean
<1>1. aggressive
  BY Zenon DEF PageHeapNext, Step, pageHeapVars, SearchSmall, SearchSmallEnsured, AllocLarge,
     AllocLargeEnsured, Coalesced, Grow, GrowEnsured, Scavenged, SystemAlloc, SystemAllocFails,
     ReleaseDone, ReleaseOne, ReturnCarved, Continue, NewCall, Delete, Split,
     RegisterSizeClass, ReleasePages
<1>2. dirty = {}
  BY <1>1, Zenon DEF Clean
<1>3. CASE StepKind
  BY <1>2, <1>3, Zenon DEF StepKind, Quiet, heapVars, Carves, ReturnCarved, ReleasesSpan,
     Grows, Loses
<1>4. CASE \/ \E d \in Descriptor, n \in Page : Split(d, n)
           \/ \E d \in Descriptor : RegisterSizeClass(d)
  BY <1>2, <1>4, FreeUntouched, Zenon
<1>5. CASE UNCHANGED pageHeapVars
  BY <1>2, <1>5, Zenon DEF pageHeapVars
<1> QED
  BY <1>1, <1>3, <1>4, <1>5, NextKinds, DeleteCleans, Zenon
=============================================================================
