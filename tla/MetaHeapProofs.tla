--------------------------- MODULE MetaHeapProofs ---------------------------
(***************************************************************************)
(* The promise of the page heap, and the metadata layer above it, for any  *)
(* number of threads, pages and size classes: the entries of a span always *)
(* name its own metaspan, no span is given back while an object in it is   *)
(* in use, and PageHeap::Delete is only ever called as its contract        *)
(* requires.                                                               *)
(***************************************************************************)
EXTENDS MetaHeap, WellFoundedInduction, TLAPS

-----------------------------------------------------------------------------
(* Arithmetic of addresses, pages and slots.                               *)

\* Division with remainder, in the form the other lemmas use.
LEMMA DivMod ==
  ASSUME NEW x \in Int, NEW k \in Nat \ {0}
  PROVE  /\ x \div k \in Int
         /\ x % k \in 0 .. k - 1
         /\ x = k * (x \div k) + (x % k)
  OBVIOUS

\* A product with a positive factor is at least the other factor apart.
LEMMA MulGap ==
  ASSUME NEW a \in Int, NEW b \in Int, NEW k \in Nat, a < b
  PROVE  a * k + k <= b * k
<1>1. (b - a - 1) * k >= 0
  OBVIOUS
<1> QED
  BY <1>1, SMTT(30)

LEMMA MulMono ==
  ASSUME NEW a \in Int, NEW b \in Int, NEW k \in Nat, a <= b
  PROVE  a * k <= b * k
<1>1. (b - a) * k >= 0
  OBVIOUS
<1> QED
  BY <1>1, SMTT(30)

\* The quotient is the only number between whose multiples x lies.
LEMMA DivUnique ==
  ASSUME NEW x \in Int, NEW k \in Nat \ {0}, NEW q \in Int,
         q * k <= x, x < q * k + k
  PROVE  x \div k = q
<1> DEFINE d == x \div k
<1>1. d \in Int /\ d * k <= x /\ x < d * k + k
  BY DivMod, SMTT(30)
<1> HIDE DEF d
<1>2. ~ (d < q)
  BY <1>1, MulGap, SMTT(30)
<1>3. ~ (q < d)
  BY <1>1, MulGap, SMTT(30)
<1> QED
  BY <1>1, <1>2, <1>3, SMTT(30) DEF d

\* An address inside the pages a .. b-1 divides to one of these pages.
LEMMA DivRange ==
  ASSUME NEW x \in Int, NEW k \in Nat \ {0}, NEW a \in Int, NEW b \in Int,
         a * k <= x, x < b * k
  PROVE  a <= x \div k /\ x \div k < b
<1> DEFINE d == x \div k
<1>1. d \in Int /\ d * k <= x /\ x < d * k + k
  BY DivMod, SMTT(30)
<1> HIDE DEF d
<1>2. ~ (d < a)
  BY <1>1, MulGap, SMTT(30)
<1>3. ~ (b <= d)
  BY <1>1, MulMono, SMTT(30)
<1> QED
  BY <1>1, <1>2, <1>3, SMTT(30) DEF d

\* The first page of a span that starts at page s is s.
LEMMA DivProduct ==
  ASSUME NEW s \in Int, NEW k \in Nat \ {0}
  PROVE  (s * k) \div k = s
  BY DivUnique, SMTT(30)

\* Quotients and products of naturals are naturals.
LEMMA DivNat ==
  ASSUME NEW x \in Nat, NEW k \in Nat \ {0}
  PROVE  x \div k \in Nat
<1>1. 0 * k <= x /\ x < (x + 1) * k
  <2>1. (x + 1) * 1 <= (x + 1) * k
    BY MulMono, SMTT(30)
  <2> QED BY <2>1
<1>2. 0 <= x \div k /\ x \div k < x + 1
  BY <1>1, DivRange, SMTT(30)
<1> QED
  BY <1>2, DivMod, SMTT(30)

LEMMA DivTimes ==
  ASSUME NEW x \in Nat, NEW k \in Nat \ {0}
  PROVE  x \div k \in Nat /\ (x \div k) * k <= x
  BY DivNat, DivMod, SMTT(30)

LEMMA MulNat ==
  ASSUME NEW a \in Nat, NEW b \in Nat
  PROVE  a * b \in Nat
  OBVIOUS

\* The slot arithmetic of the direct-mapped cache: of the pages up to l that
\* fall into slot x % n, the one that is kept is not before x.
LEMMA SlotKeepsLast ==
  ASSUME NEW l \in Int, NEW x \in Int, NEW n \in Nat \ {0}, x <= l
  PROVE  l - ((l - (x % n)) % n) >= x
<1> DEFINE k == x % n
           p == x \div n
<1>1. k \in Int /\ p \in Int /\ x = n * p + k
  BY DivMod, SMTT(30)
<1> HIDE DEF k, p
<1> DEFINE m == l - k
           r == m % n
           q == m \div n
<1>m. m \in Int
  BY <1>1, SMTT(30)
<1> HIDE DEF m
<1>r. r \in 0 .. n - 1 /\ q \in Int /\ m = n * q + r
  BY <1>m, DivMod, Zenon
<1> HIDE DEF r, q
<1>2. r \in 0 .. n - 1 /\ q \in Int /\ l - k = n * q + r
  BY <1>r, Zenon DEF m
<1>3. ~ (q < p)
  <2> SUFFICES ASSUME q < p PROVE FALSE
    OBVIOUS
  <2>1. q * n + n <= p * n
    BY <1>1, <1>2, MulGap, Zenon
  <2> QED
    BY <2>1, <1>1, <1>2, SMTT(30)
<1>4. p * n <= q * n
  BY <1>1, <1>2, <1>3, MulMono, SMTT(30)
<1>5. l - r >= x
  <2> DEFINE s == p * n
             t == q * n
  <2>1. s \in Int /\ t \in Int /\ x = s + k /\ l - k = t + r /\ s <= t
    BY <1>1, <1>2, <1>4, SMTT(30)
  <2> HIDE DEF s, t
  <2> QED
    BY <1>1, <1>2, <2>1, SMTT(30)
<1> QED
  BY <1>5, Zenon DEF k, r, m

-----------------------------------------------------------------------------
(* The inductive invariant.                                                *)

\* A thread in one of these states holds a span that no list knows of.
Holding == {"carve", "release", "free_large"}

\* Held spans have their metaspan, and each is held by one thread.
HoldInv ==
  /\ \A t \in Threads : pc[t] \in Holding =>
       /\ \E p \in pairs : p.data = sp[t]
       /\ pc[t] = "carve" => sizeclass[sp[t].start] # 0
  /\ \A t, u \in Threads :
       pc[t] \in Holding /\ pc[u] \in Holding /\ t # u => sp[t] # sp[u]

\* The span an object lives in: the whole of a span without size class, or one
\* of the objects carved out of it; the span is held by no thread.
Home(o, p) ==
  /\ p \in pairs
  /\ IF sizeclass[p.data.start] = 0
     THEN o = BaseOf(p.data) /\ o \notin inSpan \cup cached
     ELSE o \in ObjectsOf(p.data, sizeclass[p.data.start])
  /\ \A t \in Threads : pc[t] \in Holding => sp[t] # p.data

HomeInv == \A o \in Objects : \E p \in pairs : Home(o, p)

\* An object is in one place.
PlaceInv ==
  /\ inSpan \cap cached = {}
  /\ (inSpan \cup cached) \cap DOMAIN live = {}
  /\ \A t \in Threads :
       pc[t] = "reset" => ob[t] \notin inSpan \cup cached \cup DOMAIN live
  /\ \A t, u \in Threads :
       pc[t] = "reset" /\ pc[u] = "reset" /\ t # u => ob[t] # ob[u]

\* The cached size class of a page where an object may start is right once the
\* span has been carved.
CacheInv ==
  \A p \in pairs : (\A t \in Threads : pc[t] = "carve" => sp[t] # p.data) =>
    \A x \in PagesOf(p.data) :
      sizeclass[p.data.start] # 0 \/ x = p.data.start =>
        GetSizeClassIfCached(x) \in {0, sizeclass[p.data.start]}

IInv ==
  /\ TypeOK
  /\ AllocDisjoint
  /\ EntriesNameOwnMetaspan
  /\ NoFault
  /\ HoldInv
  /\ HomeInv
  /\ PlaceInv
  /\ CacheInv

-----------------------------------------------------------------------------
(* The operators of the model.                                             *)

\* The granule of every size class is a positive number.  GranuleType proves it
\* where the library on well-founded relations is in scope; the lemmas before it
\* take it as a hypothesis.
GranulesPositive == \A c \in Classes \cup {0} : GranuleOf(c) \in Nat \ {0}

LEMMA SpanFacts ==
  ASSUME NEW s \in Span
  PROVE  /\ s.start \in Nat \ {0} /\ s.start <= NPages
         /\ s.len \in Nat \ {0}
         /\ LastPage(s) \in Nat /\ LastPage(s) = s.start + s.len - 1
         /\ PagesOf(s) \subseteq Nat
         /\ s.start \in PagesOf(s) /\ LastPage(s) \in PagesOf(s)
  BY NPagesAssumption, SMTT(30) DEF Span, Page, LastPage, PagesOf

\* Spans that are apart share no page.
LEMMA ApartPages ==
  ASSUME NEW s \in Span, NEW t \in Span, Apart(s, t)
  PROVE  PagesOf(s) \cap PagesOf(t) = {}
  BY SpanFacts, SMTT(30) DEF Apart, PagesOf

\* The first address of a span is in its first page.
LEMMA BaseFacts ==
  ASSUME NEW s \in Span
  PROVE  /\ BaseOf(s) \in Nat \ {0}
         /\ PageOf(BaseOf(s)) = s.start
         /\ BytesOf(s) \in Nat
<1>1. s.start * kPageSize \in Nat /\ s.len * kPageSize \in Nat
  BY SpanFacts, GeometryAssumption, MulNat, Zenon
<1>2. 1 * kPageSize <= s.start * kPageSize
  BY SpanFacts, GeometryAssumption, MulMono, SMTT(30)
<1>3. (s.start * kPageSize) \div kPageSize = s.start
  BY SpanFacts, GeometryAssumption, DivProduct, SMTT(30)
<1> QED
  BY <1>1, <1>2, <1>3, GeometryAssumption, SMTT(30) DEF BaseOf, BytesOf, PageOf

\* The objects of a span lie in its pages.
LEMMA ObjectsOfFacts ==
  ASSUME NEW s \in Span, NEW c \in Classes, NEW o \in ObjectsOf(s, c)
  PROVE  o \in Nat /\ PageOf(o) \in PagesOf(s)
<1> DEFINE n == BytesOf(s) \div ClassSize[c]
<1>1. ClassSize[c] \in Nat \ {0} /\ BytesOf(s) \in Nat
  BY ClassAssumption, BaseFacts, Zenon
<1>2. n \in Nat /\ n * ClassSize[c] <= BytesOf(s)
  BY <1>1, DivTimes, Zenon
<1> HIDE DEF n
<1>3. PICK i \in 0 .. n - 1 : o = BaseOf(s) + i * ClassSize[c]
  BY Zenon DEF ObjectsOf, n
<1>4. i \in Nat /\ i * ClassSize[c] \in Nat
  BY <1>1, <1>2, <1>3, MulNat, SMTT(30)
<1>5. i * ClassSize[c] + ClassSize[c] <= n * ClassSize[c]
  BY <1>1, <1>2, <1>3, MulGap, SMTT(30)
<1>6. o \in Nat /\ BaseOf(s) <= o /\ o < BaseOf(s) + BytesOf(s)
  BY <1>1, <1>2, <1>3, <1>4, <1>5, BaseFacts, SMTT(30)
<1>7. BaseOf(s) + BytesOf(s) = (s.start + s.len) * kPageSize
  BY SpanFacts, GeometryAssumption, SMTT(30) DEF BaseOf, BytesOf
<1>8. s.start <= o \div kPageSize /\ o \div kPageSize < s.start + s.len
  <2> DEFINE e == s.start + s.len
  <2>1. /\ e \in Int /\ s.start \in Int /\ o \in Int
        /\ kPageSize \in Nat \ {0}
        /\ s.start * kPageSize <= o /\ o < e * kPageSize
    BY <1>6, <1>7, SpanFacts, GeometryAssumption, SMTT(30) DEF BaseOf
  <2> HIDE DEF e
  <2>2. s.start <= o \div kPageSize /\ o \div kPageSize < e
    BY <2>1, DivRange, Zenon
  <2> QED
    BY <2>2, Zenon DEF e
<1>9. o \div kPageSize \in Int
  BY <1>6, GeometryAssumption, DivMod, SMTT(30)
<1> QED
  BY <1>6, <1>8, <1>9, SpanFacts, SMTT(30) DEF PageOf, PagesOf

LEMMA RatioFacts ==
  Ratio \in Nat \ {0} /\ kPageSize = Ratio * METALLOC_PAGESIZE
<1>1. /\ Ratio \in Nat
      /\ kPageSize % METALLOC_PAGESIZE = 0
      /\ kPageSize = METALLOC_PAGESIZE * Ratio + (kPageSize % METALLOC_PAGESIZE)
  BY GeometryAssumption, DivNat, DivMod, SMTT(30) DEF Ratio
<1> QED
  BY <1>1, GeometryAssumption, SMTT(30)

\* The METALLOC pages of a span, as addresses and inside the table.
LEMMA MetaPageFacts ==
  ASSUME NEW s \in Span
  PROVE  /\ FirstMetaPage(s) \in Nat /\ s.len * Ratio \in Nat \ {0}
         /\ FirstMetaPage(s) * METALLOC_PAGESIZE = BaseOf(s)
         /\ FirstMetaPage(s) + s.len * Ratio = (s.start + s.len) * Ratio
         /\ LastPage(s) <= NPages =>
              FirstMetaPage(s) + s.len * Ratio <= (NPages + 1) * Ratio
<1>1. s.start * Ratio \in Nat /\ s.len * Ratio \in Nat
  BY SpanFacts, RatioFacts, MulNat, Zenon
<1>2. 1 * Ratio <= s.len * Ratio
  BY SpanFacts, RatioFacts, MulMono, SMTT(30)
<1>3. s.start * Ratio * METALLOC_PAGESIZE = s.start * (Ratio * METALLOC_PAGESIZE)
  BY SpanFacts, RatioFacts, GeometryAssumption, SMTT(30)
<1>4. (s.start + s.len) * Ratio = s.start * Ratio + s.len * Ratio
  BY SpanFacts, RatioFacts, SMTT(30)
<1>5. ASSUME LastPage(s) <= NPages
      PROVE  (s.start + s.len) * Ratio <= (NPages + 1) * Ratio
  <2> DEFINE e == s.start + s.len
             f == NPages + 1
  <2>1. e \in Int /\ f \in Int /\ e <= f /\ Ratio \in Nat
    BY <1>5, SpanFacts, RatioFacts, NPagesAssumption, SMTT(30)
  <2> HIDE DEF e, f
  <2>2. e * Ratio <= f * Ratio
    BY <2>1, MulMono, Zenon
  <2> QED
    BY <2>2, Zenon DEF e, f
<1> QED
  BY <1>1, <1>2, <1>3, <1>4, <1>5, RatioFacts, SMTT(30) DEF FirstMetaPage, BaseOf

\* Spans that are apart have METALLOC pages that are apart.
LEMMA MetaPagesApart ==
  ASSUME NEW s \in Span, NEW t \in Span, Apart(s, t)
  PROVE  \/ FirstMetaPage(s) + s.len * Ratio <= FirstMetaPage(t)
         \/ FirstMetaPage(t) + t.len * Ratio <= FirstMetaPage(s)
<1>1. CASE LastPage(s) < t.start
  <2> DEFINE e == s.start + s.len
  <2>1. e \in Int /\ t.start \in Int /\ e <= t.start /\ Ratio \in Nat
    BY <1>1, SpanFacts, RatioFacts, SMTT(30)
  <2> HIDE DEF e
  <2>2. e * Ratio <= t.start * Ratio
    BY <2>1, MulMono, Zenon
  <2> QED
    BY <2>2, MetaPageFacts, Zenon DEF e, FirstMetaPage
<1>2. CASE LastPage(t) < s.start
  <2> DEFINE e == t.start + t.len
  <2>1. e \in Int /\ s.start \in Int /\ e <= s.start /\ Ratio \in Nat
    BY <1>2, SpanFacts, RatioFacts, SMTT(30)
  <2> HIDE DEF e
  <2>2. e * Ratio <= s.start * Ratio
    BY <2>1, MulMono, Zenon
  <2> QED
    BY <2>2, MetaPageFacts, Zenon DEF e, FirstMetaPage
<1> QED
  BY <1>1, <1>2, Zenon DEF Apart

\* The entry of the first address of a span is that of its first METALLOC page.
LEMMA BaseEntry ==
  ASSUME NEW s \in Span
  PROVE  BaseOf(s) \div METALLOC_PAGESIZE = FirstMetaPage(s)
<1>1. /\ FirstMetaPage(s) \in Int /\ METALLOC_PAGESIZE \in Nat \ {0}
      /\ BaseOf(s) = FirstMetaPage(s) * METALLOC_PAGESIZE
  BY MetaPageFacts, GeometryAssumption, SMTT(30)
<1> QED
  BY <1>1, DivProduct, Zenon

\* The entry of an address in a span is one of the span's entries.
LEMMA AddressEntry ==
  ASSUME NEW s \in Span, NEW o \in Nat, PageOf(o) \in PagesOf(s)
  PROVE  \E i \in 0 .. s.len * Ratio - 1 :
           o \div METALLOC_PAGESIZE = FirstMetaPage(s) + i
<1> DEFINE q == PageOf(o)
           e == s.start + s.len
           a == FirstMetaPage(s)
           b == FirstMetaPage(s) + s.len * Ratio
           d == o \div METALLOC_PAGESIZE
<1>1. q \in Int /\ q * kPageSize <= o /\ o < q * kPageSize + kPageSize
  BY GeometryAssumption, DivMod, SMTT(30) DEF PageOf
<1>2. /\ s.start \in Int /\ e \in Int /\ s.start <= q /\ q < e
      /\ kPageSize \in Nat
  BY SpanFacts, GeometryAssumption, SMTT(30) DEF PagesOf, LastPage
<1>3. a \in Int /\ b \in Int /\ b = e * Ratio /\ a = s.start * Ratio
  BY MetaPageFacts, RatioFacts, SMTT(30) DEF FirstMetaPage
<1>4. s.start * kPageSize = a * METALLOC_PAGESIZE
  BY MetaPageFacts, Zenon DEF BaseOf
<1>5. e * kPageSize = b * METALLOC_PAGESIZE
  <2> HIDE DEF e, b, a
  <2>1. e * (Ratio * METALLOC_PAGESIZE) = e * Ratio * METALLOC_PAGESIZE
    BY <1>2, RatioFacts, GeometryAssumption, SMTT(30)
  <2> QED
    BY <2>1, <1>3, RatioFacts, Zenon
<1> HIDE DEF q, e, a, b
<1>6. s.start * kPageSize <= q * kPageSize
  BY <1>1, <1>2, MulMono, Zenon
<1>7. q * kPageSize + kPageSize <= e * kPageSize
  BY <1>1, <1>2, MulGap, Zenon
<1>8. a * METALLOC_PAGESIZE <= o /\ o < b * METALLOC_PAGESIZE
  <2>1. /\ s.start * kPageSize \in Int /\ e * kPageSize \in Int
        /\ q * kPageSize \in Int /\ kPageSize \in Int
    BY <1>1, <1>2, SMTT(30)
  <2> QED
    BY <2>1, <1>1, <1>4, <1>5, <1>6, <1>7, SMTT(30)
<1>9. a <= d /\ d < b /\ d \in Int
  <2>1. o \in Int /\ METALLOC_PAGESIZE \in Nat \ {0}
    BY GeometryAssumption, SMTT(30)
  <2>2. a <= d /\ d < b
    BY <1>3, <1>8, <2>1, DivRange, Zenon
  <2>3. d \in Int
    BY <2>1, DivMod, Zenon
  <2> QED
    BY <2>2, <2>3, Zenon
<1> HIDE DEF d
<1>10. d - a \in 0 .. s.len * Ratio - 1 /\ d = FirstMetaPage(s) + (d - a)
  BY <1>3, <1>9, MetaPageFacts, SMTT(30) DEF a, b
<1> QED
  BY <1>10, Zenon DEF d

\* An entry is well formed, and that of a metaspan is not null.
LEMMA EntryFacts ==
  ASSUME NEW m \in Nat, NEW i \in Nat, NEW g \in Nat \ {0}
  PROVE  /\ EntryAt(m, i, g) \in Entry
         /\ m # 0 => EntryAt(m, i, g).meta # 0
         /\ EntryAt(m, 0, g).meta = m
<1>1. i * METALLOC_PAGESIZE \in Nat /\ METADATABYTES \in Nat
  BY GeometryAssumption, MulNat, Zenon
<1>2. (i * METALLOC_PAGESIZE) \div g \in Nat
  BY <1>1, DivNat, Zenon
<1>3. ((i * METALLOC_PAGESIZE) \div g) * METADATABYTES \in Nat
  BY <1>1, <1>2, MulNat, Zenon
<1>4. (0 * METALLOC_PAGESIZE) \div g = 0
  <2>1. 0 * METALLOC_PAGESIZE = 0 * g
    BY GeometryAssumption, SMTT(30)
  <2>2. (0 * g) \div g = 0
    BY DivProduct, SMTT(30)
  <2> QED
    BY <2>1, <2>2, Zenon
<1>5. ((0 * METALLOC_PAGESIZE) \div g) * METADATABYTES = 0
  BY <1>4, GeometryAssumption, SMTT(30)
<1> QED
  BY <1>3, <1>5, SMTT(30) DEF EntryAt, Entry

\* set_metapagetable_entries writes the entries of its span and no other.
LEMMA SetEntriesFacts ==
  ASSUME NEW s \in Span, LastPage(s) <= NPages,
         NEW m \in Nat, NEW g \in Nat \ {0},
         pageTable \in [MetaPage -> Entry]
  PROVE  /\ set_metapagetable_entries(s, m, g) \in [MetaPage -> Entry]
         /\ \A i \in 0 .. s.len * Ratio - 1 :
              set_metapagetable_entries(s, m, g)[FirstMetaPage(s) + i]
                = EntryAt(m, i, g)
         /\ \A t \in Span, i \in Nat :
              /\ Apart(s, t) /\ LastPage(t) <= NPages
              /\ i \in 0 .. t.len * Ratio - 1
              => set_metapagetable_entries(s, m, g)[FirstMetaPage(t) + i]
                   = pageTable[FirstMetaPage(t) + i]
<1> DEFINE T == set_metapagetable_entries(s, m, g)
           a == FirstMetaPage(s)
           n == s.len * Ratio
<1>1. a \in Nat /\ n \in Nat
  BY MetaPageFacts, Zenon
<1>2. \A k \in MetaPage : k \in a .. a + n - 1 => k - a \in Nat
  BY <1>1, SMTT(30)
<1>3. T \in [MetaPage -> Entry]
  BY <1>2, EntryFacts, Zenon DEF set_metapagetable_entries
<1> DEFINE N == (NPages + 1) * Ratio
<1>n. N \in Int /\ a + n <= N
  BY MetaPageFacts, RatioFacts, NPagesAssumption, SMTT(30)
<1>m. MetaPage = 0 .. N - 1
  BY Zenon DEF MetaPage
<1>t. \A k \in MetaPage :
        T[k] = IF k \in a .. a + n - 1 THEN EntryAt(m, k - a, g)
               ELSE pageTable[k]
  BY Zenon DEF set_metapagetable_entries
<1> HIDE DEF T, a, n, N
<1>4. ASSUME NEW i \in 0 .. n - 1
      PROVE  T[a + i] = EntryAt(m, i, g)
  <2> DEFINE k == a + i
  <2>1. k \in 0 .. N - 1 /\ k \in a .. a + n - 1 /\ k - a = i
    BY <1>1, <1>n, SMTT(30)
  <2> HIDE DEF k
  <2>2. T[k] = EntryAt(m, k - a, g)
    BY <2>1, <1>m, <1>t, Zenon
  <2> QED
    BY <2>1, <2>2, Zenon DEF k
<1>5. ASSUME NEW t \in Span, NEW i \in Nat, Apart(s, t), LastPage(t) <= NPages,
             i \in 0 .. t.len * Ratio - 1
      PROVE  T[FirstMetaPage(t) + i] = pageTable[FirstMetaPage(t) + i]
  <2> DEFINE b == FirstMetaPage(t)
             l == t.len * Ratio
  <2>1. b \in Nat /\ l \in Nat /\ b + l <= N /\ (a + n <= b \/ b + l <= a)
    BY <1>5, MetaPageFacts, MetaPagesApart, Zenon DEF N, a, n
  <2>2. i \in 0 .. l - 1
    BY <1>5, Zenon
  <2> HIDE DEF b, l
  <2>3. b + i \in 0 .. N - 1 /\ b + i \notin a .. a + n - 1
    BY <1>1, <1>n, <2>1, <2>2, SMTT(30)
  <2>4. T[b + i] = pageTable[b + i]
    BY <2>3, <1>m, <1>t, Zenon
  <2> QED
    BY <2>4, Zenon DEF b
<1> QED
  BY <1>3, <1>4, <1>5, Zenon DEF T, a, n

\* The page map finds an allocated span at the pages it knows of it.
LEMMA DescriptorUnique ==
  ASSUME TypeOK, AllocDisjoint, NEW s \in alloc, NEW p, IsSpanAt(s, p)
  PROVE  GetDescriptor(p) = s
<1>1. ASSUME NEW t \in alloc, IsSpanAt(t, p)
      PROVE  t = s
  <2>1. s \in Span /\ t \in Span
    BY Zenon DEF TypeOK
  <2>2. p \in PagesOf(s) /\ p \in PagesOf(t)
    BY <1>1, <2>1, SpanFacts, Zenon DEF IsSpanAt
  <2> QED
    BY <2>1, <2>2, ApartPages, Zenon DEF AllocDisjoint
<1> QED
  BY <1>1, Zenon DEF GetDescriptor

\* CacheSizeClass of the pages from first to last leaves other pages with the
\* class they had or with none, and its own pages with the new class or none.
LEMMA CacheFacts ==
  ASSUME TypeOK, NEW first \in Page, NEW last \in Page, NEW c,
         NEW x \in Nat, first <= last,
         cache' = CacheSizeClass(first, last, c)
  PROVE  /\ x \notin first .. last =>
              GetSizeClassIfCached(x)' \in {0, GetSizeClassIfCached(x)}
         /\ x \in first .. last => GetSizeClassIfCached(x)' \in {0, c}
<1> DEFINE k == x % CacheSlots
           p == last - ((last - k) % CacheSlots)
<1>1. k \in 0 .. CacheSlots - 1
  BY GeometryAssumption, DivMod, SMTT(30)
<1>2. cache'[k] = IF p >= first THEN [page |-> p, cl |-> c] ELSE cache[k]
  BY <1>1, Zenon DEF CacheSizeClass
<1>3. first \in Int /\ last \in Int /\ first <= last
  BY NPagesAssumption, SMTT(30) DEF Page
<1>4. p \in Int /\ p <= last
  <2>1. last - k \in Int
    BY <1>1, <1>3, GeometryAssumption, SMTT(30)
  <2>2. (last - k) % CacheSlots \in 0 .. CacheSlots - 1
    BY <2>1, GeometryAssumption, DivMod, Zenon
  <2> QED
    BY <1>3, <2>2, GeometryAssumption, SMTT(30)
<1>5. x \in first .. last => p >= x
  BY <1>3, GeometryAssumption, SlotKeepsLast, SMTT(30)
<1>6. GetSizeClassIfCached(x)' = IF cache'[k].page = x THEN cache'[k].cl ELSE 0
  BY Zenon DEF GetSizeClassIfCached
<1>7. GetSizeClassIfCached(x) = IF cache[k].page = x THEN cache[k].cl ELSE 0
  BY Zenon DEF GetSizeClassIfCached
<1> HIDE DEF k, p
<1>8. CASE p >= first
  <2>1. cache'[k] = [page |-> p, cl |-> c]
    BY <1>2, <1>8, Zenon
  <2>2. cache'[k].page = p /\ cache'[k].cl = c
    BY <2>1, SMTT(30)
  <2>3. p \in first .. last
    BY <1>3, <1>4, <1>8, SMTT(30)
  <2> QED
    BY <1>6, <2>2, <2>3, Zenon
<1>9. CASE ~ (p >= first)
  <2>1. x \notin first .. last
    BY <1>3, <1>4, <1>5, <1>9, SMTT(30)
  <2>2. cache'[k] = cache[k]
    BY <1>2, <1>9, Zenon
  <2> QED
    BY <1>6, <1>7, <2>1, <2>2, Zenon
<1> QED
  BY <1>8, <1>9, Zenon

-----------------------------------------------------------------------------
(* Objects and their spans.                                                *)

LEMMA PairFacts ==
  ASSUME TypeOK, AllocDisjoint, EntriesNameOwnMetaspan, NEW p \in pairs
  PROVE  /\ p.data \in Span /\ p.meta \in Span
         /\ p.data \in alloc /\ p.meta \in alloc /\ p.data # p.meta
         /\ LastPage(p.data) <= NPages
         /\ p.data.start \in 0 .. NPages
         /\ sizeclass[p.data.start] \in Classes \cup {0}
<1>1. p.data \in alloc /\ p.meta \in alloc /\ p.data # p.meta
  BY Zenon DEF EntriesNameOwnMetaspan
<1>2. p.data \in Span /\ p.meta \in Span
  BY <1>1, Zenon DEF TypeOK
<1>3. p.data.start \in 0 .. NPages
  BY <1>2, SpanFacts, NPagesAssumption, SMTT(30)
<1> QED
  BY <1>1, <1>2, <1>3, Zenon DEF TypeOK, AllocDisjoint

LEMMA HomeFacts ==
  ASSUME TypeOK, AllocDisjoint, EntriesNameOwnMetaspan,
         NEW o, NEW p \in pairs, Home(o, p)
  PROVE  /\ o \in Nat
         /\ PageOf(o) \in PagesOf(p.data)
         /\ sizeclass[p.data.start] = 0 => PageOf(o) = p.data.start
         /\ GetDescriptor(PageOf(o)) = p.data
<1>1. CASE sizeclass[p.data.start] = 0
  <2>1. o = BaseOf(p.data)
    BY <1>1, Zenon DEF Home
  <2>2. PageOf(o) = p.data.start
    BY <2>1, PairFacts, BaseFacts, Zenon
  <2>3. IsSpanAt(p.data, PageOf(o))
    BY <2>2, Zenon DEF IsSpanAt
  <2> QED
    BY <2>1, <2>2, <2>3, PairFacts, BaseFacts, SpanFacts, DescriptorUnique, Zenon
<1>2. CASE sizeclass[p.data.start] # 0
  <2>1. o \in ObjectsOf(p.data, sizeclass[p.data.start])
    BY <1>2, Zenon DEF Home
  <2>2. o \in Nat /\ PageOf(o) \in PagesOf(p.data)
    BY <1>2, <2>1, PairFacts, ObjectsOfFacts, Zenon
  <2>3. IsSpanAt(p.data, PageOf(o))
    BY <1>2, <2>2, Zenon DEF IsSpanAt
  <2> QED
    BY <1>2, <2>2, <2>3, PairFacts, DescriptorUnique, Zenon
<1> QED
  BY <1>1, <1>2, Zenon

\* Two pairs whose spans share a page are one pair.
LEMMA PairOfPage ==
  ASSUME TypeOK, AllocDisjoint, EntriesNameOwnMetaspan,
         NEW p \in pairs, NEW q \in pairs, NEW x,
         x \in PagesOf(p.data), x \in PagesOf(q.data)
  PROVE  p = q
<1>1. p.data = q.data
  BY PairFacts, ApartPages, Zenon DEF AllocDisjoint
<1> QED
  BY <1>1, Zenon DEF EntriesNameOwnMetaspan

\* No object lies in the pages of a span that a thread holds, or in free pages.
LEMMA NoObjectInHeld ==
  ASSUME IInv, NEW t \in Threads, pc[t] \in Holding,
         NEW o, PageOf(o) \in PagesOf(sp[t])
  PROVE  o \notin Objects
<1> SUFFICES ASSUME o \in Objects PROVE FALSE
  OBVIOUS
<1> USE DEF IInv
<1>1. PICK p \in pairs : Home(o, p)
  BY Zenon DEF HomeInv
<1>2. PICK q \in pairs : q.data = sp[t]
  BY Zenon DEF HoldInv
<1>3. p = q
  BY <1>1, <1>2, HomeFacts, PairOfPage, Zenon
<1> QED
  BY <1>1, <1>2, <1>3, Zenon DEF Home

LEMMA NoObjectInFree ==
  ASSUME IInv, NEW d \in Span, \A s \in alloc : Apart(d, s),
         NEW o, PageOf(o) \in PagesOf(d)
  PROVE  o \notin Objects
<1> SUFFICES ASSUME o \in Objects PROVE FALSE
  OBVIOUS
<1> USE DEF IInv
<1>1. PICK p \in pairs : Home(o, p)
  BY Zenon DEF HomeInv
<1> QED
  BY <1>1, HomeFacts, PairFacts, ApartPages, Zenon

-----------------------------------------------------------------------------
(* The page heap below.                                                    *)

\* A free run is a span of the wanted length inside the heap, apart from every
\* allocated span.
LEMMA FreeRunFacts ==
  ASSUME NEW A, NEW n, NEW s \in FreeRuns(A, n)
  PROVE  /\ s \in Span
         /\ s.len = n
         /\ LastPage(s) <= NPages
         /\ \A t \in A : Apart(s, t)
  BY Zenon DEF FreeRuns

\* Allocated spans are spans.
AllocTypeOK == alloc \subseteq Span

\* PageHeap::New, Delete and Split, in any order and for a heap of any size,
\* never leave one page in two allocated spans.
THEOREM AllocSafety == AllocSpec => [](AllocTypeOK /\ AllocDisjoint)
<1>1. AllocInit => AllocTypeOK /\ AllocDisjoint
  BY Zenon DEF AllocInit, AllocTypeOK, AllocDisjoint
<1>2. AllocTypeOK /\ AllocDisjoint /\ [AllocNext]_alloc
        => AllocTypeOK' /\ AllocDisjoint'
  <2> SUFFICES ASSUME AllocTypeOK, AllocDisjoint, [AllocNext]_alloc
               PROVE  AllocTypeOK' /\ AllocDisjoint'
    OBVIOUS
  <2>1. CASE \E n \in Page : New(n)
    <3> PICK n \in Page : New(n)
      BY <2>1, Zenon
    <3> PICK s \in FreeRuns(alloc, n) : alloc' = alloc \cup {s}
      BY Zenon DEF New
    <3>1. s \in Span /\ LastPage(s) <= NPages /\ \A t \in alloc : Apart(s, t)
      BY FreeRunFacts, Zenon
    <3> QED
      BY <3>1, Zenon DEF AllocTypeOK, AllocDisjoint, Apart
  <2>2. CASE \E s \in alloc : Delete(s)
    BY <2>2, Zenon DEF Delete, AllocTypeOK, AllocDisjoint
  <2>3. CASE \E s \in alloc, n \in Page : Split(s, n)
    <3> PICK s \in alloc, n \in Page : Split(s, n)
      BY <2>3, Zenon
    <3> DEFINE l == [start |-> s.start, len |-> n]
               r == [start |-> s.start + n, len |-> s.len - n]
    <3>1. s \in Span /\ LastPage(s) <= NPages /\ n < s.len
      BY Zenon DEF AllocTypeOK, AllocDisjoint, Split
    <3>2. /\ l \in Span /\ l.start = s.start /\ l.len = n
          /\ r \in Span /\ r.start = s.start + n /\ r.len = s.len - n
      BY <3>1, NPagesAssumption, SMTT(30) DEF Span, Page, LastPage
    <3>3. Apart(l, r) /\ Apart(r, l)
      BY <3>1, <3>2, SMTT(30) DEF Apart, LastPage, Span, Page
    <3>4. \A t \in alloc \ {s} : /\ Apart(l, t) /\ Apart(t, l)
                                 /\ Apart(r, t) /\ Apart(t, r)
      BY <3>1, <3>2, SMTT(30) DEF Apart, LastPage, Span, Page, AllocDisjoint, AllocTypeOK
    <3>5. LastPage(l) <= NPages /\ LastPage(r) <= NPages
      BY <3>1, <3>2, NPagesAssumption, SMTT(30) DEF LastPage, Span, Page
    <3>6. alloc' = (alloc \ {s}) \cup {l, r}
      BY Zenon DEF Split
    <3> HIDE DEF l, r
    <3> QED
      BY <3>2, <3>3, <3>4, <3>5, <3>6, Zenon DEF AllocTypeOK, AllocDisjoint
  <2>4. CASE UNCHANGED alloc
    BY <2>4, Zenon DEF AllocTypeOK, AllocDisjoint
  <2> QED
    BY <2>1, <2>2, <2>3, <2>4, Zenon DEF AllocNext
<1> QED
  BY <1>1, <1>2, PTL DEF AllocSpec

-----------------------------------------------------------------------------
(* The steps that allocate a span with its metaspan or give both back.     *)

(* The two steps under pageheap_lock.                                      *)

\* What allocating a span together with its metaspan does.
LEMMA PairStep ==
  ASSUME GranulesPositive, IInv,
         NEW d \in Span, LastPage(d) <= NPages, \A s \in alloc : Apart(d, s),
         NEW c \in Classes \cup {0}, NEW m \in MetaRuns(d, c), Pair(d, m, c)
  PROVE  /\ alloc' \subseteq Span
         /\ pageTable' \in [MetaPage -> Entry]
         /\ sizeclass' \in [0 .. NPages -> Classes \cup {0}]
         /\ pairs' \subseteq [data : Span, meta : Span]
         /\ AllocDisjoint'
         /\ EntriesNameOwnMetaspan'
         /\ pairs' = pairs \cup {[data |-> d, meta |-> m]}
         /\ sizeclass'[d.start] = c
         /\ \A p \in pairs : /\ p.data # d
                             /\ PagesOf(p.data) \cap PagesOf(d) = {}
                             /\ sizeclass'[p.data.start] = sizeclass[p.data.start]
<1> USE DEF IInv
<1> DEFINE new == [data |-> d, meta |-> m]
           g == GranuleOf(c)
<1>1. /\ m \in Span /\ LastPage(m) <= NPages
      /\ \A s \in alloc \cup {d} : Apart(m, s)
  BY Zenon DEF MetaRuns, FreeRuns
<1>2. alloc' = alloc \cup {d, m} /\ alloc' \subseteq Span
  BY <1>1, Zenon DEF Pair, TypeOK
<1>3. d # m /\ d \notin alloc /\ m \notin alloc
  BY <1>1, SpanFacts, SMTT(30) DEF Apart
<1>4. AllocDisjoint'
  BY <1>1, <1>2, Zenon DEF AllocDisjoint, Apart
<1>5. pairs' = pairs \cup {new} /\ new.data = d /\ new.meta = m
  BY Zenon DEF Pair
<1>6. \A p \in pairs : /\ p.data # d /\ p.meta # d /\ p.data # m /\ p.meta # m
                       /\ p.data.start # d.start
                       /\ PagesOf(p.data) \cap PagesOf(d) = {}
  BY <1>3, PairFacts, SpanFacts, ApartPages, SMTT(30)
<1>7. d.start \in 0 .. NPages
  BY SpanFacts, NPagesAssumption, SMTT(30)
<1>8. /\ sizeclass' = [sizeclass EXCEPT ![d.start] = c]
      /\ sizeclass' \in [0 .. NPages -> Classes \cup {0}]
      /\ sizeclass'[d.start] = c
      /\ \A p \in pairs : sizeclass'[p.data.start] = sizeclass[p.data.start]
  BY <1>6, <1>7, PairFacts, Zenon DEF Pair, TypeOK
<1>9. g \in Nat \ {0} /\ BaseOf(m) \in Nat
  BY <1>1, BaseFacts, Zenon DEF GranulesPositive
<1>10. pageTable' = set_metapagetable_entries(d, BaseOf(m), g)
  BY Zenon DEF Pair
<1>11. pageTable \in [MetaPage -> Entry]
  BY Zenon DEF TypeOK
<1>12. /\ pageTable' \in [MetaPage -> Entry]
       /\ \A i \in 0 .. d.len * Ratio - 1 :
            pageTable'[FirstMetaPage(d) + i] = EntryAt(BaseOf(m), i, g)
       /\ \A t \in Span, i \in Nat :
            /\ Apart(d, t) /\ LastPage(t) <= NPages
            /\ i \in 0 .. t.len * Ratio - 1
            => pageTable'[FirstMetaPage(t) + i] = pageTable[FirstMetaPage(t) + i]
  BY <1>9, <1>10, <1>11, SetEntriesFacts, SMTT(30)
<1>13. EntriesNameOwnMetaspan'
  <2>1. ASSUME NEW p \in pairs'
        PROVE  /\ p.data \in alloc' /\ p.meta \in alloc'
               /\ \A i \in 0 .. p.data.len * Ratio - 1 :
                    pageTable'[FirstMetaPage(p.data) + i] =
                      EntryAt(BaseOf(p.meta), i,
                              GranuleOf(sizeclass'[p.data.start]))
    <3>1. CASE p = new
      BY <3>1, <1>2, <1>5, <1>8, <1>12, Zenon
    <3>2. CASE p \in pairs
      <4>1. p.data \in alloc' /\ p.meta \in alloc'
        BY <3>2, <1>2, PairFacts, Zenon
      <4>2. \A i \in 0 .. p.data.len * Ratio - 1 :
              /\ i \in Nat
              /\ pageTable'[FirstMetaPage(p.data) + i]
                   = pageTable[FirstMetaPage(p.data) + i]
        BY <3>2, <1>12, PairFacts, SMTT(30)
      <4> QED
        BY <3>2, <4>1, <4>2, <1>8, Zenon DEF EntriesNameOwnMetaspan
    <3> QED
      BY <3>1, <3>2, <1>5, Zenon
  <2>2. ASSUME NEW p \in pairs', NEW q \in pairs'
        PROVE  /\ p.data # q.meta
               /\ p # q => p.data # q.data /\ p.meta # q.meta
    BY <1>3, <1>5, <1>6, Zenon DEF EntriesNameOwnMetaspan
  <2> QED
    BY <2>1, <2>2, Zenon DEF EntriesNameOwnMetaspan, EntryAt, GranuleOf, BaseOf,
       FirstMetaPage
<1>14. pairs' \subseteq [data : Span, meta : Span]
  BY <1>1, <1>5, Zenon DEF TypeOK
<1> QED
  BY <1>2, <1>4, <1>5, <1>6, <1>8, <1>12, <1>13, <1>14, Zenon

\* What giving a held span back does: the entry of the span leads to the span's
\* own metaspan, so both calls of PageHeap::Delete meet their requirement.
LEMMA UnpairStep ==
  ASSUME GranulesPositive, IInv,
         NEW t \in Threads, pc[t] \in Holding, Unpair(t, sp[t])
  PROVE  /\ fault' = fault
         /\ alloc' \subseteq Span
         /\ pageTable' \in [MetaPage -> Entry]
         /\ sizeclass' \in [0 .. NPages -> Classes \cup {0}]
         /\ pairs' \subseteq [data : Span, meta : Span]
         /\ AllocDisjoint'
         /\ EntriesNameOwnMetaspan'
         /\ \A p \in pairs : p.data # sp[t] => p \in pairs'
         /\ \A p \in pairs' :
              /\ p \in pairs /\ p.data # sp[t]
              /\ sizeclass'[p.data.start] = sizeclass[p.data.start]
<1> USE DEF IInv
<1> DEFINE d == sp[t]
<1>1. PICK r \in pairs : r.data = d
  BY Zenon DEF HoldInv
<1> DEFINE m == r.meta
<1>2. /\ d \in Span /\ m \in Span /\ d \in alloc /\ m \in alloc /\ d # m
      /\ LastPage(d) <= NPages
  BY <1>1, PairFacts, Zenon
<1>3. GetDescriptor(PageOf(get_metapagetable_entry(pageTable, BaseOf(d)).meta)) = m
  <2>1. 0 \in 0 .. d.len * Ratio - 1 /\ FirstMetaPage(d) + 0 = FirstMetaPage(d)
    BY <1>2, MetaPageFacts, SMTT(30)
  <2>2. pageTable[FirstMetaPage(d)]
          = EntryAt(BaseOf(m), 0, GranuleOf(sizeclass[d.start]))
    BY <1>1, <2>1, Zenon DEF EntriesNameOwnMetaspan
  <2>3. get_metapagetable_entry(pageTable, BaseOf(d)).meta = BaseOf(m)
    BY <1>1, <1>2, <2>2, BaseEntry, EntryFacts, BaseFacts, PairFacts, SMTT(30)
       DEF GranulesPositive, get_metapagetable_entry
  <2>4. PageOf(BaseOf(m)) = m.start
    BY <1>2, BaseFacts, Zenon
  <2>5. IsSpanAt(m, m.start)
    BY Zenon DEF IsSpanAt
  <2> QED
    BY <1>2, <2>3, <2>4, <2>5, DescriptorUnique, Zenon
<1>4. /\ pageTable' = set_metapagetable_entries(d, 0, 1)
      /\ alloc' = alloc \ {m, d}
      /\ sizeclass' = [sizeclass EXCEPT ![m.start] = 0, ![d.start] = 0]
      /\ pairs' = {p \in pairs : p.data # d}
      /\ fault' = fault
  BY <1>2, <1>3, Zenon DEF Unpair
<1> HIDE DEF d, m
<1>5. /\ alloc' \subseteq Span /\ AllocDisjoint'
      /\ pairs' \subseteq [data : Span, meta : Span]
  BY <1>4, Zenon DEF TypeOK, AllocDisjoint
<1>6. \A p \in pairs' : p \in pairs /\ p # r /\ p.data # d /\ p.meta # d
                        /\ p.data # m /\ p.meta # m
  BY <1>1, <1>4, Zenon DEF EntriesNameOwnMetaspan, m
<1>7. \A p \in pairs' : /\ p.data \in Span /\ LastPage(p.data) <= NPages
                        /\ Apart(d, p.data) /\ Apart(m, p.data)
                        /\ p.data \in alloc' /\ p.meta \in alloc'
  BY <1>2, <1>4, <1>6, PairFacts, Zenon DEF AllocDisjoint
<1>8. d.start \in 0 .. NPages /\ m.start \in 0 .. NPages
  BY <1>2, SpanFacts, NPagesAssumption, SMTT(30)
<1>9. sizeclass' \in [0 .. NPages -> Classes \cup {0}]
  BY <1>4, <1>8, SMTT(30) DEF TypeOK
<1>10. \A p \in pairs' : /\ p.data.start # d.start /\ p.data.start # m.start
                         /\ p.data.start \in 0 .. NPages
  BY <1>2, <1>6, <1>7, SpanFacts, PairFacts, SMTT(30) DEF Apart
<1>11. \A p \in pairs' : sizeclass'[p.data.start] = sizeclass[p.data.start]
  BY <1>4, <1>8, <1>10, Zenon DEF TypeOK
<1>12. pageTable \in [MetaPage -> Entry]
  BY Zenon DEF TypeOK
<1>13. /\ pageTable' \in [MetaPage -> Entry]
       /\ \A u \in Span, i \in Nat :
            /\ Apart(d, u) /\ LastPage(u) <= NPages
            /\ i \in 0 .. u.len * Ratio - 1
            => pageTable'[FirstMetaPage(u) + i] = pageTable[FirstMetaPage(u) + i]
  BY <1>2, <1>4, <1>12, SetEntriesFacts, SMTT(30)
<1>14. EntriesNameOwnMetaspan'
  <2>1. ASSUME NEW p \in pairs'
        PROVE  /\ p.data \in alloc' /\ p.meta \in alloc'
               /\ \A i \in 0 .. p.data.len * Ratio - 1 :
                    pageTable'[FirstMetaPage(p.data) + i] =
                      EntryAt(BaseOf(p.meta), i,
                              GranuleOf(sizeclass'[p.data.start]))
    <3>1. \A i \in 0 .. p.data.len * Ratio - 1 :
            /\ i \in Nat
            /\ pageTable'[FirstMetaPage(p.data) + i]
                 = pageTable[FirstMetaPage(p.data) + i]
      BY <1>7, <1>13, SMTT(30)
    <3> QED
      BY <3>1, <1>6, <1>7, <1>11, Zenon DEF EntriesNameOwnMetaspan
  <2>2. ASSUME NEW p \in pairs', NEW q \in pairs'
        PROVE  /\ p.data # q.meta
               /\ p # q => p.data # q.data /\ p.meta # q.meta
    BY <1>6, Zenon DEF EntriesNameOwnMetaspan
  <2> QED
    BY <2>1, <2>2, Zenon DEF EntriesNameOwnMetaspan, EntryAt, GranuleOf, BaseOf,
       FirstMetaPage
<1> QED
  BY <1>4, <1>5, <1>6, <1>9, <1>11, <1>13, <1>14, Zenon DEF d

-----------------------------------------------------------------------------
(* One lemma per action.                                                   *)

LEMMA CacheType ==
  ASSUME TypeOK, NEW first \in Page, NEW last \in Page, first <= last,
         NEW c \in Classes \cup {0}
  PROVE  CacheSizeClass(first, last, c) \in
           [0 .. CacheSlots - 1 -> [page : 0 .. NPages, cl : Classes \cup {0}]]
<1> SUFFICES ASSUME NEW k \in 0 .. CacheSlots - 1,
                    last - ((last - k) % CacheSlots) >= first
             PROVE  last - ((last - k) % CacheSlots) \in 0 .. NPages
  BY Zenon DEF CacheSizeClass, TypeOK
<1> DEFINE x == last - k
<1>1. first \in 1 .. NPages /\ last \in 1 .. NPages /\ NPages \in Nat
  BY NPagesAssumption, Zenon DEF Page
<1>2. x \in Int
  BY <1>1, GeometryAssumption, SMTT(30)
<1> HIDE DEF x
<1>3. x % CacheSlots \in 0 .. CacheSlots - 1
  BY <1>2, GeometryAssumption, DivMod, Zenon
<1>4. x % CacheSlots \in Nat
  BY <1>3, GeometryAssumption, SMTT(30)
<1>5. last - (x % CacheSlots) >= first => last - (x % CacheSlots) \in 0 .. NPages
  BY <1>1, <1>4, SMTT(30)
<1> QED
  BY <1>5, Zenon DEF x

\* A home is kept by every step that keeps the pair, its class and the object's
\* place, and lets no thread take hold of the span.
LEMMA HomeKept ==
  ASSUME NEW o, NEW p, Home(o, p), p \in pairs',
         sizeclass'[p.data.start] = sizeclass[p.data.start],
         sizeclass[p.data.start] = 0 => o \notin inSpan' \cup cached',
         \A t \in Threads : pc'[t] \in Holding => sp'[t] # p.data
  PROVE  Home(o, p)'
  BY Zenon DEF Home, ObjectsOf, BaseOf, BytesOf

\* The part that MallocLarge and Memalign share: a span without size class, not
\* held by any thread, whose one object becomes known.
LEMMA LargeSpanStep ==
  ASSUME GranulesPositive, IInv,
         NEW d \in Span, LastPage(d) <= NPages, \A s \in alloc : Apart(d, s),
         NEW m \in MetaRuns(d, 0), Pair(d, m, 0),
         cache' = CacheSizeClass(d.start, d.start, 0),
         inSpan' = inSpan, cached' = cached,
         Objects' = Objects \cup {BaseOf(d)},
         \A u \in Threads : pc'[u] \in Holding => pc'[u] = pc[u] /\ sp'[u] = sp[u],
         \A u \in Threads : pc[u] \in Holding => pc'[u] = pc[u] /\ sp'[u] = sp[u]
  PROVE  HoldInv' /\ HomeInv' /\ CacheInv' /\ BaseOf(d) \notin Objects
<1> USE DEF IInv
<1> DEFINE new == [data |-> d, meta |-> m]
           o == BaseOf(d)
<1>1. /\ pairs' = pairs \cup {new} /\ new.data = d
      /\ sizeclass'[d.start] = 0
      /\ \A p \in pairs : /\ p.data # d
                          /\ PagesOf(p.data) \cap PagesOf(d) = {}
                          /\ sizeclass'[p.data.start] = sizeclass[p.data.start]
  BY PairStep, Zenon
<1>2. o \in Nat /\ PageOf(o) = d.start /\ d.start \in PagesOf(d)
  BY BaseFacts, SpanFacts, Zenon
<1>3. o \notin Objects
  BY <1>2, NoObjectInFree, Zenon
<1>4. \A u \in Threads : pc'[u] \in Holding => sp'[u] # d
  BY <1>1, SMTT(30) DEF HoldInv
<1>5. HoldInv'
  BY <1>1, SMTT(30) DEF HoldInv
<1>6. HomeInv'
  <2>1. Home(o, new)'
    <3>1. o \notin inSpan' \cup cached'
      BY <1>3, Zenon DEF Objects
    <3> QED
      BY <1>1, <1>4, <3>1, Zenon DEF Home, BaseOf
  <2>2. ASSUME NEW x \in Objects
        PROVE  \E p \in pairs' : Home(x, p)'
    <3>1. PICK p \in pairs : Home(x, p)
      BY Zenon DEF HomeInv
    <3>2. \A u \in Threads : pc'[u] \in Holding => sp'[u] # p.data
      BY <3>1, Zenon DEF Home
    <3>3. sizeclass[p.data.start] = 0 => x \notin inSpan' \cup cached'
      BY <3>1, Zenon DEF Home
    <3>4. Home(x, p)'
      BY <1>1, <3>1, <3>2, <3>3, HomeKept, Zenon
    <3> QED
      BY <1>1, <3>4, Zenon
  <2> QED
    BY <1>1, <2>1, <2>2, Zenon DEF HomeInv
<1>7. CacheInv'
  <2> SUFFICES ASSUME NEW p \in pairs',
                      \A u \in Threads : pc'[u] = "carve" => sp'[u] # p.data,
                      NEW x \in PagesOf(p.data),
                      sizeclass'[p.data.start] # 0 \/ x = p.data.start
               PROVE  GetSizeClassIfCached(x)' \in {0, sizeclass'[p.data.start]}
    BY Zenon DEF CacheInv, PagesOf, LastPage
  <2>1. d.start \in Page /\ d.start <= d.start
    BY SpanFacts, NPagesAssumption, SMTT(30) DEF Page
  <2>2. CASE p = new
    <3>1. x = d.start /\ x \in Nat /\ x \in d.start .. d.start
      BY <1>1, <2>2, SpanFacts, SMTT(30)
    <3> QED
      BY <1>1, <2>1, <2>2, <3>1, CacheFacts, Zenon
  <2>3. CASE p \in pairs
    <3>1. x \in Nat /\ x \notin d.start .. d.start
      BY <1>1, <1>2, <2>3, PairFacts, SpanFacts, SMTT(30)
    <3>2. GetSizeClassIfCached(x)' \in {0, GetSizeClassIfCached(x)}
      BY <2>1, <3>1, CacheFacts, Zenon
    <3>3. \A u \in Threads : pc[u] = "carve" => sp[u] # p.data
      BY Zenon DEF Holding
    <3>4. GetSizeClassIfCached(x) \in {0, sizeclass[p.data.start]}
      BY <1>1, <2>3, <3>3, Zenon DEF CacheInv
    <3> QED
      BY <1>1, <2>3, <3>2, <3>4, Zenon
  <2> QED
    BY <1>1, <2>2, <2>3, Zenon
<1> QED
  BY <1>3, <1>5, <1>6, <1>7, Zenon

LEMMA MallocLargeStep ==
  ASSUME GranulesPositive, IInv,
         NEW t \in Threads, NEW n \in LargeLens, MallocLarge(t, n)
  PROVE  IInv'
<1>1. PICK d \in FreeRuns(alloc, n) : \E m \in MetaRuns(d, 0) :
         /\ Pair(d, m, 0)
         /\ cache' = CacheSizeClass(d.start, d.start, 0)
         /\ Goto(t, "reset", BaseOf(d), NoSpan)
  BY Zenon DEF MallocLarge
<1>2. PICK m \in MetaRuns(d, 0) :
         /\ Pair(d, m, 0)
         /\ cache' = CacheSizeClass(d.start, d.start, 0)
         /\ Goto(t, "reset", BaseOf(d), NoSpan)
  BY <1>1, Zenon
<1>3. d \in Span /\ LastPage(d) <= NPages /\ \A s \in alloc : Apart(d, s)
  BY Zenon DEF FreeRuns
<1>4. /\ pc[t] = "idle" /\ words' = words /\ inSpan' = inSpan
      /\ cached' = cached /\ live' = live /\ fault' = fault
  BY Zenon DEF MallocLarge
<1>5. /\ pc' = [pc EXCEPT ![t] = "reset"]
      /\ ob' = [ob EXCEPT ![t] = BaseOf(d)]
      /\ sp' = [sp EXCEPT ![t] = NoSpan]
  BY <1>2, Zenon DEF Goto
<1>6. TypeOK
  BY Zenon DEF IInv
<1>7. /\ pc \in [Threads -> PCs] /\ ob \in [Threads -> Nat]
      /\ sp \in [Threads -> Span \cup {NoSpan}]
  BY <1>6, Zenon DEF TypeOK
<1>8. /\ \A u \in Threads : pc'[u] \in Holding => pc'[u] = pc[u] /\ sp'[u] = sp[u]
      /\ \A u \in Threads : pc[u] \in Holding => pc'[u] = pc[u] /\ sp'[u] = sp[u]
  BY <1>4, <1>5, <1>7, Zenon DEF Holding
<1>9. Objects' = Objects \cup {BaseOf(d)}
  BY <1>4, <1>5, <1>7, Zenon DEF Objects
<1>10. HoldInv' /\ HomeInv' /\ CacheInv' /\ BaseOf(d) \notin Objects
  BY <1>2, <1>3, <1>4, <1>8, <1>9, LargeSpanStep, Zenon
<1>11. PlaceInv'
  BY <1>4, <1>5, <1>7, <1>10, Zenon DEF PlaceInv, Objects, IInv
<1>12. TypeOK' /\ AllocDisjoint' /\ EntriesNameOwnMetaspan'
  <2>1. /\ alloc' \subseteq Span
        /\ pageTable' \in [MetaPage -> Entry]
        /\ sizeclass' \in [0 .. NPages -> Classes \cup {0}]
        /\ pairs' \subseteq [data : Span, meta : Span]
        /\ AllocDisjoint' /\ EntriesNameOwnMetaspan'
    BY <1>2, <1>3, PairStep, Zenon
  <2>2. d.start \in Page /\ d.start <= d.start /\ BaseOf(d) \in Nat
    BY <1>3, SpanFacts, BaseFacts, NPagesAssumption, SMTT(30) DEF Page
  <2>3. cache' \in [0 .. CacheSlots - 1 ->
                      [page : 0 .. NPages, cl : Classes \cup {0}]]
    BY <1>2, <1>6, <2>2, CacheType, Zenon
  <2>4. /\ pc' \in [Threads -> PCs] /\ ob' \in [Threads -> Nat]
        /\ sp' \in [Threads -> Span \cup {NoSpan}]
    BY <1>5, <1>7, <2>2, Zenon DEF PCs
  <2> QED
    BY <1>4, <1>6, <2>1, <2>3, <2>4, Zenon DEF TypeOK
<1>13. NoFault'
  BY <1>4, Zenon DEF NoFault, IInv
<1> QED
  BY <1>10, <1>11, <1>12, <1>13, Zenon DEF IInv

\* The pages skipped to reach the next aligned page.
LEMMA SkipFacts ==
  ASSUME NEW s \in Int, NEW a \in Nat \ {0}
  PROVE  (a - (s % a)) % a \in 0 .. a - 1
<1> DEFINE x == a - (s % a)
<1>1. s % a \in 0 .. a - 1
  BY DivMod, Zenon
<1>2. x \in Int
  BY <1>1, SMTT(30)
<1> HIDE DEF x
<1>3. x % a \in 0 .. a - 1
  BY <1>2, DivMod, Zenon
<1> QED
  BY <1>3, Zenon DEF x

\* The aligned part of a run lies in the run.
LEMMA AlignedPartFacts ==
  ASSUME NEW n \in Nat \ {0}, NEW a \in Nat \ {0},
         NEW r \in FreeRuns(alloc, IF a = 1 THEN n ELSE n + a),
         alloc \subseteq Span
  PROVE  LET d == AlignedPart(r, n, a)
         IN  /\ d \in Span /\ LastPage(d) <= NPages
             /\ \A s \in alloc : Apart(d, s)
<1> DEFINE d == AlignedPart(r, n, a)
           skip == (a - (r.start % a)) % a
<1>1. /\ r \in Span /\ LastPage(r) <= NPages /\ \A s \in alloc : Apart(r, s)
      /\ r.len = IF a = 1 THEN n ELSE n + a
  BY Zenon DEF FreeRuns
<1>2. r.start \in Nat \ {0} /\ r.len \in Nat /\ LastPage(r) = r.start + r.len - 1
  BY <1>1, SpanFacts, Zenon
<1>5. skip \in 0 .. a - 1
  BY <1>2, SkipFacts, SMTT(30)
<1>6. d = [start |-> r.start + skip, len |-> n]
  BY Zenon DEF AlignedPart
<1> HIDE DEF d, skip
<1>7. d.start = r.start + skip /\ d.len = n
  BY <1>6, Zenon
<1>8. skip + n <= r.len /\ skip \in Nat
  BY <1>1, <1>2, <1>5, SMTT(30)
<1>9. /\ LastPage(d) = d.start + n - 1
      /\ r.start <= d.start /\ LastPage(d) <= LastPage(r)
  BY <1>2, <1>7, <1>8, SMTT(30) DEF LastPage
<1>10. d \in Span
  BY <1>1, <1>2, <1>6, <1>8, NPagesAssumption, SMTT(30) DEF Span, Page
<1>11. LastPage(d) <= NPages
  BY <1>1, <1>2, <1>9, <1>10, SpanFacts, NPagesAssumption, SMTT(30)
<1>12. ASSUME NEW s \in alloc PROVE Apart(d, s)
  BY <1>1, <1>2, <1>9, <1>10, SpanFacts, SMTT(30) DEF Apart
<1> QED
  BY <1>10, <1>11, <1>12, Zenon DEF d

LEMMA MemalignStep ==
  ASSUME GranulesPositive, IInv,
         NEW t \in Threads, NEW n \in LargeLens, NEW a \in Aligns,
         Memalign(t, n, a)
  PROVE  IInv'
<1>1. TypeOK /\ n \in Nat \ {0} /\ a \in Nat \ {0} /\ alloc \subseteq Span
  BY RequestAssumption, Zenon DEF IInv, TypeOK
<1>2. PICK r \in FreeRuns(alloc, IF a = 1 THEN n ELSE n + a) :
         \E m \in MetaRuns(AlignedPart(r, n, a), 0) :
           /\ Pair(AlignedPart(r, n, a), m, 0)
           /\ live' = Extend(live, BaseOf(AlignedPart(r, n, a)), 0)
           /\ cache' = CacheSizeClass(AlignedPart(r, n, a).start,
                                      AlignedPart(r, n, a).start, 0)
  BY Zenon DEF Memalign
<1> DEFINE d == AlignedPart(r, n, a)
<1>3. d \in Span /\ LastPage(d) <= NPages /\ \A s \in alloc : Apart(d, s)
  BY <1>1, AlignedPartFacts, Zenon
<1> HIDE DEF d
<1>4. PICK m \in MetaRuns(d, 0) :
         /\ Pair(d, m, 0)
         /\ live' = Extend(live, BaseOf(d), 0)
         /\ cache' = CacheSizeClass(d.start, d.start, 0)
  BY <1>2, Zenon DEF d
<1>5. /\ inSpan' = inSpan /\ cached' = cached
      /\ pc' = pc /\ ob' = ob /\ sp' = sp /\ fault' = fault
  BY Zenon DEF Memalign
<1>6. DOMAIN live' = DOMAIN live \cup {BaseOf(d)}
  BY <1>4, Zenon DEF Extend
<1>7. Objects' = Objects \cup {BaseOf(d)}
  BY <1>5, <1>6, Zenon DEF Objects
<1>8. HoldInv' /\ HomeInv' /\ CacheInv' /\ BaseOf(d) \notin Objects
  BY <1>3, <1>4, <1>5, <1>7, LargeSpanStep, Zenon
<1>9. PlaceInv'
  BY <1>5, <1>6, <1>8, Zenon DEF PlaceInv, Objects, IInv
<1>10. TypeOK' /\ AllocDisjoint' /\ EntriesNameOwnMetaspan'
  <2>1. /\ alloc' \subseteq Span
        /\ pageTable' \in [MetaPage -> Entry]
        /\ sizeclass' \in [0 .. NPages -> Classes \cup {0}]
        /\ pairs' \subseteq [data : Span, meta : Span]
        /\ AllocDisjoint' /\ EntriesNameOwnMetaspan'
    BY <1>3, <1>4, PairStep, Zenon
  <2>2. d.start \in Page /\ d.start <= d.start /\ BaseOf(d) \in Nat
    BY <1>3, SpanFacts, BaseFacts, NPagesAssumption, SMTT(30) DEF Page
  <2>3. cache' \in [0 .. CacheSlots - 1 ->
                      [page : 0 .. NPages, cl : Classes \cup {0}]]
    BY <1>1, <1>4, <2>2, CacheType, Zenon
  <2> QED
    BY <1>1, <1>5, <1>6, <2>1, <2>2, <2>3, Zenon DEF TypeOK
<1>11. NoFault'
  BY <1>5, Zenon DEF NoFault, IInv
<1> QED
  BY <1>8, <1>9, <1>10, <1>11, Zenon DEF IInv

LEMMA PopulateStep ==
  ASSUME GranulesPositive, IInv,
         NEW t \in Threads, NEW c \in Classes, Populate(t, c)
  PROVE  IInv'
<1> USE DEF IInv
<1>1. PICK d \in FreeRuns(alloc, ClassPages[c]) : \E m \in MetaRuns(d, c) :
         Pair(d, m, c) /\ Goto(t, "carve", 0, d)
  BY Zenon DEF Populate
<1>2. PICK m \in MetaRuns(d, c) : Pair(d, m, c) /\ Goto(t, "carve", 0, d)
  BY <1>1, Zenon
<1>3. d \in Span /\ LastPage(d) <= NPages /\ \A s \in alloc : Apart(d, s)
  BY Zenon DEF FreeRuns
<1>4. /\ pc[t] = "idle" /\ cache' = cache /\ words' = words /\ inSpan' = inSpan
      /\ cached' = cached /\ live' = live /\ fault' = fault
  BY Zenon DEF Populate
<1>5. /\ pc' = [pc EXCEPT ![t] = "carve"]
      /\ ob' = [ob EXCEPT ![t] = 0]
      /\ sp' = [sp EXCEPT ![t] = d]
  BY <1>2, Zenon DEF Goto
<1>6. /\ pc \in [Threads -> PCs] /\ ob \in [Threads -> Nat]
      /\ sp \in [Threads -> Span \cup {NoSpan}]
  BY Zenon DEF TypeOK
<1> DEFINE new == [data |-> d, meta |-> m]
<1>7. /\ alloc' \subseteq Span
      /\ pageTable' \in [MetaPage -> Entry]
      /\ sizeclass' \in [0 .. NPages -> Classes \cup {0}]
      /\ pairs' \subseteq [data : Span, meta : Span]
      /\ AllocDisjoint' /\ EntriesNameOwnMetaspan'
      /\ pairs' = pairs \cup {new}
      /\ new.data = d
      /\ sizeclass'[d.start] = c
      /\ \A p \in pairs : /\ p.data # d
                          /\ PagesOf(p.data) \cap PagesOf(d) = {}
                          /\ sizeclass'[p.data.start] = sizeclass[p.data.start]
  BY <1>2, <1>3, PairStep, Zenon
<1>8. c # 0
  BY ClassAssumption, Zenon
<1>9. \A u \in Threads : u # t => pc'[u] = pc[u] /\ sp'[u] = sp[u] /\ ob'[u] = ob[u]
  BY <1>5, <1>6, Zenon
<1>10. pc'[t] = "carve" /\ sp'[t] = d
  BY <1>5, <1>6, Zenon
<1>11. \A u \in Threads : pc[u] \in Holding => sp[u] # d /\ u # t
  BY <1>4, <1>7, SMTT(30) DEF HoldInv, Holding
<1>12. TypeOK'
  <2>1. /\ pc' \in [Threads -> PCs] /\ ob' \in [Threads -> Nat]
        /\ sp' \in [Threads -> Span \cup {NoSpan}]
    BY <1>3, <1>5, <1>6, Zenon DEF PCs
  <2> QED
    BY <1>4, <1>7, <2>1, Zenon DEF TypeOK
<1>13. HoldInv'
  <2>1. ASSUME NEW u \in Threads, pc'[u] \in Holding
        PROVE  /\ \E p \in pairs' : p.data = sp'[u]
               /\ pc'[u] = "carve" => sizeclass'[sp'[u].start] # 0
    <3>1. CASE u = t
      BY <3>1, <1>7, <1>8, <1>10, Zenon
    <3>2. CASE u # t
      <4>1. PICK p \in pairs : p.data = sp[u]
        BY <2>1, <3>2, <1>9, Zenon DEF HoldInv
      <4>2. /\ p \in pairs' /\ p.data = sp'[u]
            /\ pc[u] = pc'[u]
            /\ sizeclass'[p.data.start] = sizeclass[p.data.start]
        BY <3>2, <4>1, <1>7, <1>9, Zenon
      <4>3. pc[u] = "carve" => sizeclass[sp[u].start] # 0
        BY <2>1, <4>2, Zenon DEF HoldInv
      <4> QED
        BY <4>1, <4>2, <4>3, Zenon
    <3> QED
      BY <3>1, <3>2, Zenon
  <2>2. ASSUME NEW u \in Threads, NEW v \in Threads,
               pc'[u] \in Holding, pc'[v] \in Holding, u # v
        PROVE  sp'[u] # sp'[v]
    <3>1. CASE u = t
      <4>1. pc[v] \in Holding /\ sp'[v] = sp[v]
        BY <2>2, <3>1, <1>9, Zenon
      <4> QED
        BY <3>1, <4>1, <1>10, <1>11, Zenon
    <3>2. CASE v = t
      <4>1. pc[u] \in Holding /\ sp'[u] = sp[u]
        BY <2>2, <3>2, <1>9, Zenon
      <4> QED
        BY <3>2, <4>1, <1>10, <1>11, Zenon
    <3>3. CASE u # t /\ v # t
      <4>1. /\ pc[u] \in Holding /\ sp'[u] = sp[u]
            /\ pc[v] \in Holding /\ sp'[v] = sp[v]
        BY <2>2, <3>3, <1>9, Zenon
      <4> QED
        BY <2>2, <4>1, Zenon DEF HoldInv
    <3> QED
      BY <3>1, <3>2, <3>3, Zenon
  <2> QED
    BY <2>1, <2>2, Zenon DEF HoldInv
<1>14. Objects' = Objects
  BY <1>4, <1>9, <1>10, Zenon DEF Objects
<1>15. HomeInv'
  <2> SUFFICES ASSUME NEW x \in Objects
               PROVE  \E p \in pairs' : Home(x, p)'
    BY <1>14, Zenon DEF HomeInv
  <2>1. PICK p \in pairs : Home(x, p)
    BY Zenon DEF HomeInv
  <2>2. \A u \in Threads : pc'[u] \in Holding => sp'[u] # p.data
    BY <2>1, <1>7, <1>9, <1>10, Zenon DEF Home
  <2>3. sizeclass[p.data.start] = 0 => x \notin inSpan' \cup cached'
    BY <2>1, <1>4, Zenon DEF Home
  <2>4. Home(x, p)'
    BY <1>7, <2>1, <2>2, <2>3, HomeKept, Zenon
  <2> QED
    BY <1>7, <2>4, Zenon
<1>16. PlaceInv'
  BY <1>4, <1>9, <1>10, Zenon DEF PlaceInv
<1>17. CacheInv'
  <2> SUFFICES ASSUME NEW p \in pairs',
                      \A u \in Threads : pc'[u] = "carve" => sp'[u] # p.data,
                      NEW x \in PagesOf(p.data),
                      sizeclass'[p.data.start] # 0 \/ x = p.data.start
               PROVE  GetSizeClassIfCached(x)' \in {0, sizeclass'[p.data.start]}
    BY Zenon DEF CacheInv, PagesOf, LastPage
  <2>1. p \in pairs
    BY <1>7, <1>10, Zenon
  <2>2. \A u \in Threads : pc[u] = "carve" => sp[u] # p.data
    BY <1>4, <1>9, Zenon
  <2>3. GetSizeClassIfCached(x)' = GetSizeClassIfCached(x)
    BY <1>4, Zenon DEF GetSizeClassIfCached
  <2> QED
    BY <1>7, <2>1, <2>2, <2>3, Zenon DEF CacheInv
<1>18. NoFault'
  BY <1>4, Zenon DEF NoFault
<1> QED
  BY <1>7, <1>12, <1>13, <1>15, <1>16, <1>17, <1>18, Zenon

-----------------------------------------------------------------------------
(* The steps that move objects between the program, the caches and the     *)
(* spans.                                                                  *)

\* What a step that leaves the page heap alone keeps.
LEMMA SameHeap ==
  ASSUME IInv, alloc' = alloc, pageTable' = pageTable, sizeclass' = sizeclass,
         pairs' = pairs, fault' = fault
  PROVE  AllocDisjoint' /\ EntriesNameOwnMetaspan' /\ NoFault'
<1>1. AllocDisjoint'
  BY Zenon DEF IInv, AllocDisjoint, Apart, LastPage
<1>2. EntriesNameOwnMetaspan'
  BY Zenon DEF IInv, EntriesNameOwnMetaspan, EntryAt, GranuleOf, BaseOf, FirstMetaPage
<1>3. NoFault'
  BY Zenon DEF IInv, NoFault
<1> QED
  BY <1>1, <1>2, <1>3, Zenon

LEMMA SameHold ==
  ASSUME IInv, sizeclass' = sizeclass, pairs' = pairs,
         \A u \in Threads : pc'[u] \in Holding => pc'[u] = pc[u] /\ sp'[u] = sp[u]
  PROVE  HoldInv'
  BY ZenonT(30) DEF IInv, HoldInv

LEMMA SameHome ==
  ASSUME IInv, sizeclass' = sizeclass, pairs' = pairs,
         Objects' \subseteq Objects,
         inSpan' \cup cached' \subseteq inSpan \cup cached,
         \A u \in Threads : pc'[u] \in Holding => pc'[u] = pc[u] /\ sp'[u] = sp[u]
  PROVE  HomeInv'
<1> SUFFICES ASSUME NEW x \in Objects
             PROVE  \E p \in pairs' : Home(x, p)'
  BY Zenon DEF HomeInv
<1>1. PICK p \in pairs : Home(x, p)
  BY Zenon DEF IInv, HomeInv
<1>2. /\ sizeclass[p.data.start] = 0 => x \notin inSpan' \cup cached'
      /\ \A u \in Threads : pc'[u] \in Holding => sp'[u] # p.data
  BY <1>1, Zenon DEF Home
<1>3. Home(x, p)'
  BY <1>1, <1>2, HomeKept, Zenon
<1> QED
  BY <1>3, Zenon

LEMMA SameCache ==
  ASSUME IInv, sizeclass' = sizeclass, pairs' = pairs, cache' = cache,
         \A u \in Threads : pc[u] = "carve" => pc'[u] = pc[u] /\ sp'[u] = sp[u]
  PROVE  CacheInv'
<1> SUFFICES ASSUME NEW p \in pairs,
                    \A u \in Threads : pc'[u] = "carve" => sp'[u] # p.data,
                    NEW x \in PagesOf(p.data),
                    sizeclass[p.data.start] # 0 \/ x = p.data.start
             PROVE  GetSizeClassIfCached(x) \in {0, sizeclass[p.data.start]}
  BY Zenon DEF CacheInv, PagesOf, LastPage, GetSizeClassIfCached
<1>1. \A u \in Threads : pc[u] = "carve" => sp[u] # p.data
  OBVIOUS
<1> QED
  BY <1>1, Zenon DEF IInv, CacheInv

LEMMA FetchStep ==
  ASSUME IInv, NEW o \in inSpan, Fetch(o)
  PROVE  IInv'
<1>1. /\ inSpan' = inSpan \ {o} /\ cached' = cached \cup {o}
      /\ alloc' = alloc /\ pageTable' = pageTable /\ sizeclass' = sizeclass
      /\ cache' = cache /\ live' = live /\ pairs' = pairs /\ pc' = pc
      /\ ob' = ob /\ sp' = sp /\ fault' = fault
  BY Zenon DEF Fetch
<1>2. Objects' = Objects
  BY <1>1, Zenon DEF Objects
<1>3. HoldInv' /\ HomeInv' /\ CacheInv'
  BY <1>1, <1>2, SameHold, SameHome, SameCache, Zenon
<1>4. AllocDisjoint' /\ EntriesNameOwnMetaspan' /\ NoFault'
  BY <1>1, SameHeap, Zenon
<1>5. TypeOK'
  BY <1>1, Zenon DEF IInv, TypeOK
<1>6. PlaceInv'
  BY <1>1, Zenon DEF IInv, PlaceInv
<1> QED
  BY <1>3, <1>4, <1>5, <1>6, Zenon DEF IInv

LEMMA MallocSmallStep ==
  ASSUME IInv, NEW t \in Threads, NEW o \in cached, MallocSmall(t, o)
  PROVE  IInv'
<1>1. /\ pc[t] = "idle" /\ inSpan' = inSpan /\ cached' = cached \ {o}
      /\ alloc' = alloc /\ pageTable' = pageTable /\ sizeclass' = sizeclass
      /\ cache' = cache /\ live' = live /\ pairs' = pairs /\ fault' = fault
  BY Zenon DEF MallocSmall
<1>2. /\ pc' = [pc EXCEPT ![t] = "reset"]
      /\ ob' = [ob EXCEPT ![t] = o]
      /\ sp' = [sp EXCEPT ![t] = NoSpan]
  BY Zenon DEF MallocSmall, Goto
<1>3. /\ pc \in [Threads -> PCs] /\ ob \in [Threads -> Nat]
      /\ sp \in [Threads -> Span \cup {NoSpan}] /\ o \in Nat
  BY Zenon DEF IInv, TypeOK
<1>4. /\ \A u \in Threads : pc'[u] \in Holding => pc'[u] = pc[u] /\ sp'[u] = sp[u]
      /\ \A u \in Threads : pc[u] = "carve" => pc'[u] = pc[u] /\ sp'[u] = sp[u]
  BY <1>1, <1>2, <1>3, Zenon DEF Holding
<1>5. Objects' \subseteq Objects
  BY <1>1, <1>2, <1>3, Zenon DEF Objects
<1>6. HoldInv' /\ HomeInv' /\ CacheInv'
  BY <1>1, <1>4, <1>5, SameHold, SameHome, SameCache, Zenon
<1>7. AllocDisjoint' /\ EntriesNameOwnMetaspan' /\ NoFault'
  BY <1>1, SameHeap, Zenon
<1>8. TypeOK'
  BY <1>1, <1>2, <1>3, Zenon DEF IInv, TypeOK, PCs
<1>9. PlaceInv'
  BY <1>1, <1>2, <1>3, Zenon DEF IInv, PlaceInv
<1> QED
  BY <1>6, <1>7, <1>8, <1>9, Zenon DEF IInv

\* The entry of an object never names address 0, so the reset reaches metadata.
LEMMA ObjectEntry ==
  ASSUME GranulesPositive, IInv, NEW o \in Objects
  PROVE  get_metapagetable_entry(pageTable, o).meta # 0
<1> USE DEF IInv
<1>1. PICK p \in pairs : Home(o, p)
  BY Zenon DEF HomeInv
<1>2. o \in Nat /\ PageOf(o) \in PagesOf(p.data)
  BY <1>1, HomeFacts, Zenon
<1>3. PICK i \in 0 .. p.data.len * Ratio - 1 :
         o \div METALLOC_PAGESIZE = FirstMetaPage(p.data) + i
  BY <1>2, PairFacts, AddressEntry, Zenon
<1>4. get_metapagetable_entry(pageTable, o)
        = EntryAt(BaseOf(p.meta), i, GranuleOf(sizeclass[p.data.start]))
  BY <1>3, Zenon DEF EntriesNameOwnMetaspan, get_metapagetable_entry
<1>5. BaseOf(p.meta) \in Nat /\ BaseOf(p.meta) # 0
  BY PairFacts, BaseFacts, Zenon
<1>6. i \in Nat
  BY <1>3, PairFacts, MetaPageFacts, SMTT(30)
<1>7. sizeclass[p.data.start] \in Classes \cup {0}
  BY PairFacts, Zenon
<1>8. GranuleOf(sizeclass[p.data.start]) \in Nat \ {0}
  BY <1>7, Zenon DEF GranulesPositive
<1>9. EntryAt(BaseOf(p.meta), i, GranuleOf(sizeclass[p.data.start])).meta # 0
  BY <1>5, <1>6, <1>8, EntryFacts, Zenon
<1> QED
  BY <1>4, <1>9, Zenon

LEMMA ResetMetadataStep ==
  ASSUME GranulesPositive, IInv,
         NEW t \in Threads, ResetMetadata(t)
  PROVE  IInv'
<1>1. pc[t] = "reset" /\ ob[t] \in Objects
  BY Zenon DEF ResetMetadata, Objects
<1>2. /\ live' = Extend(live, ob[t], 0) /\ fault' = fault
      /\ inSpan' = inSpan /\ cached' = cached
      /\ alloc' = alloc /\ pageTable' = pageTable /\ sizeclass' = sizeclass
      /\ cache' = cache /\ pairs' = pairs
  BY <1>1, ObjectEntry, Zenon DEF ResetMetadata
<1>3. /\ pc' = [pc EXCEPT ![t] = "idle"]
      /\ ob' = [ob EXCEPT ![t] = 0]
      /\ sp' = [sp EXCEPT ![t] = NoSpan]
  BY Zenon DEF ResetMetadata, Return, Goto
<1>4. /\ pc \in [Threads -> PCs] /\ ob \in [Threads -> Nat]
      /\ sp \in [Threads -> Span \cup {NoSpan}]
  BY Zenon DEF IInv, TypeOK
<1>5. /\ \A u \in Threads : pc'[u] \in Holding => pc'[u] = pc[u] /\ sp'[u] = sp[u]
      /\ \A u \in Threads : pc[u] = "carve" => pc'[u] = pc[u] /\ sp'[u] = sp[u]
  BY <1>1, <1>3, <1>4, Zenon DEF Holding
<1>6. DOMAIN live' = DOMAIN live \cup {ob[t]}
  BY <1>2, Zenon DEF Extend
<1>7. Objects' \subseteq Objects
  BY <1>1, <1>2, <1>3, <1>4, <1>6, Zenon DEF Objects
<1>8. HoldInv' /\ HomeInv' /\ CacheInv'
  BY <1>2, <1>5, <1>7, SameHold, SameHome, SameCache, Zenon
<1>9. AllocDisjoint' /\ EntriesNameOwnMetaspan' /\ NoFault'
  BY <1>2, SameHeap, Zenon
<1>10. TypeOK'
  BY <1>2, <1>3, <1>4, <1>6, Zenon DEF IInv, TypeOK, PCs
<1>11. PlaceInv'
  BY <1>1, <1>2, <1>3, <1>4, <1>6, Zenon DEF IInv, PlaceInv
<1> QED
  BY <1>8, <1>9, <1>10, <1>11, Zenon DEF IInv

\* MetaSet and UserWrite only write memory that the invariant does not mention.
LEMMA ProgramStep ==
  ASSUME IInv, NEW o \in DOMAIN live,
         UserWrite(o) \/ \E v \in MetaValues : MetaSet(o, v)
  PROVE  IInv'
<1>1. /\ inSpan' = inSpan /\ cached' = cached /\ DOMAIN live' = DOMAIN live
      /\ alloc' = alloc /\ pageTable' = pageTable /\ sizeclass' = sizeclass
      /\ cache' = cache /\ pairs' = pairs /\ pc' = pc
      /\ ob' = ob /\ sp' = sp /\ fault' = fault
  BY Zenon DEF UserWrite, MetaSet
<1>2. Objects' = Objects
  BY <1>1, Zenon DEF Objects
<1>3. HoldInv' /\ HomeInv' /\ CacheInv'
  BY <1>1, <1>2, SameHold, SameHome, SameCache, Zenon
<1>4. AllocDisjoint' /\ EntriesNameOwnMetaspan' /\ NoFault'
  BY <1>1, SameHeap, Zenon
<1>5. TypeOK'
  BY <1>1, Zenon DEF IInv, TypeOK
<1>6. PlaceInv'
  BY <1>1, Zenon DEF IInv, PlaceInv
<1> QED
  BY <1>3, <1>4, <1>5, <1>6, Zenon DEF IInv

LEMMA CarveStep ==
  ASSUME IInv, NEW t \in Threads, Carve(t)
  PROVE  IInv'
<1> DEFINE d == sp[t]
           c == sizeclass[d.start]
           new == ObjectsOf(d, c)
<1>1. /\ pc[t] = "carve" /\ inSpan' = inSpan \cup new /\ cached' = cached
      /\ cache' = CacheSizeClass(d.start, LastPage(d), c)
      /\ alloc' = alloc /\ pageTable' = pageTable /\ sizeclass' = sizeclass
      /\ live' = live /\ pairs' = pairs /\ fault' = fault
  BY Zenon DEF Carve
<1>2. /\ pc' = [pc EXCEPT ![t] = "idle"]
      /\ ob' = [ob EXCEPT ![t] = 0]
      /\ sp' = [sp EXCEPT ![t] = NoSpan]
  BY Zenon DEF Carve, Return, Goto
<1>3. /\ TypeOK /\ pc \in [Threads -> PCs] /\ ob \in [Threads -> Nat]
      /\ sp \in [Threads -> Span \cup {NoSpan}]
  BY Zenon DEF IInv, TypeOK
<1>4. PICK q \in pairs : q.data = d
  BY <1>1, Zenon DEF IInv, HoldInv, Holding
<1>5. /\ c # 0 /\ c \in Classes /\ d \in Span
      /\ LastPage(d) <= NPages
  BY <1>1, <1>4, PairFacts, Zenon DEF IInv, HoldInv, Holding
<1>6. \A o \in new : o \in Nat /\ PageOf(o) \in PagesOf(d)
  BY <1>5, ObjectsOfFacts, Zenon
<1>7. \A o \in new : o \notin Objects
  BY <1>1, <1>6, NoObjectInHeld, Zenon DEF Holding
<1>8. /\ \A u \in Threads : pc'[u] \in Holding => pc'[u] = pc[u] /\ sp'[u] = sp[u] /\ u # t
      /\ \A u \in Threads : u # t => pc'[u] = pc[u] /\ sp'[u] = sp[u]
  BY <1>1, <1>2, <1>3, Zenon DEF Holding
<1>9. \A u \in Threads : pc'[u] \in Holding => sp'[u] # d
  BY <1>1, <1>8, SMTT(30) DEF IInv, HoldInv, Holding
<1>10. Objects' = Objects \cup new
  BY <1>1, <1>2, <1>3, Zenon DEF Objects
<1>11. HoldInv'
  BY <1>1, <1>8, SameHold, Zenon
<1>12. HomeInv'
  <2>1. ASSUME NEW x \in new PROVE Home(x, q)'
    <3>1. new = ObjectsOf(q.data, sizeclass[q.data.start])
      BY <1>4, Zenon
    <3> QED
      BY <1>1, <1>4, <1>5, <1>9, <2>1, <3>1, Zenon DEF Home, ObjectsOf, BaseOf, BytesOf
  <2>2. ASSUME NEW x \in Objects
        PROVE  \E p \in pairs' : Home(x, p)'
    <3>1. PICK p \in pairs : Home(x, p)
      BY Zenon DEF IInv, HomeInv
    <3>2. x \notin new
      BY <1>7, Zenon
    <3>3. \A u \in Threads : pc'[u] \in Holding => sp'[u] # p.data
      BY <1>8, <3>1, Zenon DEF Home
    <3>4. sizeclass[p.data.start] = 0 => x \notin inSpan' \cup cached'
      BY <1>1, <3>1, <3>2, Zenon DEF Home
    <3>5. Home(x, p)'
      BY <1>1, <3>1, <3>3, <3>4, HomeKept, Zenon
    <3> QED
      BY <1>1, <3>5, Zenon
  <2> QED
    BY <1>1, <1>10, <2>1, <2>2, Zenon DEF HomeInv
<1>13. PlaceInv'
  BY <1>1, <1>2, <1>3, <1>7, SMTT(30) DEF IInv, PlaceInv, Objects
<1>14. d.start \in Page /\ LastPage(d) \in Page /\ d.start <= LastPage(d)
  BY <1>5, SpanFacts, NPagesAssumption, SMTT(30) DEF Page
<1>15. CacheInv'
  <2> SUFFICES ASSUME NEW p \in pairs,
                      \A u \in Threads : pc'[u] = "carve" => sp'[u] # p.data,
                      NEW x \in PagesOf(p.data),
                      sizeclass[p.data.start] # 0 \/ x = p.data.start
               PROVE  GetSizeClassIfCached(x)' \in {0, sizeclass[p.data.start]}
    BY <1>1, Zenon DEF CacheInv, PagesOf, LastPage
  <2>1. x \in Nat
    BY PairFacts, SpanFacts, Zenon DEF IInv
  <2>2. CASE p = q
    <3>1. x \in d.start .. LastPage(d)
      BY <1>4, <2>2, Zenon DEF PagesOf
    <3> QED
      BY <1>1, <1>3, <1>4, <1>14, <2>1, <2>2, <3>1, CacheFacts, Zenon
  <2>3. CASE p # q
    <3>1. x \notin d.start .. LastPage(d)
      BY <1>4, <2>3, PairOfPage, Zenon DEF IInv, PagesOf
    <3>2. GetSizeClassIfCached(x)' \in {0, GetSizeClassIfCached(x)}
      BY <1>1, <1>3, <1>14, <2>1, <3>1, CacheFacts, Zenon
    <3>3. \A u \in Threads : pc[u] = "carve" => sp[u] # p.data
      BY <1>4, <1>8, <2>3, Zenon DEF IInv, EntriesNameOwnMetaspan
    <3>4. GetSizeClassIfCached(x) \in {0, sizeclass[p.data.start]}
      BY <3>3, Zenon DEF IInv, CacheInv
    <3> QED
      BY <3>2, <3>4, Zenon
  <2> QED
    BY <2>2, <2>3, Zenon
<1>16. AllocDisjoint' /\ EntriesNameOwnMetaspan' /\ NoFault'
  BY <1>1, SameHeap, Zenon
<1>17. TypeOK'
  <2>1. cache' \in [0 .. CacheSlots - 1 ->
                      [page : 0 .. NPages, cl : Classes \cup {0}]]
    BY <1>1, <1>3, <1>5, <1>14, CacheType, Zenon
  <2>2. /\ pc' \in [Threads -> PCs] /\ ob' \in [Threads -> Nat]
        /\ sp' \in [Threads -> Span \cup {NoSpan}]
    BY <1>2, <1>3, Zenon DEF PCs
  <2>3. inSpan' \subseteq Nat
    BY <1>1, <1>3, <1>6, Zenon DEF TypeOK
  <2> QED
    BY <1>1, <1>3, <2>1, <2>2, <2>3, Zenon DEF TypeOK
<1> QED
  BY <1>11, <1>12, <1>13, <1>15, <1>16, <1>17, Zenon DEF IInv

\* The size class do_free works with is that of the object's span.
LEMMA ClassOfObject ==
  ASSUME IInv, NEW o \in Objects
  PROVE  \E p \in pairs :
           /\ Home(o, p)
           /\ GetDescriptor(PageOf(o)) = p.data
           /\ PageOf(o) \in PagesOf(p.data)
           /\ ClassAt(PageOf(o)) = sizeclass[p.data.start]
<1> USE DEF IInv
<1>1. PICK p \in pairs : Home(o, p)
  BY Zenon DEF HomeInv
<1>2. /\ GetDescriptor(PageOf(o)) = p.data /\ PageOf(o) \in PagesOf(p.data)
      /\ sizeclass[p.data.start] = 0 => PageOf(o) = p.data.start
  BY <1>1, HomeFacts, Zenon
<1>3. \A u \in Threads : pc[u] = "carve" => sp[u] # p.data
  BY <1>1, Zenon DEF Home, Holding
<1>4. GetSizeClassIfCached(PageOf(o)) \in {0, sizeclass[p.data.start]}
  BY <1>2, <1>3, Zenon DEF CacheInv
<1> QED
  BY <1>1, <1>2, <1>4, Zenon DEF ClassAt

\* Caching the size class of the page an object starts in.
LEMMA CacheOneStep ==
  ASSUME IInv, NEW q \in pairs, NEW x \in PagesOf(q.data),
         sizeclass' = sizeclass, pairs' = pairs,
         cache' = cache \/ cache' = CacheSizeClass(x, x, sizeclass[q.data.start]),
         \A u \in Threads : pc[u] = "carve" => pc'[u] = pc[u] /\ sp'[u] = sp[u]
  PROVE  /\ CacheInv'
         /\ cache' \in [0 .. CacheSlots - 1 ->
                          [page : 0 .. NPages, cl : Classes \cup {0}]]
<1>1. /\ x \in Page /\ x <= x /\ x \in Nat /\ q.data \in Span /\ TypeOK
      /\ sizeclass[q.data.start] \in Classes \cup {0}
  BY PairFacts, SpanFacts, NPagesAssumption, SMTT(30) DEF IInv, Page, PagesOf
<1>2. cache' \in [0 .. CacheSlots - 1 ->
                    [page : 0 .. NPages, cl : Classes \cup {0}]]
  BY <1>1, CacheType, SMTT(30) DEF TypeOK
<1>3. CacheInv'
  <2> SUFFICES ASSUME NEW p \in pairs,
                      \A u \in Threads : pc'[u] = "carve" => sp'[u] # p.data,
                      NEW y \in PagesOf(p.data),
                      sizeclass[p.data.start] # 0 \/ y = p.data.start
               PROVE  GetSizeClassIfCached(y)' \in {0, sizeclass[p.data.start]}
    BY Zenon DEF CacheInv, PagesOf, LastPage
  <2>1. \A u \in Threads : pc[u] = "carve" => sp[u] # p.data
    OBVIOUS
  <2>2. GetSizeClassIfCached(y) \in {0, sizeclass[p.data.start]}
    BY <2>1, Zenon DEF IInv, CacheInv
  <2>3. CASE cache' = cache
    BY <2>2, <2>3, Zenon DEF GetSizeClassIfCached
  <2>4. CASE cache' = CacheSizeClass(x, x, sizeclass[q.data.start])
    <3>1. y \in Nat
      BY PairFacts, SpanFacts, Zenon DEF IInv
    <3>2. CASE y = x
      <4>1. p = q
        BY <3>2, PairOfPage, Zenon DEF IInv
      <4>2. y \in x .. x
        BY <1>1, <3>2, SMTT(30)
      <4>3. GetSizeClassIfCached(y)' \in {0, sizeclass[q.data.start]}
        BY <1>1, <2>4, <3>1, <4>2, CacheFacts, SMTT(30)
      <4> QED
        BY <4>1, <4>3, Zenon
    <3>3. CASE y # x
      <4>1. y \notin x .. x
        BY <1>1, <3>1, <3>3, SMTT(30)
      <4>2. GetSizeClassIfCached(y)' \in {0, GetSizeClassIfCached(y)}
        BY <1>1, <2>4, <3>1, <4>1, CacheFacts, Zenon
      <4> QED
        BY <2>2, <4>2, Zenon
    <3> QED
      BY <3>2, <3>3, Zenon
  <2> QED
    BY <2>3, <2>4, Zenon
<1> QED
  BY <1>2, <1>3, Zenon

LEMMA GetSizeStep ==
  ASSUME IInv, NEW o \in DOMAIN live, GetSize(o)
  PROVE  IInv'
<1>1. /\ inSpan' = inSpan /\ cached' = cached /\ live' = live
      /\ alloc' = alloc /\ pageTable' = pageTable /\ sizeclass' = sizeclass
      /\ pairs' = pairs /\ pc' = pc /\ ob' = ob /\ sp' = sp /\ fault' = fault
      /\ cache' = CacheSizeClass(PageOf(o), PageOf(o),
                                 sizeclass[GetDescriptor(PageOf(o)).start])
  BY Zenon DEF GetSize
<1>2. Objects' = Objects /\ o \in Objects
  BY <1>1, Zenon DEF Objects
<1>3. PICK q \in pairs : /\ GetDescriptor(PageOf(o)) = q.data
                         /\ PageOf(o) \in PagesOf(q.data)
  BY <1>2, ClassOfObject, Zenon
<1>4. /\ CacheInv'
      /\ cache' \in [0 .. CacheSlots - 1 ->
                       [page : 0 .. NPages, cl : Classes \cup {0}]]
  BY <1>1, <1>3, CacheOneStep, Zenon
<1>5. HoldInv' /\ HomeInv'
  BY <1>1, <1>2, SameHold, SameHome, Zenon
<1>6. AllocDisjoint' /\ EntriesNameOwnMetaspan' /\ NoFault'
  BY <1>1, SameHeap, Zenon
<1>7. TypeOK'
  BY <1>1, <1>4, Zenon DEF IInv, TypeOK
<1>8. PlaceInv'
  BY <1>1, Zenon DEF IInv, PlaceInv
<1> QED
  BY <1>4, <1>5, <1>6, <1>7, <1>8, Zenon DEF IInv

LEMMA FreeStep ==
  ASSUME IInv, NEW t \in Threads, NEW o \in DOMAIN live, Free(t, o)
  PROVE  IInv'
<1> DEFINE x == PageOf(o)
<1>1. /\ pc[t] = "idle" /\ live' = Restrict(live, DOMAIN live \ {o})
      /\ inSpan' = inSpan
      /\ alloc' = alloc /\ pageTable' = pageTable /\ sizeclass' = sizeclass
      /\ pairs' = pairs /\ fault' = fault
  BY Zenon DEF Free
<1>2. DOMAIN live' = DOMAIN live \ {o}
  BY <1>1, Zenon DEF Restrict
<1>3. o \in Objects
  BY Zenon DEF Objects
<1>4. PICK q \in pairs : /\ Home(o, q)
                         /\ GetDescriptor(x) = q.data
                         /\ x \in PagesOf(q.data)
                         /\ ClassAt(x) = sizeclass[q.data.start]
  BY <1>3, ClassOfObject, Zenon
<1>5. /\ TypeOK /\ pc \in [Threads -> PCs] /\ ob \in [Threads -> Nat]
      /\ sp \in [Threads -> Span \cup {NoSpan}] /\ o \in Nat
  BY Zenon DEF IInv, TypeOK
<1>6. /\ x \in Page /\ x <= x /\ x \in Nat /\ q.data \in Span
      /\ sizeclass[q.data.start] \in Classes \cup {0}
  BY <1>4, PairFacts, SpanFacts, NPagesAssumption, SMTT(30)
     DEF IInv, Page, PagesOf
<1>7. cache' = cache \/ cache' = CacheSizeClass(x, x, sizeclass[q.data.start])
  BY <1>4, Zenon DEF Free
<1>8. cache' \in [0 .. CacheSlots - 1 ->
                    [page : 0 .. NPages, cl : Classes \cup {0}]]
  BY <1>5, <1>6, <1>7, CacheType, SMTT(30) DEF TypeOK
<1>9. AllocDisjoint' /\ EntriesNameOwnMetaspan' /\ NoFault'
  BY <1>1, SameHeap, Zenon
<1>10. ASSUME \A u \in Threads :
                pc[u] = "carve" => pc'[u] = pc[u] /\ sp'[u] = sp[u]
       PROVE  CacheInv'
  BY <1>1, <1>4, <1>7, <1>10, CacheOneStep, Zenon
<1>11. CASE sizeclass[q.data.start] # 0
  <2>1. cached' = cached \cup {o} /\ pc' = pc /\ ob' = ob /\ sp' = sp
    BY <1>4, <1>11, Zenon DEF Free, threadVars
  <2>2. Objects' = Objects
    BY <1>1, <1>2, <1>3, <2>1, Zenon DEF Objects
  <2>3. HoldInv'
    BY <1>1, <2>1, SameHold, Zenon
  <2>4. HomeInv'
    <3> SUFFICES ASSUME NEW y \in Objects
                 PROVE  \E p \in pairs' : Home(y, p)'
      BY <2>2, Zenon DEF HomeInv
    <3>1. CASE y = o
      <4>1. Home(o, q)'
        BY <1>1, <1>4, <1>11, <2>1, HomeKept, Zenon DEF Home
      <4> QED
        BY <1>1, <3>1, <4>1, Zenon
    <3>2. CASE y # o
      <4>1. PICK p \in pairs : Home(y, p)
        BY Zenon DEF IInv, HomeInv
      <4>2. Home(y, p)'
        BY <1>1, <2>1, <3>2, <4>1, HomeKept, Zenon DEF Home
      <4> QED
        BY <1>1, <4>2, Zenon
    <3> QED
      BY <3>1, <3>2, Zenon
  <2>5. PlaceInv'
    BY <1>1, <1>2, <2>1, Zenon DEF IInv, PlaceInv
  <2>6. TypeOK'
    BY <1>1, <1>2, <1>5, <1>8, <2>1, Zenon DEF TypeOK
  <2> QED
    BY <1>9, <1>10, <2>1, <2>3, <2>4, <2>5, <2>6, Zenon DEF IInv
<1>12. CASE sizeclass[q.data.start] = 0
  <2>1. cached' = cached /\ Goto(t, "free_large", 0, q.data)
    BY <1>4, <1>12, Zenon DEF Free
  <2>2. /\ pc' = [pc EXCEPT ![t] = "free_large"]
        /\ ob' = [ob EXCEPT ![t] = 0]
        /\ sp' = [sp EXCEPT ![t] = q.data]
    BY <2>1, Zenon DEF Goto
  <2>3. /\ \A u \in Threads : u # t => pc'[u] = pc[u] /\ sp'[u] = sp[u] /\ ob'[u] = ob[u]
        /\ pc'[t] = "free_large" /\ sp'[t] = q.data
    BY <1>5, <2>2, Zenon
  <2>4. \A u \in Threads : pc[u] \in Holding => sp[u] # q.data /\ u # t
    BY <1>1, <1>4, Zenon DEF Home, Holding
  <2>5. Objects' \subseteq Objects \ {o}
    <3>1. o \notin inSpan \cup cached /\ o \notin {ob[u] : u \in {v \in Threads : pc[v] = "reset"}}
      BY Zenon DEF IInv, PlaceInv
    <3> QED
      BY <1>1, <1>2, <2>1, <2>3, <3>1, SMTT(30) DEF Objects
  <2>6. HoldInv'
    <3>1. ASSUME NEW u \in Threads, pc'[u] \in Holding
          PROVE  /\ \E p \in pairs' : p.data = sp'[u]
                 /\ pc'[u] = "carve" => sizeclass'[sp'[u].start] # 0
      BY <1>1, <2>3, <3>1, SMTT(30) DEF IInv, HoldInv
    <3>2. ASSUME NEW u \in Threads, NEW v \in Threads,
                 pc'[u] \in Holding, pc'[v] \in Holding, u # v
          PROVE  sp'[u] # sp'[v]
      BY <2>3, <2>4, <3>2, SMTT(30) DEF IInv, HoldInv
    <3> QED
      BY <3>1, <3>2, ZenonT(30) DEF HoldInv
  <2>7. HomeInv'
    <3> SUFFICES ASSUME NEW y \in Objects, y # o
                 PROVE  \E p \in pairs' : Home(y, p)'
      BY <2>5, Zenon DEF HomeInv
    <3>1. PICK p \in pairs : Home(y, p)
      BY Zenon DEF IInv, HomeInv
    <3>2. p # q
      BY <1>4, <1>12, <3>1, Zenon DEF Home
    <3>3. p.data # q.data
      BY <3>2, Zenon DEF IInv, EntriesNameOwnMetaspan
    <3>4. \A u \in Threads : pc'[u] \in Holding => sp'[u] # p.data
      BY <2>3, <3>1, <3>3, Zenon DEF Home
    <3>5. sizeclass[p.data.start] = 0 => y \notin inSpan' \cup cached'
      BY <1>1, <2>1, <3>1, Zenon DEF Home
    <3>6. Home(y, p)'
      BY <1>1, <3>1, <3>4, <3>5, HomeKept, Zenon
    <3> QED
      BY <1>1, <3>6, Zenon
  <2>8. PlaceInv'
    BY <1>1, <1>2, <2>1, <2>3, SMTT(30) DEF IInv, PlaceInv
  <2>9. TypeOK'
    BY <1>1, <1>2, <1>5, <1>6, <1>8, <2>1, <2>2, Zenon DEF TypeOK, PCs
  <2>10. CacheInv'
    BY <1>1, <1>10, <2>3, Zenon
  <2> QED
    BY <1>9, <2>6, <2>7, <2>8, <2>9, <2>10, Zenon DEF IInv
<1> QED
  BY <1>11, <1>12, Zenon

LEMMA ReleaseToSpansStep ==
  ASSUME IInv, NEW t \in Threads, NEW o \in cached, ReleaseToSpans(t, o)
  PROVE  IInv'
<1>1. o \in Objects
  BY Zenon DEF Objects
<1>2. PICK q \in pairs : Home(o, q) /\ GetDescriptor(PageOf(o)) = q.data
  BY <1>1, ClassOfObject, Zenon
<1> DEFINE d == q.data
           objects == ObjectsOf(d, sizeclass[d.start])
<1>3. sizeclass[d.start] # 0 /\ o \in objects
  BY <1>2, Zenon DEF Home
<1>4. /\ pc[t] = "idle" /\ cached' = cached \ {o}
      /\ alloc' = alloc /\ pageTable' = pageTable /\ sizeclass' = sizeclass
      /\ cache' = cache /\ live' = live /\ pairs' = pairs /\ fault' = fault
  BY Zenon DEF ReleaseToSpans
<1>5. /\ TypeOK /\ pc \in [Threads -> PCs] /\ ob \in [Threads -> Nat]
      /\ sp \in [Threads -> Span \cup {NoSpan}] /\ d \in Span
  BY PairFacts, Zenon DEF IInv, TypeOK
<1>6. AllocDisjoint' /\ EntriesNameOwnMetaspan' /\ NoFault'
  BY <1>4, SameHeap, Zenon
<1>7. CASE LastReference(objects, o)
  <2>1. inSpan' = inSpan \ objects /\ Goto(t, "release", 0, d)
    BY <1>2, <1>7, Zenon DEF ReleaseToSpans
  <2>2. /\ pc' = [pc EXCEPT ![t] = "release"]
        /\ ob' = [ob EXCEPT ![t] = 0]
        /\ sp' = [sp EXCEPT ![t] = d]
    BY <2>1, Zenon DEF Goto
  <2>3. /\ \A u \in Threads : u # t => pc'[u] = pc[u] /\ sp'[u] = sp[u] /\ ob'[u] = ob[u]
        /\ pc'[t] = "release" /\ sp'[t] = d
    BY <1>5, <2>2, Zenon
  <2>4. \A u \in Threads : pc[u] \in Holding => sp[u] # d /\ u # t
    BY <1>2, <1>4, Zenon DEF Home, Holding
  <2>5. objects \subseteq inSpan \cup {o}
    BY <1>7, Zenon DEF LastReference
  <2>6. Objects' \subseteq Objects \ objects
    <3>1. objects \cap (cached \ {o}) = {}
      BY <2>5, SMTT(30) DEF IInv, PlaceInv
    <3>2. objects \cap DOMAIN live = {}
      BY <2>5, Zenon DEF IInv, PlaceInv
    <3>3. \A u \in Threads : pc[u] = "reset" => ob[u] \notin objects
      BY <2>5, Zenon DEF IInv, PlaceInv
    <3> QED
      BY <1>4, <2>1, <2>3, <3>1, <3>2, <3>3, SMTT(30) DEF Objects
  <2>7. HoldInv'
    <3>1. ASSUME NEW u \in Threads, pc'[u] \in Holding
          PROVE  /\ \E p \in pairs' : p.data = sp'[u]
                 /\ pc'[u] = "carve" => sizeclass'[sp'[u].start] # 0
      BY <1>4, <2>3, <3>1, SMTT(30) DEF IInv, HoldInv
    <3>2. ASSUME NEW u \in Threads, NEW v \in Threads,
                 pc'[u] \in Holding, pc'[v] \in Holding, u # v
          PROVE  sp'[u] # sp'[v]
      BY <2>3, <2>4, <3>2, SMTT(30) DEF IInv, HoldInv
    <3> QED
      BY <3>1, <3>2, ZenonT(30) DEF HoldInv
  <2>8. HomeInv'
    <3> SUFFICES ASSUME NEW y \in Objects, y \notin objects
                 PROVE  \E p \in pairs' : Home(y, p)'
      BY <2>6, Zenon DEF HomeInv
    <3>1. PICK p \in pairs : Home(y, p)
      BY Zenon DEF IInv, HomeInv
    <3>2. p # q
      BY <1>3, <3>1, Zenon DEF Home
    <3>3. p.data # q.data
      BY <3>2, Zenon DEF IInv, EntriesNameOwnMetaspan
    <3>4. \A u \in Threads : pc'[u] \in Holding => sp'[u] # p.data
      BY <2>3, <3>1, <3>3, Zenon DEF Home
    <3>5. sizeclass[p.data.start] = 0 => y \notin inSpan' \cup cached'
      BY <1>4, <2>1, <3>1, Zenon DEF Home
    <3>6. Home(y, p)'
      BY <1>4, <3>1, <3>4, <3>5, HomeKept, ZenonT(30)
    <3> QED
      BY <1>4, <3>6, Zenon
  <2>9. PlaceInv'
    BY <1>4, <2>1, <2>3, SMTT(30) DEF IInv, PlaceInv
  <2>10. TypeOK'
    BY <1>4, <1>5, <2>1, <2>2, Zenon DEF TypeOK, PCs
  <2>11. CacheInv'
    <3>1. \A u \in Threads : pc[u] = "carve" => pc'[u] = pc[u] /\ sp'[u] = sp[u]
      BY <1>4, <2>3, Zenon
    <3> QED
      BY <1>4, <3>1, SameCache, Zenon
  <2> QED
    BY <1>6, <2>7, <2>8, <2>9, <2>10, <2>11, Zenon DEF IInv
<1>8. CASE ~ LastReference(objects, o)
  <2>1. inSpan' = inSpan \cup {o} /\ pc' = pc /\ ob' = ob /\ sp' = sp
    BY <1>2, <1>8, Zenon DEF ReleaseToSpans, threadVars
  <2>2. Objects' = Objects
    BY <1>4, <2>1, Zenon DEF Objects
  <2>3. HoldInv' /\ HomeInv' /\ CacheInv'
    BY <1>4, <2>1, <2>2, SameHold, SameHome, SameCache, Zenon
  <2>4. TypeOK'
    BY <1>4, <1>5, <2>1, Zenon DEF TypeOK
  <2>5. PlaceInv'
    BY <1>4, <2>1, Zenon DEF IInv, PlaceInv
  <2> QED
    BY <1>6, <2>3, <2>4, <2>5, Zenon DEF IInv
<1> QED
  BY <1>7, <1>8, Zenon

\* ReleaseSpan and FreeLarge.
LEMMA GiveBackStep ==
  ASSUME GranulesPositive, IInv,
         NEW t \in Threads, pc[t] \in {"release", "free_large"},
         Unpair(t, sp[t])
  PROVE  IInv'
<1>1. pc[t] \in Holding
  BY Zenon DEF Holding
<1>2. /\ fault' = fault
      /\ alloc' \subseteq Span
      /\ pageTable' \in [MetaPage -> Entry]
      /\ sizeclass' \in [0 .. NPages -> Classes \cup {0}]
      /\ pairs' \subseteq [data : Span, meta : Span]
      /\ AllocDisjoint' /\ EntriesNameOwnMetaspan'
      /\ \A p \in pairs : p.data # sp[t] => p \in pairs'
      /\ \A p \in pairs' :
           /\ p \in pairs /\ p.data # sp[t]
           /\ sizeclass'[p.data.start] = sizeclass[p.data.start]
  BY <1>1, UnpairStep, Zenon
<1>3. cache' = cache /\ inSpan' = inSpan /\ cached' = cached /\ live' = live
  BY Zenon DEF Unpair
<1>4. /\ pc' = [pc EXCEPT ![t] = "idle"]
      /\ ob' = [ob EXCEPT ![t] = 0]
      /\ sp' = [sp EXCEPT ![t] = NoSpan]
  BY Zenon DEF Unpair, Return, Goto
<1>5. /\ TypeOK /\ pc \in [Threads -> PCs] /\ ob \in [Threads -> Nat]
      /\ sp \in [Threads -> Span \cup {NoSpan}]
  BY Zenon DEF IInv, TypeOK
<1>6. /\ \A u \in Threads : u # t => pc'[u] = pc[u] /\ sp'[u] = sp[u] /\ ob'[u] = ob[u]
      /\ pc'[t] = "idle"
  BY <1>4, <1>5, Zenon
<1>7. \A u \in Threads : pc'[u] \in Holding =>
        u # t /\ pc'[u] = pc[u] /\ sp'[u] = sp[u] /\ sp[u] # sp[t]
  BY <1>1, <1>6, Zenon DEF IInv, HoldInv, Holding
<1>8. Objects' = Objects
  BY <1>3, <1>6, Zenon DEF Objects
<1>9. HoldInv'
  <2>1. ASSUME NEW u \in Threads, pc'[u] \in Holding
        PROVE  /\ \E p \in pairs' : p.data = sp'[u]
               /\ pc'[u] = "carve" => sizeclass'[sp'[u].start] # 0
    <3>1. PICK p \in pairs : p.data = sp[u]
      BY <1>7, <2>1, Zenon DEF IInv, HoldInv
    <3> QED
      BY <1>2, <1>7, <2>1, <3>1, SMTT(30) DEF IInv, HoldInv
  <2>2. ASSUME NEW u \in Threads, NEW v \in Threads,
               pc'[u] \in Holding, pc'[v] \in Holding, u # v
        PROVE  sp'[u] # sp'[v]
    BY <1>7, <2>2, ZenonT(30) DEF IInv, HoldInv
  <2> QED
    BY <2>1, <2>2, Zenon DEF HoldInv
<1>10. HomeInv'
  <2> SUFFICES ASSUME NEW y \in Objects
               PROVE  \E p \in pairs' : Home(y, p)'
    BY <1>8, Zenon DEF HomeInv
  <2>1. PICK p \in pairs : Home(y, p)
    BY Zenon DEF IInv, HomeInv
  <2>2. p.data # sp[t]
    BY <1>1, <2>1, Zenon DEF Home
  <2>3. /\ \A u \in Threads : pc'[u] \in Holding => sp'[u] # p.data
        /\ sizeclass[p.data.start] = 0 => y \notin inSpan' \cup cached'
        /\ p \in pairs' /\ sizeclass'[p.data.start] = sizeclass[p.data.start]
    BY <1>2, <1>3, <1>7, <2>1, <2>2, Zenon DEF Home
  <2>4. Home(y, p)'
    BY <2>1, <2>3, HomeKept, Zenon
  <2> QED
    BY <2>3, <2>4, Zenon
<1>11. PlaceInv'
  BY <1>3, <1>6, Zenon DEF IInv, PlaceInv
<1>12. CacheInv'
  <2> SUFFICES ASSUME NEW p \in pairs',
                      \A u \in Threads : pc'[u] = "carve" => sp'[u] # p.data,
                      NEW x \in PagesOf(p.data),
                      sizeclass'[p.data.start] # 0 \/ x = p.data.start
               PROVE  GetSizeClassIfCached(x)' \in {0, sizeclass'[p.data.start]}
    BY Zenon DEF CacheInv, PagesOf, LastPage
  <2>1. p \in pairs /\ sizeclass'[p.data.start] = sizeclass[p.data.start]
    BY <1>2, Zenon
  <2>2. \A u \in Threads : pc[u] = "carve" => sp[u] # p.data
    BY <1>6, Zenon
  <2>3. GetSizeClassIfCached(x)' = GetSizeClassIfCached(x)
    BY <1>3, Zenon DEF GetSizeClassIfCached
  <2> QED
    BY <2>1, <2>2, <2>3, Zenon DEF IInv, CacheInv
<1>13. TypeOK'
  <2>1. /\ pc' \in [Threads -> PCs] /\ ob' \in [Threads -> Nat]
        /\ sp' \in [Threads -> Span \cup {NoSpan}]
    BY <1>4, <1>5, Zenon DEF PCs
  <2> QED
    BY <1>2, <1>3, <1>5, <2>1, Zenon DEF TypeOK
<1>14. NoFault'
  BY <1>2, Zenon DEF IInv, NoFault
<1> QED
  BY <1>2, <1>9, <1>10, <1>11, <1>12, <1>13, <1>14, Zenon DEF IInv

-----------------------------------------------------------------------------
(* The granules.                                                           *)

\* A non-empty set of naturals with an upper bound has a greatest element.
LEMMA BoundedHasMax ==
  ASSUME NEW n \in Nat, NEW S \in SUBSET (1 .. n), S # {}
  PROVE  \E g \in S : \A h \in S : h <= g
<1> DEFINE T == {n - g : g \in S}
<1>1. T \subseteq Nat /\ T # {}
  <2>1. \A g \in S : n - g \in Nat
    OBVIOUS
  <2>2. PICK g \in S : TRUE
    BY Zenon
  <2> QED
    BY <2>1, <2>2, Zenon
<1>2. \E x \in T : \A y \in T : ~ (<<y, x>> \in OpToRel(<, Nat))
  BY <1>1, WFMin, NatLessThanWellFounded, Zenon
<1>3. PICK x \in T : \A y \in T : ~ (y < x)
  BY <1>1, <1>2, Zenon DEF OpToRel
<1>4. PICK g \in S : x = n - g
  BY <1>3, Zenon
<1>5. \A h \in S : ~ (n - h < n - g)
  BY <1>3, <1>4, Zenon
<1> QED
  BY <1>5, SMTT(30)

\* AlignmentBitsForSize always finds a power of two.
LEMMA GranuleType == GranulesPositive
<1> SUFFICES ASSUME NEW c \in Classes \cup {0} PROVE GranuleOf(c) \in Nat \ {0}
  BY Zenon DEF GranulesPositive
<1>1. CASE c = 0
  BY <1>1, GeometryAssumption, Zenon DEF GranuleOf
<1>2. CASE c # 0
  <2> DEFINE D == CommonDivisors(ClassSize[c])
  <2>1. D \subseteq 1 .. kPageSize
    BY Zenon DEF CommonDivisors
  <2>2. 1 \in D
    BY <1>2, ClassAssumption, GeometryAssumption, SMTT(30) DEF CommonDivisors
  <2>3. \E g \in D : \A h \in D : h <= g
    BY <2>1, <2>2, GeometryAssumption, BoundedHasMax, Zenon
  <2>4. Granule(c) \in D
    BY <2>3, Zenon DEF Granule
  <2> QED
    BY <1>2, <2>1, <2>4, GeometryAssumption, SMTT(30) DEF GranuleOf
<1> QED
  BY <1>1, <1>2, Zenon

-----------------------------------------------------------------------------
(* The theorems.                                                           *)

LEMMA InitInv == Init => IInv
<1> SUFFICES ASSUME Init PROVE IInv
  OBVIOUS
<1> USE DEF Init, AllocInit
<1>1. TypeOK
  <2>1. SentinelAddr \in Nat \ {0}
    BY NPagesAssumption, GeometryAssumption, MulNat, SMTT(30) DEF SentinelAddr
  <2>2. pageTable \in [MetaPage -> Entry]
    BY <2>1, SMTT(30) DEF Entry, ZeroEntry, SentinelEntry
  <2>3. cache \in [0 .. CacheSlots - 1 ->
                     [page : 0 .. NPages, cl : Classes \cup {0}]]
    BY NPagesAssumption, SMTT(30)
  <2> QED
    BY <2>2, <2>3, Zenon DEF TypeOK, PCs
<1>2. Objects = {}
  BY Zenon DEF Objects
<1> QED
  BY <1>1, <1>2, Zenon DEF IInv, AllocDisjoint, EntriesNameOwnMetaspan, NoFault,
     HoldInv, HomeInv, PlaceInv, CacheInv, Holding

LEMMA NextInv == IInv /\ [Next]_vars => IInv'
<1> SUFFICES ASSUME IInv, [Next]_vars PROVE IInv'
  OBVIOUS
<1>1. CASE UNCHANGED vars
  <2> USE <1>1 DEF vars
  <2>1. Objects' = Objects
    BY Zenon DEF Objects
  <2>2. HoldInv' /\ HomeInv' /\ CacheInv'
    BY <2>1, SameHold, SameHome, SameCache, Zenon
  <2>3. AllocDisjoint' /\ EntriesNameOwnMetaspan' /\ NoFault'
    BY SameHeap, Zenon
  <2>4. TypeOK' /\ PlaceInv'
    BY Zenon DEF IInv, TypeOK, PlaceInv
  <2> QED
    BY <2>2, <2>3, <2>4, Zenon DEF IInv
<1>2. CASE \E t \in Threads, n \in LargeLens : MallocLarge(t, n)
  BY <1>2, GranuleType, MallocLargeStep, Zenon
<1>3. CASE \E t \in Threads, n \in LargeLens, a \in Aligns : Memalign(t, n, a)
  BY <1>3, GranuleType, MemalignStep, Zenon
<1>4. CASE \E t \in Threads, c \in Classes : Populate(t, c)
  BY <1>4, GranuleType, PopulateStep, Zenon
<1>5. CASE \E t \in Threads : Carve(t)
  BY <1>5, CarveStep, Zenon
<1>6. CASE \E o \in inSpan : Fetch(o)
  BY <1>6, FetchStep, Zenon
<1>7. CASE \E t \in Threads, o \in cached : MallocSmall(t, o)
  BY <1>7, MallocSmallStep, Zenon
<1>8. CASE \E t \in Threads : ResetMetadata(t)
  BY <1>8, GranuleType, ResetMetadataStep, Zenon
<1>9. CASE \E t \in Threads, o \in DOMAIN live : Free(t, o)
  BY <1>9, FreeStep, Zenon
<1>10. CASE \E t \in Threads, o \in cached : ReleaseToSpans(t, o)
  BY <1>10, ReleaseToSpansStep, Zenon
<1>11. CASE \E t \in Threads : ReleaseSpan(t)
  BY <1>11, GranuleType, GiveBackStep, Zenon DEF ReleaseSpan
<1>12. CASE \E t \in Threads : FreeLarge(t)
  BY <1>12, GranuleType, GiveBackStep, Zenon DEF FreeLarge
<1>13. CASE \E o \in DOMAIN live, v \in MetaValues : MetaSet(o, v)
  BY <1>13, ProgramStep, Zenon
<1>14. CASE \E o \in DOMAIN live : UserWrite(o)
  BY <1>14, ProgramStep, Zenon
<1>15. CASE \E o \in DOMAIN live : GetSize(o)
  BY <1>15, GetSizeStep, Zenon
<1> QED
  BY <1>1, <1>2, <1>3, <1>4, <1>5, <1>6, <1>7, <1>8, <1>9, <1>10, <1>11, <1>12,
     <1>13, <1>14, <1>15, Zenon DEF Next

LEMMA Invariance == Spec => []IInv
  BY InitInv, NextInv, PTL DEF Spec

\* The variables of the metadata layer have their types, for any number of
\* threads, pages, size classes and cache slots.
THEOREM MetaHeapType == Spec => []TypeOK
<1>1. IInv => TypeOK
  BY Zenon DEF IInv
<1> QED
  BY <1>1, Invariance, PTL

\* The entries of a span in use name its own metaspan, whatever the threads do
\* in the windows without lock of Populate, ReleaseToSpans and do_free: so the
\* metaspan those functions look up is the one that was allocated for the span.
THEOREM OwnMetaspan == Spec => []EntriesNameOwnMetaspan
<1>1. IInv => EntriesNameOwnMetaspan
  BY Zenon DEF IInv
<1> QED
  BY <1>1, Invariance, PTL

\* The page heap is only asked to delete spans that it handed out and that were
\* not deleted since, and reset_metadata never writes through a null entry.
THEOREM NeverFaults == Spec => []NoFault
<1>1. IInv => NoFault
  BY Zenon DEF IInv
<1> QED
  BY <1>1, Invariance, PTL

\* No span is given back while the program, a cache or a thread in the middle
\* of an allocation holds an object of it.
THEOREM SpansOutliveObjects == Spec => []ObjectsInAllocatedSpans
<1>1. IInv => ObjectsInAllocatedSpans
  <2> SUFFICES ASSUME IInv, NEW o \in Objects
               PROVE  /\ \E p \in pairs : PageOf(o) \in PagesOf(p.data)
                      /\ \A t \in Threads : pc[t] \in {"release", "free_large"} =>
                           PageOf(o) \notin PagesOf(sp[t])
    BY Zenon DEF ObjectsInAllocatedSpans
  <2>1. PICK p \in pairs : PageOf(o) \in PagesOf(p.data)
    BY ClassOfObject, Zenon
  <2> QED
    BY <2>1, NoObjectInHeld, Zenon DEF Holding
<1> QED
  BY <1>1, Invariance, PTL

\* The size class that do_free takes from the direct-mapped cache, written by
\* any thread without a lock and never invalidated, is right.
THEOREM CacheNeverStale == Spec => []CachedClassCorrect
<1>1. IInv => CachedClassCorrect
  <2> SUFFICES ASSUME IInv, NEW o \in Objects
               PROVE  GetSizeClassIfCached(PageOf(o))
                        \in {0, sizeclass[GetDescriptor(PageOf(o)).start]}
    BY Zenon DEF CachedClassCorrect
  <2>1. PICK p \in pairs : /\ GetDescriptor(PageOf(o)) = p.data
                           /\ ClassAt(PageOf(o)) = sizeclass[p.data.start]
    BY ClassOfObject, Zenon
  <2> QED
    BY <2>1, Zenon DEF ClassAt
<1> QED
  BY <1>1, Invariance, PTL

\* A step keeps the pair and the size class of every span no thread holds.
LEMMA PairsKept ==
  ASSUME IInv, [Next]_vars, NEW p \in pairs,
         \A u \in Threads : pc[u] \in Holding => sp[u] # p.data
  PROVE  p \in pairs' /\ sizeclass'[p.data.start] = sizeclass[p.data.start]
<1>1. ASSUME NEW d \in Span, LastPage(d) <= NPages, \A s \in alloc : Apart(d, s),
             NEW c \in Classes \cup {0}, NEW m \in MetaRuns(d, c), Pair(d, m, c)
      PROVE  p \in pairs' /\ sizeclass'[p.data.start] = sizeclass[p.data.start]
  BY <1>1, GranuleType, PairStep, SMTT(30)
<1>2. ASSUME NEW t \in Threads, pc[t] \in {"release", "free_large"},
             Unpair(t, sp[t])
      PROVE  p \in pairs' /\ sizeclass'[p.data.start] = sizeclass[p.data.start]
  BY <1>2, GranuleType, UnpairStep, Zenon DEF Holding
<1>3. CASE \E t \in Threads, n \in LargeLens : MallocLarge(t, n)
  <2>1. PICK n \in LargeLens : \E t \in Threads : MallocLarge(t, n)
    BY <1>3, Zenon
  <2>2. PICK d \in FreeRuns(alloc, n) : \E m \in MetaRuns(d, 0) : Pair(d, m, 0)
    BY <2>1, Zenon DEF MallocLarge
  <2>3. d \in Span /\ LastPage(d) <= NPages /\ \A s \in alloc : Apart(d, s)
    BY Zenon DEF FreeRuns
  <2> QED
    BY <1>1, <2>2, <2>3, Zenon
<1>4. CASE \E t \in Threads, n \in LargeLens, a \in Aligns : Memalign(t, n, a)
  <2>1. PICK n \in LargeLens, a \in Aligns : \E t \in Threads : Memalign(t, n, a)
    BY <1>4, Zenon
  <2>2. n \in Nat \ {0} /\ a \in Nat \ {0} /\ alloc \subseteq Span
    BY RequestAssumption, Zenon DEF IInv, TypeOK
  <2>3. PICK r \in FreeRuns(alloc, IF a = 1 THEN n ELSE n + a) :
           \E m \in MetaRuns(AlignedPart(r, n, a), 0) :
             Pair(AlignedPart(r, n, a), m, 0)
    BY <2>1, Zenon DEF Memalign
  <2> DEFINE d == AlignedPart(r, n, a)
  <2>4. d \in Span /\ LastPage(d) <= NPages /\ \A s \in alloc : Apart(d, s)
    BY <2>2, AlignedPartFacts, Zenon
  <2> QED
    BY <1>1, <2>3, <2>4, Zenon
<1>5. CASE \E t \in Threads, c \in Classes : Populate(t, c)
  <2>1. PICK c \in Classes : \E t \in Threads : Populate(t, c)
    BY <1>5, Zenon
  <2>2. PICK d \in FreeRuns(alloc, ClassPages[c]) :
          \E m \in MetaRuns(d, c) : Pair(d, m, c)
    BY <2>1, Zenon DEF Populate
  <2>3. d \in Span /\ LastPage(d) <= NPages /\ \A s \in alloc : Apart(d, s)
    BY Zenon DEF FreeRuns
  <2> QED
    BY <1>1, <2>2, <2>3, Zenon
<1>6. CASE \E t \in Threads : ReleaseSpan(t) \/ FreeLarge(t)
  BY <1>2, <1>6, Zenon DEF ReleaseSpan, FreeLarge
<1>7. CASE \/ \E t \in Threads : Carve(t)
           \/ \E o \in inSpan : Fetch(o)
           \/ \E t \in Threads, o \in cached : MallocSmall(t, o)
           \/ \E t \in Threads : ResetMetadata(t)
           \/ \E t \in Threads, o \in DOMAIN live : Free(t, o)
           \/ \E t \in Threads, o \in cached : ReleaseToSpans(t, o)
           \/ \E o \in DOMAIN live, v \in MetaValues : MetaSet(o, v)
           \/ \E o \in DOMAIN live : GetSize(o) \/ UserWrite(o)
           \/ UNCHANGED vars
  <2>1. pairs' = pairs /\ sizeclass' = sizeclass
    BY <1>7, Zenon DEF Carve, Fetch, MallocSmall, ResetMetadata, Free, ReleaseToSpans,
       MetaSet, GetSize, UserWrite, vars
  <2> QED
    BY <2>1, Zenon
<1> QED
  BY <1>3, <1>4, <1>5, <1>6, <1>7, Zenon DEF Next

\* The entry of an object does not change while the program holds the object,
\* as mid-fat pointers and the inlined metadata lookups need.
THEOREM EntryStable == Spec => EntryStableWhileLive
<1> DEFINE Stable == \A o \in DOMAIN live \cap DOMAIN live' :
                       get_metapagetable_entry(pageTable, o)'
                         = get_metapagetable_entry(pageTable, o)
<1>1. IInv /\ IInv' /\ [Next]_vars => [Stable]_vars
  <2> SUFFICES ASSUME IInv, IInv', [Next]_vars, NEW o \in DOMAIN live
               PROVE  get_metapagetable_entry(pageTable, o)'
                        = get_metapagetable_entry(pageTable, o)
    OBVIOUS
  <2>1. o \in Objects
    BY Zenon DEF Objects
  <2>2. PICK p \in pairs : Home(o, p)
    BY <2>1, Zenon DEF IInv, HomeInv
  <2>3. o \in Nat /\ PageOf(o) \in PagesOf(p.data) /\ p.data \in Span
    BY <2>2, HomeFacts, PairFacts, Zenon DEF IInv
  <2>4. PICK i \in 0 .. p.data.len * Ratio - 1 :
           o \div METALLOC_PAGESIZE = FirstMetaPage(p.data) + i
    BY <2>3, AddressEntry, Zenon
  <2> DEFINE k == FirstMetaPage(p.data) + i
             e == EntryAt(BaseOf(p.meta), i, GranuleOf(sizeclass[p.data.start]))
  <2>5. p \in pairs' /\ sizeclass'[p.data.start] = sizeclass[p.data.start]
    BY <2>2, PairsKept, Zenon DEF Home
  <2>6. pageTable[k] = e
    BY Zenon DEF IInv, EntriesNameOwnMetaspan
  <2>7. pageTable'[k] = e
    BY <2>5, Zenon DEF IInv, EntriesNameOwnMetaspan, EntryAt, GranuleOf, BaseOf,
       FirstMetaPage
  <2> QED
    BY <2>4, <2>6, <2>7, Zenon DEF get_metapagetable_entry
<1> QED
  BY <1>1, Invariance, PTL DEF Spec, EntryStableWhileLive

-----------------------------------------------------------------------------
(* Where the metadata of an object is.                                     *)

\* The quotients of the parts add up when the granule divides the METALLOC page
\* or is made of METALLOC pages.
QuotientsAdd(i, y, g, M) == (i * M) \div g + y \div g = (i * M + y) \div g

LEMMA DivSum ==
  ASSUME NEW i \in Nat, NEW y \in Nat, NEW g \in Nat \ {0}, NEW M \in Nat \ {0},
         y < M, M % g = 0 \/ g % M = 0
  PROVE  QuotientsAdd(i, y, g, M)
<1> SUFFICES (i * M) \div g + y \div g = (i * M + y) \div g
  BY Zenon DEF QuotientsAdd
<1>1. i * M \in Nat /\ i * M + y \in Nat
  BY MulNat, SMTT(30)
<1>2. CASE M % g = 0
  <2>1. PICK h \in Int : h = M \div g
    BY DivMod, SMTT(30)
  <2>2. M = g * h
    BY <1>2, <2>1, DivMod, SMTT(30)
  <2>3. PICK q \in Int : q = y \div g
    BY DivMod, SMTT(30)
  <2>4. PICK s \in 0 .. g - 1 : y = g * q + s
    <3>1. y % g \in 0 .. g - 1 /\ y = g * (y \div g) + (y % g)
      BY DivMod, SMTT(30)
    <3> QED
      BY <2>3, <3>1, Zenon
  <2>5. PICK a \in Int : a = i * h
    BY <2>1, SMTT(30)
  <2>6. i * M = a * g
    <3>1. i * (g * h) = (i * h) * g
      BY <2>1, SMTT(30)
    <3> QED
      BY <2>2, <2>5, <3>1, Zenon
  <2>7. (i * M) \div g = a
    BY <2>5, <2>6, DivProduct, Zenon
  <2>8. (a + q) * g <= i * M + y /\ i * M + y < (a + q) * g + g
    <3>1. (a + q) * g = a * g + g * q
      BY <2>3, <2>5, SMTT(30)
    <3>2. a * g \in Int /\ g * q \in Int
      BY <2>3, <2>5, SMTT(30)
    <3> QED
      BY <2>4, <2>6, <3>1, <3>2, SMTT(30)
  <2>9. (i * M + y) \div g = a + q
    <3>1. i * M + y \in Int /\ a + q \in Int
      BY <1>1, <2>3, <2>5, SMTT(30)
    <3> QED
      BY <2>8, <3>1, DivUnique, Zenon
  <2> QED
    BY <2>3, <2>7, <2>9, Zenon
<1>3. CASE g % M = 0
  <2>1. PICK h \in Int : h = g \div M
    BY DivMod, SMTT(30)
  <2>2. g = M * h
    BY <1>3, <2>1, DivMod, SMTT(30)
  <2>3. PICK z \in Nat : z = i * M
    BY <1>1, Zenon
  <2>4. PICK q \in Int : q = z \div g
    BY <2>3, DivMod, SMTT(30)
  <2>5. PICK s \in 0 .. g - 1 : z = g * q + s
    <3>1. z % g \in 0 .. g - 1 /\ z = g * (z \div g) + (z % g)
      BY DivMod, SMTT(30)
    <3> QED
      BY <2>4, <3>1, Zenon
  <2>6. PICK u \in Int : u = i - h * q
    BY <2>1, <2>4, SMTT(30)
  <2>7. s = u * M
    <3>1. (i - h * q) * M = i * M - (M * h) * q
      BY <2>1, <2>4, SMTT(30)
    <3> QED
      BY <2>2, <2>3, <2>4, <2>5, <2>6, <3>1, SMTT(30)
  <2>8. u < h
    <3> SUFFICES ASSUME h <= u PROVE FALSE
      BY <2>1, <2>6, SMTT(30)
    <3>1. h * M <= u * M
      BY <2>1, <2>6, MulMono, Zenon
    <3>2. h * M = g
      BY <2>1, <2>2, SMTT(30)
    <3> QED
      BY <2>5, <2>7, <3>1, <3>2, SMTT(30)
  <2>9. u * M + M <= h * M
    BY <2>1, <2>6, <2>8, MulGap, Zenon
  <2>10. s + y < g
    BY <2>1, <2>2, <2>5, <2>7, <2>9, SMTT(30)
  <2>11. q * g <= z + y /\ z + y < q * g + g
    BY <2>3, <2>4, <2>5, <2>10, SMTT(30)
  <2>12. (z + y) \div g = q
    <3>1. z + y \in Int
      BY <2>3, SMTT(30)
    <3> QED
      BY <2>4, <2>11, <3>1, DivUnique, Zenon
  <2>13. y \div g = 0
    <3>1. 0 * g <= y /\ y < 0 * g + g
      BY <2>5, <2>10, SMTT(30)
    <3>2. 0 \in Int /\ y \in Int
      BY SMTT(30)
    <3> QED
      BY <3>1, <3>2, DivUnique, Zenon
  <2> QED
    BY <2>3, <2>4, <2>12, <2>13, SMTT(30)
<1> QED
  BY <1>2, <1>3

\* The granule divides the page, and the size of the objects it is for.
LEMMA GranuleDivides ==
  ASSUME NEW c \in Classes \cup {0}
  PROVE  /\ GranuleOf(c) \in Nat \ {0}
         /\ \E h \in Nat \ {0} : kPageSize = h * GranuleOf(c)
         /\ c # 0 => \E h \in Nat \ {0} : ClassSize[c] = h * GranuleOf(c)
         /\ METALLOC_PAGESIZE % GranuleOf(c) = 0 \/ GranuleOf(c) % METALLOC_PAGESIZE = 0
<1>0. ASSUME NEW n \in Nat \ {0}, NEW g \in Nat \ {0}, n % g = 0
      PROVE  \E h \in Nat \ {0} : n = h * g
  <2>1. n \div g \in Nat /\ n = (n \div g) * g
    BY <1>0, DivNat, DivMod, SMTT(30)
  <2>2. n \div g # 0
    BY <2>1, SMTT(30)
  <2> QED
    BY <2>1, <2>2, Zenon
<1>1. GranuleOf(c) \in Nat \ {0}
  BY GranuleType, Zenon DEF GranulesPositive
<1>2. /\ GranuleOf(c) \in 1 .. kPageSize /\ kPageSize % GranuleOf(c) = 0
      /\ c # 0 => ClassSize[c] % GranuleOf(c) = 0
  <2>1. CASE c = 0
    BY <2>1, GeometryAssumption, SMTT(30) DEF GranuleOf
  <2>2. CASE c # 0
    <3> DEFINE D == CommonDivisors(ClassSize[c])
    <3>1. D \subseteq 1 .. kPageSize
      BY Zenon DEF CommonDivisors
    <3>2. 1 \in D
      BY <2>2, ClassAssumption, GeometryAssumption, SMTT(30) DEF CommonDivisors
    <3>3. \E g \in D : \A h \in D : h <= g
      BY <3>1, <3>2, GeometryAssumption, BoundedHasMax, Zenon
    <3>4. Granule(c) \in D
      BY <3>3, Zenon DEF Granule
    <3> QED
      BY <2>2, <3>4, Zenon DEF CommonDivisors, GranuleOf
  <2> QED
    BY <2>1, <2>2
<1>3. kPageSize \in Nat \ {0} /\ (c # 0 => ClassSize[c] \in Nat \ {0})
  BY GeometryAssumption, ClassAssumption
<1>4. METALLOC_PAGESIZE % GranuleOf(c) = 0 \/ GranuleOf(c) % METALLOC_PAGESIZE = 0
  BY <1>2, PowerOfTwoAssumption, Zenon
<1>5. \E h \in Nat \ {0} : kPageSize = h * GranuleOf(c)
  BY <1>0, <1>1, <1>2, <1>3, Zenon
<1>6. c # 0 => \E h \in Nat \ {0} : ClassSize[c] = h * GranuleOf(c)
  BY <1>0, <1>1, <1>2, <1>3, ZenonT(30)
<1> QED
  BY <1>1, <1>4, <1>5, <1>6

\* The objects of a span d of class c, their size, and the words for one of
\* them in the metaspan m.
ObjectAt(o, d, c) == IF c = 0 THEN o = BaseOf(d) ELSE o \in ObjectsOf(d, c)
SizeIn(d, c) == IF c = 0 THEN BytesOf(d) ELSE ClassSize[c]
WordsAt(d, m, c, o) ==
  {BaseOf(m) + ((o - BaseOf(d)) \div GranuleOf(c) + i) * METADATABYTES :
     i \in 0 .. SizeIn(d, c) \div GranuleOf(c) - 1}

\* An object is the j-th of its span and has h granules.
Located(o, d, c, j, h) ==
  /\ j \in Nat /\ h \in Nat \ {0}
  /\ SizeIn(d, c) = h * GranuleOf(c)
  /\ o = BaseOf(d) + (j * h) * GranuleOf(c)
  /\ (j * h + h) * GranuleOf(c) <= BytesOf(d)

LEMMA ObjectLocated ==
  ASSUME NEW d \in Span, NEW c \in Classes \cup {0}, NEW h \in Nat \ {0},
         SizeIn(d, c) = h * GranuleOf(c), NEW o, ObjectAt(o, d, c)
  PROVE  \E j \in Nat : Located(o, d, c, j, h)
<1>1. PICK g \in Nat \ {0} : g = GranuleOf(c)
  BY GranuleDivides, Zenon
<1>2. BaseOf(d) \in Nat \ {0} /\ BytesOf(d) \in Nat
  BY BaseFacts, Zenon
<1>3. CASE c = 0
  <2>1. o = BaseOf(d) /\ BytesOf(d) = h * g
    BY <1>1, <1>3, Zenon DEF ObjectAt, SizeIn
  <2>2. (0 * h) * g = 0 /\ 0 * h + h = h
    BY SMTT(30)
  <2>3. o = BaseOf(d) + (0 * h) * g /\ (0 * h + h) * g <= BytesOf(d)
    BY <1>2, <2>1, <2>2, SMTT(30)
  <2> QED
    BY <1>1, <2>3, Zenon DEF Located
<1>4. CASE c # 0
  <2>1. PICK n \in Nat \ {0} : n = ClassSize[c]
    BY <1>4, ClassAssumption
  <2>2. SizeIn(d, c) = n /\ n = h * g
    BY <1>1, <1>4, <2>1, Zenon DEF SizeIn
  <2>3. PICK k \in Nat : k = BytesOf(d) \div n /\ k * n <= BytesOf(d)
    BY <1>2, <2>1, DivTimes, Zenon
  <2>4. PICK j \in 0 .. k - 1 : o = BaseOf(d) + j * n
    BY <1>4, <2>1, <2>3, Zenon DEF ObjectAt, ObjectsOf
  <2>5. j \in Nat /\ j < k
    BY <2>3, <2>4, SMTT(30)
  <2>6. j * n + n <= k * n
    BY <2>1, <2>3, <2>5, MulGap, SMTT(30)
  <2>7. j * n = (j * h) * g /\ j * n + n = (j * h + h) * g
    <3>1. j * (h * g) = (j * h) * g /\ j * (h * g) + h * g = (j * h + h) * g
      BY <2>5, SMTT(30)
    <3> QED
      BY <2>2, <3>1, Zenon
  <2>8. (j * h + h) * g <= BytesOf(d)
    BY <1>2, <2>1, <2>3, <2>5, <2>6, <2>7, SMTT(30)
  <2>9. o = BaseOf(d) + (j * h) * g
    BY <2>4, <2>7, Zenon
  <2> QED
    BY <1>1, <2>5, <2>8, <2>9, Zenon DEF Located
<1> QED
  BY <1>3, <1>4

\* How many granules an object of the span has.
LEMMA SizeGranules ==
  ASSUME NEW d \in Span, NEW c \in Classes \cup {0}
  PROVE  \E h \in Nat \ {0} : SizeIn(d, c) = h * GranuleOf(c)
<1>1. CASE c = 0
  <2>1. SizeIn(d, c) = d.len * GranuleOf(c) /\ d.len \in Nat \ {0}
    BY <1>1, SpanFacts, Zenon DEF SizeIn, BytesOf, GranuleOf
  <2> QED
    BY <2>1, Zenon
<1>2. CASE c # 0
  BY <1>2, GranuleDivides, Zenon DEF SizeIn
<1> QED
  BY <1>1, <1>2

\* The words of h granules of a span, from granule k on.
WordRun(m, k, h) == {BaseOf(m) + (k + i) * METADATABYTES : i \in 0 .. h - 1}
HasRun(d, m, c, o, k, h) == WordsAt(d, m, c, o) = WordRun(m, k, h)

\* The words of an object, by its place in the span.
LEMMA WordsOfObject ==
  ASSUME NEW d \in Span, NEW c \in Classes \cup {0}, NEW m, NEW o, NEW j, NEW h,
         Located(o, d, c, j, h)
  PROVE  /\ j * h \in Nat /\ o \in Nat
         /\ HasRun(d, m, c, o, j * h, h)
<1>1. PICK g \in Nat \ {0} : g = GranuleOf(c)
  BY GranuleDivides, Zenon
<1>2. PICK b \in Nat : b = BaseOf(d)
  BY BaseFacts, Zenon
<1>3. /\ j \in Nat /\ h \in Nat \ {0}
      /\ SizeIn(d, c) = h * g /\ o = b + (j * h) * g
  BY <1>1, <1>2, Zenon DEF Located
<1>4. PICK k \in Nat : k = j * h
  BY <1>3, MulNat, Zenon
<1>5. k * g \in Nat
  BY <1>1, <1>4, MulNat, Zenon
<1>6. o = b + k * g /\ o - b = k * g /\ o \in Nat
  BY <1>2, <1>3, <1>4, <1>5, SMTT(30)
<1>7. (o - b) \div g = k /\ SizeIn(d, c) \div g = h
  <2>1. k \in Int /\ h \in Int
    BY <1>3, <1>4, SMTT(30)
  <2> QED
    BY <1>3, <1>6, <2>1, DivProduct, Zenon
<1> QED
  BY <1>1, <1>2, <1>4, <1>6, <1>7, Zenon DEF WordsAt, WordRun, HasRun

\* The addresses of a span lie in its pages.
LEMMA AddressInSpan ==
  ASSUME NEW s \in Span, NEW x \in Int, BaseOf(s) <= x, x < BaseOf(s) + BytesOf(s)
  PROVE  x \in Nat /\ PageOf(x) \in PagesOf(s)
<1>1. PICK e \in Int : e = s.start + s.len
  BY SpanFacts, SMTT(30)
<1>2. BaseOf(s) + BytesOf(s) = e * kPageSize
  BY <1>1, SpanFacts, GeometryAssumption, SMTT(30) DEF BaseOf, BytesOf
<1>3. /\ s.start \in Int /\ kPageSize \in Nat \ {0}
      /\ s.start * kPageSize <= x /\ x < e * kPageSize
  BY <1>2, SpanFacts, GeometryAssumption, SMTT(30) DEF BaseOf
<1>4. s.start <= x \div kPageSize /\ x \div kPageSize < e
  BY <1>1, <1>3, DivRange, Zenon
<1>5. x \div kPageSize \in Int
  BY GeometryAssumption, DivMod, Zenon
<1>6. x \in Nat
  BY BaseFacts, SMTT(30)
<1> QED
  BY <1>1, <1>4, <1>5, <1>6, SpanFacts, SMTT(30) DEF PageOf, PagesOf

\* A metaspan of MetaPages pages has room for the words of every object.
LEMMA WordsInMetaspan ==
  ASSUME NEW d \in Span, NEW c \in Classes \cup {0}, NEW m \in Span,
         m.len = MetaPages(d.len, GranuleOf(c)),
         NEW o, ObjectAt(o, d, c), NEW a \in WordsAt(d, m, c, o)
  PROVE  a \in Nat /\ PageOf(a) \in PagesOf(m)
<1>1. PICK g \in Nat \ {0} : g = GranuleOf(c)
  BY GranuleDivides, Zenon
<1>2. PICK h \in Nat \ {0} : SizeIn(d, c) = h * GranuleOf(c)
  BY SizeGranules, Zenon
<1>3. PICK j \in Nat : Located(o, d, c, j, h)
  BY <1>2, ObjectLocated, Zenon
<1>4. j * h \in Nat /\ (j * h + h) * g <= BytesOf(d)
  BY <1>1, <1>3, WordsOfObject, Zenon DEF Located
<1>5. PICK i \in 0 .. h - 1 : a = BaseOf(m) + (j * h + i) * METADATABYTES
  <2>1. HasRun(d, m, c, o, j * h, h)
    BY <1>3, WordsOfObject, Zenon
  <2> QED
    BY <2>1, Zenon DEF HasRun, WordRun
<1>6. PICK k \in Nat : k = j * h + i /\ k + 1 <= j * h + h
  BY <1>2, <1>4, <1>5, SMTT(30)
<1> DEFINE W == METADATABYTES
           P == kPageSize
           n == d.len
           l == m.len
<1>7. W \in Nat \ {0} /\ P \in Nat \ {0} /\ n \in Nat \ {0} /\ l \in Nat \ {0}
  BY GeometryAssumption, SpanFacts, Zenon
<1>8. (k + 1) * g <= n * P
  <2>1. k + 1 \in Int /\ j * h + h \in Int /\ g \in Nat
    BY <1>1, <1>4, <1>6, SMTT(30)
  <2>2. (k + 1) * g <= (j * h + h) * g
    BY <1>6, <2>1, MulMono, Zenon
  <2>3. (k + 1) * g \in Int /\ (j * h + h) * g \in Int /\ n * P \in Int
    BY <1>7, <2>1, SMTT(30)
  <2>4. (j * h + h) * g <= n * P
    BY <1>4, Zenon DEF BytesOf
  <2> QED
    BY <2>2, <2>3, <2>4, SMTT(30)
<1>9. n * W <= l * g
  <2>1. PICK z \in Nat : z = n * W
    BY <1>7, MulNat, Zenon
  <2>2. PICK y \in Int : y = z + g - 1
    BY <2>1, SMTT(30)
  <2>3. l = y \div g
    BY <1>1, <2>1, <2>2, Zenon DEF MetaPages
  <2>4. y < g * l + g
    <3>0. y % g \in 0 .. g - 1 /\ y = g * (y \div g) + (y % g)
      BY <1>1, <2>2, DivMod, Zenon
    <3>1. y % g \in 0 .. g - 1 /\ y = g * l + (y % g)
      BY <2>3, <3>0, Zenon
    <3>2. g * l \in Int
      BY <1>7, SMTT(30)
    <3> HIDE DEF l
    <3> QED
      BY <1>1, <2>2, <3>1, <3>2, SMTT(30)
  <2>5. g * l = l * g /\ l * g \in Int
    BY <1>7, SMTT(30)
  <2> QED
    BY <2>1, <2>2, <2>4, <2>5, SMTT(30)
<1> HIDE DEF W, P, n, l
<1>10. (k + 1) * W <= l * P
  <2> SUFFICES ASSUME l * P < (k + 1) * W PROVE FALSE
    BY <1>6, <1>7, SMTT(30)
  <2>1. PICK u \in Int : u = l * P
    BY <1>7, SMTT(30)
  <2>2. PICK v \in Int : v = (k + 1) * W
    BY <1>7, SMTT(30)
  <2>3. u * g + g <= v * g
    <3>1. u < v /\ g \in Nat
      BY <1>1, <2>1, <2>2, SMTT(30)
    <3> QED
      BY <2>1, <2>2, <3>1, MulGap, Zenon
  <2>4. PICK s \in Int : s = (k + 1) * g
    BY <1>6, SMTT(30)
  <2>5. PICK q \in Int : q = n * P
    BY <1>7, SMTT(30)
  <2>6. s * W <= q * W
    BY <1>7, <1>8, <2>4, <2>5, MulMono, SMTT(30)
  <2>7. PICK z \in Int : z = n * W
    BY <1>7, SMTT(30)
  <2>8. PICK w \in Int : w = l * g
    BY <1>7, SMTT(30)
  <2>9. z * P <= w * P
    BY <1>7, <1>9, <2>7, <2>8, MulMono, SMTT(30)
  <2>10. v * g = s * W
    BY <1>6, <1>7, <2>2, <2>4, SMTT(30)
  <2>11. q * W = z * P
    BY <1>7, <2>5, <2>7, SMTT(30)
  <2>12. w * P = u * g
    BY <1>7, <2>1, <2>8, SMTT(30)
  <2>13. u * g \in Int /\ v * g \in Int /\ z * P \in Int
    BY <1>7, <2>1, <2>2, <2>7, SMTT(30)
  <2> QED
    BY <2>3, <2>6, <2>9, <2>10, <2>11, <2>12, <2>13, SMTT(30)
<1>11. a \in Int /\ BaseOf(m) <= a /\ a < BaseOf(m) + BytesOf(m)
  <2>1. a = BaseOf(m) + k * W /\ BytesOf(m) = l * P
    BY <1>5, <1>6, Zenon DEF W, P, l, BytesOf
  <2>2. k * W \in Nat /\ (k + 1) * W = k * W + W /\ l * P \in Nat
    BY <1>6, <1>7, SMTT(30)
  <2>3. BaseOf(m) \in Nat
    BY BaseFacts, Zenon
  <2> QED
    BY <1>7, <1>10, <2>1, <2>2, <2>3, SMTT(30)
<1> QED
  BY <1>11, AddressInSpan, Zenon

\* The words of two objects of a span are different words.
LEMMA WordsApart ==
  ASSUME NEW d \in Span, NEW c \in Classes \cup {0}, NEW m \in Span,
         NEW o, ObjectAt(o, d, c), NEW x, ObjectAt(x, d, c), o # x
  PROVE  WordsAt(d, m, c, o) \cap WordsAt(d, m, c, x) = {}
<1> SUFFICES ASSUME NEW a \in WordsAt(d, m, c, o), a \in WordsAt(d, m, c, x)
             PROVE  FALSE
  BY Zenon
<1>1. PICK h \in Nat \ {0} : SizeIn(d, c) = h * GranuleOf(c)
  BY SizeGranules, Zenon
<1>2. PICK j \in Nat : Located(o, d, c, j, h)
  BY <1>1, ObjectLocated, Zenon
<1>3. PICK k \in Nat : Located(x, d, c, k, h)
  BY <1>1, ObjectLocated, Zenon
<1>4. PICK i \in 0 .. h - 1 : a = BaseOf(m) + (j * h + i) * METADATABYTES
  <2>1. HasRun(d, m, c, o, j * h, h)
    BY <1>2, WordsOfObject, Zenon
  <2> QED
    BY <2>1, Zenon DEF HasRun, WordRun
<1>5. PICK l \in 0 .. h - 1 : a = BaseOf(m) + (k * h + l) * METADATABYTES
  <2>1. HasRun(d, m, c, x, k * h, h)
    BY <1>3, WordsOfObject, Zenon
  <2> QED
    BY <2>1, Zenon DEF HasRun, WordRun
<1>6. PICK u \in Nat : u = j * h + i
  BY <1>1, <1>2, <1>4, WordsOfObject, SMTT(30)
<1>7. PICK v \in Nat : v = k * h + l
  BY <1>1, <1>3, <1>5, WordsOfObject, SMTT(30)
<1>8. j # k
  BY <1>2, <1>3, Zenon DEF Located
<1>9. PICK W \in Nat \ {0} : W = METADATABYTES
  BY GeometryAssumption, Zenon
<1>10. u * W = v * W
  <2>1. a = BaseOf(m) + u * W /\ a = BaseOf(m) + v * W
    BY <1>4, <1>5, <1>6, <1>7, <1>9, Zenon
  <2>2. u * W \in Int /\ v * W \in Int /\ BaseOf(m) \in Int
    BY <1>6, <1>7, <1>9, BaseFacts, SMTT(30)
  <2> QED
    BY <2>1, <2>2, SMTT(30)
<1>11. u = v
  <2>1. u \in Int /\ v \in Int /\ W \in Nat /\ u * W \in Int
    BY <1>6, <1>7, <1>9, SMTT(30)
  <2>2. u < v => u * W + W <= v * W
    BY <2>1, MulGap, Zenon
  <2>3. v < u => v * W + W <= u * W
    BY <2>1, MulGap, Zenon
  <2> QED
    BY <1>9, <1>10, <2>1, <2>2, <2>3, SMTT(30)
<1>12. PICK p \in Nat : p = j * h
  BY <1>1, <1>2, MulNat, SMTT(30)
<1>13. PICK q \in Nat : q = k * h
  BY <1>1, <1>3, MulNat, SMTT(30)
<1>14. j \in Int /\ k \in Int /\ h \in Nat
  BY <1>1, <1>2, <1>3, SMTT(30)
<1>15. j < k => p + h <= q
  BY <1>12, <1>13, <1>14, MulGap, Zenon
<1>16. k < j => q + h <= p
  BY <1>12, <1>13, <1>14, MulGap, Zenon
<1> QED
  BY <1>4, <1>5, <1>6, <1>7, <1>8, <1>11, <1>12, <1>13, <1>14, <1>15, <1>16, SMTT(30)

-----------------------------------------------------------------------------
(* The metadata of the live objects.                                       *)

\* The metaspan of a span has a word for each granule of the span.
RoomInv ==
  \A p \in pairs, c \in Classes \cup {0} :
    c = sizeclass[p.data.start] => p.meta.len = MetaPages(p.data.len, GranuleOf(c))

\* All words of a live object hold the value last set for it.
WordsInv ==
  \A o \in DOMAIN live, p \in pairs, c \in Classes \cup {0} :
    c = sizeclass[p.data.start] /\ ObjectAt(o, p.data, c) =>
      \A a \in WordsAt(p.data, p.meta, c, o) : a \in DOMAIN words /\ words[a] = live[o]

MetadataInv == RoomInv /\ WordsInv /\ NoDanglingEntry

\* The entries of the span d in the table T name the metaspan m.
EntriesOf(T, d, m, c) ==
  \A i \in 0 .. d.len * Ratio - 1 :
    T[FirstMetaPage(d) + i] = EntryAt(BaseOf(m), i, GranuleOf(c))

\* metaget finds the word of a byte by the granule of the span it lies in.
SlotIs(T, d, m, c, x) ==
  /\ get_metapagetable_entry(T, x).gran = GranuleOf(c)
  /\ Slot(T, x)
       = BaseOf(m) + ((x - BaseOf(d)) \div GranuleOf(c)) * METADATABYTES

LEMMA SlotOfByte ==
  ASSUME NEW T, NEW d \in Span, NEW m \in Span, NEW c \in Classes \cup {0},
         EntriesOf(T, d, m, c), NEW x \in Nat, PageOf(x) \in PagesOf(d)
  PROVE  SlotIs(T, d, m, c, x)
<1>1. PICK g \in Nat \ {0} : g = GranuleOf(c)
  BY GranuleDivides, Zenon
<1>2. PICK M \in Nat \ {0} : M = METALLOC_PAGESIZE
  BY GeometryAssumption, Zenon
<1>3. PICK W \in Nat : W = METADATABYTES
  BY GeometryAssumption, Zenon
<1>4. PICK b \in Nat \ {0} : b = BaseOf(m)
  BY BaseFacts, Zenon
<1>5. PICK i \in 0 .. d.len * Ratio - 1 : x \div M = FirstMetaPage(d) + i
  BY <1>2, AddressEntry, Zenon
<1>6. i \in Nat
  BY <1>5, MetaPageFacts, SMTT(30)
<1>7. PICK y \in Nat : y = x % M /\ y < M
  <2>1. x % M \in 0 .. M - 1
    BY DivMod, SMTT(30)
  <2> QED
    BY <2>1, SMTT(30)
<1>8. x - BaseOf(d) = i * M + y
  <2>1. x = M * (x \div M) + (x % M)
    BY DivMod, SMTT(30)
  <2>2. PICK f \in Nat : f = FirstMetaPage(d) /\ f * M = BaseOf(d)
    BY <1>2, MetaPageFacts, Zenon
  <2>3. x = M * (f + i) + y
    BY <1>5, <1>7, <2>1, <2>2, Zenon
  <2>4. M * (f + i) = f * M + i * M /\ f * M \in Int /\ i * M \in Int
    BY <1>6, <2>2, SMTT(30)
  <2> QED
    BY <1>7, <2>2, <2>3, <2>4, SMTT(30)
<1>9. PICK q \in Nat : q = (i * M) \div g
  BY <1>6, MulNat, DivNat, Zenon
<1>10. PICK r \in Nat : r = y \div g
  BY DivNat, Zenon
<1>11. q + r = (x - BaseOf(d)) \div g
  <2>1. M % g = 0 \/ g % M = 0
    BY <1>1, <1>2, GranuleDivides, Zenon
  <2>2. QuotientsAdd(i, y, g, M)
    BY <1>6, <1>7, <2>1, DivSum, Zenon
  <2> QED
    BY <1>8, <1>9, <1>10, <2>2, Zenon DEF QuotientsAdd
<1>12. PICK e : e = EntryAt(b, i, g)
  BY Zenon
<1>13. e.gran = g /\ e.meta = b + q * W
  BY <1>2, <1>3, <1>4, <1>9, <1>12, Zenon DEF EntryAt
<1>14. get_metapagetable_entry(T, x) = e
  BY <1>1, <1>2, <1>4, <1>5, <1>12, Zenon DEF EntriesOf, get_metapagetable_entry
<1>15. Slot(T, x) = e.meta + r * W
  BY <1>2, <1>3, <1>7, <1>10, <1>13, <1>14, Zenon DEF Slot
<1>16. (b + q * W) + r * W = b + (q + r) * W
  BY <1>3, <1>9, <1>10, SMTT(30)
<1>17. Slot(T, x) = b + ((x - BaseOf(d)) \div g) * W
  BY <1>11, <1>13, <1>15, <1>16, Zenon
<1> QED
  BY <1>1, <1>3, <1>4, <1>13, <1>14, <1>17, Zenon DEF SlotIs

\* An object lies in its span.
LEMMA ObjectInSpan ==
  ASSUME NEW d \in Span, NEW c \in Classes \cup {0}, NEW o, ObjectAt(o, d, c),
         NEW x \in o .. o + SizeIn(d, c) - 1
  PROVE  x \in Nat /\ PageOf(x) \in PagesOf(d)
<1>1. PICK g \in Nat \ {0} : g = GranuleOf(c)
  BY GranuleDivides, Zenon
<1>2. PICK h \in Nat \ {0} : SizeIn(d, c) = h * GranuleOf(c)
  BY SizeGranules, Zenon
<1>3. PICK j \in Nat : Located(o, d, c, j, h)
  BY <1>2, ObjectLocated, Zenon
<1>4. j * h \in Nat
  BY <1>2, <1>3, MulNat, SMTT(30)
<1>5. PICK k \in Nat : k = (j * h) * g
  BY <1>1, <1>4, MulNat, Zenon
<1>6. PICK n \in Nat : n = h * g
  BY <1>1, <1>2, MulNat, SMTT(30)
<1>7. o = BaseOf(d) + k /\ SizeIn(d, c) = n /\ k + n <= BytesOf(d)
  <2>1. (j * h + h) * g = k + n
    BY <1>4, <1>5, <1>6, SMTT(30)
  <2> QED
    BY <1>1, <1>2, <1>3, <1>5, <1>6, <2>1, Zenon DEF Located
<1>8. BaseOf(d) \in Nat /\ BytesOf(d) \in Nat
  BY BaseFacts, Zenon
<1>9. x \in Int /\ BaseOf(d) <= x /\ x < BaseOf(d) + BytesOf(d)
  BY <1>5, <1>6, <1>7, <1>8, SMTT(30)
<1> QED
  BY <1>9, AddressInSpan, Zenon

\* metaget on any byte of an object reads one of the words of the object.
LEMMA SlotInWords ==
  ASSUME NEW T, NEW d \in Span, NEW m \in Span, NEW c \in Classes \cup {0},
         EntriesOf(T, d, m, c), NEW o, ObjectAt(o, d, c),
         NEW x \in o .. o + SizeIn(d, c) - 1
  PROVE  Slot(T, x) \in WordsAt(d, m, c, o)
<1>1. PICK g \in Nat \ {0} : g = GranuleOf(c)
  BY GranuleDivides, Zenon
<1>2. PICK h \in Nat \ {0} : SizeIn(d, c) = h * GranuleOf(c)
  BY SizeGranules, Zenon
<1>3. PICK j \in Nat : Located(o, d, c, j, h)
  BY <1>2, ObjectLocated, Zenon
<1>4. PICK k \in Nat : k = j * h
  BY <1>2, <1>3, MulNat, SMTT(30)
<1>5. x \in Nat /\ SlotIs(T, d, m, c, x)
  BY ObjectInSpan, SlotOfByte, Zenon
<1>6. PICK r \in Int : r = x - BaseOf(d)
  BY <1>5, BaseFacts, SMTT(30)
<1>7. k * g <= r /\ r < (k + h) * g
  <2>1. (k + h) * g = k * g + h * g /\ k * g \in Int /\ h * g \in Int
    BY <1>4, SMTT(30)
  <2>2. o = BaseOf(d) + k * g /\ SizeIn(d, c) = h * g
    BY <1>1, <1>2, <1>3, <1>4, Zenon DEF Located
  <2> QED
    BY <1>5, <1>6, <2>1, <2>2, BaseFacts, SMTT(30)
<1>8. k + h \in Int /\ k \in Int
  BY <1>4, SMTT(30)
<1>9. k <= r \div g /\ r \div g < k + h
  BY <1>7, <1>8, DivRange, Zenon
<1>10. PICK i \in 0 .. h - 1 : r \div g = k + i
  <2>1. r \div g \in Int
    BY DivMod, Zenon
  <2>2. (r \div g) - k \in 0 .. h - 1 /\ r \div g = k + ((r \div g) - k)
    BY <1>9, <2>1, SMTT(30)
  <2> QED
    BY <2>2, Zenon
<1>11. Slot(T, x) = BaseOf(m) + (k + i) * METADATABYTES
  BY <1>1, <1>5, <1>6, <1>10, Zenon DEF SlotIs
<1>12. HasRun(d, m, c, o, k, h)
  BY <1>3, <1>4, WordsOfObject, Zenon
<1> QED
  BY <1>11, <1>12, Zenon DEF HasRun, WordRun

\* metaset on an object writes the words of the object, and no others.
Written(T, d, m, c, o) ==
  SlotsWritten(T, o, SizeIn(d, c)) = WordsAt(d, m, c, o)

LEMMA WordsWritten ==
  ASSUME NEW T, NEW d \in Span, NEW m \in Span, NEW c \in Classes \cup {0},
         EntriesOf(T, d, m, c), NEW o, ObjectAt(o, d, c)
  PROVE  Written(T, d, m, c, o)
<1>1. PICK g \in Nat \ {0} : g = GranuleOf(c)
  BY GranuleDivides, Zenon
<1>2. PICK h \in Nat \ {0} : SizeIn(d, c) = h * GranuleOf(c)
  BY SizeGranules, Zenon
<1>3. PICK j \in Nat : Located(o, d, c, j, h)
  BY <1>2, ObjectLocated, Zenon
<1>4. PICK k \in Nat : k = j * h
  BY <1>2, <1>3, MulNat, SMTT(30)
<1>5. HasRun(d, m, c, o, k, h) /\ o \in Nat
  BY <1>3, <1>4, WordsOfObject, Zenon
<1>6. SlotIs(T, d, m, c, o)
  <2>1. h * g \in Nat \ {0}
    BY <1>1, <1>2, SMTT(30)
  <2>2. o \in o .. o + SizeIn(d, c) - 1
    BY <1>1, <1>2, <1>5, <2>1, SMTT(30)
  <2> QED
    BY <2>2, ObjectInSpan, SlotOfByte, Zenon
<1>7. PICK n \in Nat : n = h * g /\ n = SizeIn(d, c)
  BY <1>1, <1>2, MulNat, SMTT(30)
<1>8. (n + g - 1) \div g = h
  <2>1. n + g - 1 \in Int /\ h \in Int /\ h * g <= n + g - 1 /\ n + g - 1 < h * g + g
    BY <1>2, <1>7, SMTT(30)
  <2> QED
    BY <2>1, DivUnique, Zenon
<1>9. PICK b \in Nat : b = BaseOf(m)
  BY BaseFacts, Zenon
<1>10. PICK W \in Nat : W = METADATABYTES
  BY GeometryAssumption, Zenon
<1>11. Slot(T, o) = b + k * W
  <2>1. o - BaseOf(d) = k * g
    <3>1. k * g \in Nat /\ BaseOf(d) \in Nat
      BY <1>4, MulNat, BaseFacts, SMTT(30)
    <3>2. o = BaseOf(d) + k * g
      BY <1>1, <1>3, <1>4, Zenon DEF Located
    <3> QED
      BY <3>1, <3>2, SMTT(30)
  <2>2. (k * g) \div g = k
    BY <1>4, DivProduct, SMTT(30)
  <2> QED
    BY <1>1, <1>6, <1>9, <1>10, <2>1, <2>2, Zenon DEF SlotIs
<1>12. \A i \in 0 .. h - 1 : b + k * W + i * W = b + (k + i) * W
  BY <1>2, <1>4, <1>9, <1>10, SMTT(30)
<1>13. SlotsWritten(T, o, n) = {b + k * W + i * W : i \in 0 .. h - 1}
  BY <1>1, <1>6, <1>8, <1>10, <1>11, Zenon DEF SlotIs, SlotsWritten
<1>14. WordsAt(d, m, c, o) = {b + (k + i) * W : i \in 0 .. h - 1}
  BY <1>5, <1>9, <1>10, Zenon DEF HasRun, WordRun
<1>15. ASSUME NEW a PROVE a \in SlotsWritten(T, o, n) <=> a \in WordsAt(d, m, c, o)
  <2>1. a \in SlotsWritten(T, o, n) <=> \E i \in 0 .. h - 1 : a = b + k * W + i * W
    BY <1>13, Zenon
  <2>2. a \in WordsAt(d, m, c, o) <=> \E i \in 0 .. h - 1 : a = b + (k + i) * W
    BY <1>14, Zenon
  <2>3. (\E i \in 0 .. h - 1 : a = b + k * W + i * W)
          <=> \E i \in 0 .. h - 1 : a = b + (k + i) * W
    BY <1>12, Zenon
  <2> QED
    BY <2>1, <2>2, <2>3, Zenon
<1> QED
  BY <1>7, <1>15, Zenon DEF Written

\* The home of an object, with its class and size.
HomeIs(o, p, c) ==
  /\ p \in pairs /\ c \in Classes \cup {0} /\ c = sizeclass[p.data.start]
  /\ ObjectAt(o, p.data, c)
  /\ EntriesOf(pageTable, p.data, p.meta, c)
  /\ ObjSize(o) = SizeIn(p.data, c)

LEMMA HomeOf ==
  ASSUME IInv, NEW o \in Objects
  PROVE  \E p \in pairs, c \in Classes \cup {0} : HomeIs(o, p, c)
<1> USE DEF IInv
<1>1. PICK p \in pairs : Home(o, p)
  BY Zenon DEF HomeInv
<1>2. PICK c \in Classes \cup {0} : c = sizeclass[p.data.start]
  BY PairFacts, Zenon
<1>3. ObjectAt(o, p.data, c)
  BY <1>1, <1>2, Zenon DEF Home, ObjectAt
<1>4. EntriesOf(pageTable, p.data, p.meta, c)
  BY <1>2, Zenon DEF EntriesNameOwnMetaspan, EntriesOf
<1>5. GetDescriptor(PageOf(o)) = p.data
  BY <1>1, HomeFacts, Zenon
<1>6. ObjSize(o) = SizeIn(p.data, c)
  BY <1>2, <1>5, Zenon DEF ObjSize, SizeIn
<1> QED
  BY <1>2, <1>3, <1>4, <1>6, Zenon DEF HomeIs

\* The page of an object is one of its span.
LEMMA ObjectPage ==
  ASSUME NEW d \in Span, NEW c \in Classes \cup {0}, NEW o, ObjectAt(o, d, c)
  PROVE  PageOf(o) \in PagesOf(d)
<1>1. CASE c = 0
  BY <1>1, BaseFacts, SpanFacts, Zenon DEF ObjectAt
<1>2. CASE c # 0
  BY <1>2, ObjectsOfFacts, Zenon DEF ObjectAt
<1> QED
  BY <1>1, <1>2

\* With the words and the room of every object right, metaget is exact.
LEMMA WordsExact ==
  ASSUME IInv, WordsInv
  PROVE  MetaGetExact
<1> SUFFICES ASSUME NEW o \in DOMAIN live, NEW x \in Bytes(o)
             PROVE  /\ Slot(pageTable, x) \in DOMAIN words
                    /\ words[Slot(pageTable, x)] = live[o]
  BY Zenon DEF MetaGetExact
<1>1. o \in Objects
  BY Zenon DEF Objects
<1>2. PICK p \in pairs, c \in Classes \cup {0} : HomeIs(o, p, c)
  BY <1>1, HomeOf, Zenon
<1>3. p.data \in Span /\ p.meta \in Span
  BY PairFacts, Zenon DEF IInv
<1>4. Slot(pageTable, x) \in WordsAt(p.data, p.meta, c, o)
  BY <1>2, <1>3, SlotInWords, Zenon DEF HomeIs, Bytes
<1> QED
  BY <1>2, <1>4, ZenonT(30) DEF HomeIs, WordsInv

-----------------------------------------------------------------------------
(* No step disturbs the metadata of another object.                        *)

\* A live object stays where it is.
LEMMA LiveHomeKept ==
  ASSUME IInv, IInv', [Next]_vars, NEW o \in DOMAIN live,
         NEW p \in pairs', NEW c \in Classes \cup {0},
         c = sizeclass'[p.data.start], ObjectAt(o, p.data, c)
  PROVE  /\ p \in pairs /\ c = sizeclass[p.data.start]
         /\ \A u \in Threads : pc[u] \in Holding => sp[u] # p.data
<1>1. PICK q \in pairs : Home(o, q)
  BY Zenon DEF IInv, HomeInv, Objects
<1>2. /\ q \in pairs' /\ sizeclass'[q.data.start] = sizeclass[q.data.start]
      /\ \A u \in Threads : pc[u] \in Holding => sp[u] # q.data
  BY <1>1, PairsKept, Zenon DEF Home
<1>3. PageOf(o) \in PagesOf(q.data)
  BY <1>1, HomeFacts, Zenon DEF IInv
<1>4. p.data \in Span /\ p.data \in alloc' /\ q.data \in Span /\ q.data \in alloc'
  BY <1>2, Zenon DEF IInv, TypeOK, EntriesNameOwnMetaspan
<1>5. PageOf(o) \in PagesOf(p.data)
  BY <1>4, ObjectPage, Zenon
<1>6. p.data = q.data
  <2>1. p.data # q.data => Apart(p.data, q.data)
    BY <1>4, Zenon DEF IInv, AllocDisjoint, Apart, LastPage
  <2> QED
    BY <1>3, <1>4, <1>5, <2>1, ApartPages, Zenon
<1>7. p = q
  BY <1>2, <1>6, Zenon DEF IInv, EntriesNameOwnMetaspan
<1> QED
  BY <1>2, <1>7, Zenon

\* What WordsInv asks of one object in its span.
Keeps(f, S, v) == \A a \in S : a \in DOMAIN f /\ f[a] = v

LEMMA WordsInvIs ==
  ASSUME \A o \in DOMAIN live', p \in pairs', c \in Classes \cup {0} :
           c = sizeclass'[p.data.start] /\ ObjectAt(o, p.data, c) =>
             Keeps(words', WordsAt(p.data, p.meta, c, o), live'[o])
  PROVE  WordsInv'
  BY Zenon DEF WordsInv, Keeps, ObjectAt, ObjectsOf, WordsAt, SizeIn, BaseOf,
     BytesOf, GranuleOf

\* A step that writes no memory.
LEMMA QuietStep ==
  ASSUME IInv, IInv', [Next]_vars, WordsInv, words' = words,
         DOMAIN live' \subseteq DOMAIN live,
         \A o \in DOMAIN live' : live'[o] = live[o]
  PROVE  WordsInv'
<1> SUFFICES ASSUME NEW o \in DOMAIN live', NEW p \in pairs', NEW c \in Classes \cup {0},
                    c = sizeclass'[p.data.start], ObjectAt(o, p.data, c)
             PROVE  Keeps(words', WordsAt(p.data, p.meta, c, o), live'[o])
  BY WordsInvIs, Zenon
<1>1. p \in pairs /\ c = sizeclass[p.data.start]
  BY LiveHomeKept, ZenonT(30)
<1> QED
  BY <1>1, Zenon DEF WordsInv, Keeps

\* A step that writes the words of one object, new or not.
LEMMA WriteStep ==
  ASSUME IInv, IInv', [Next]_vars, WordsInv, RoomInv',
         NEW q \in pairs', NEW e \in Classes \cup {0}, e = sizeclass'[q.data.start],
         NEW x, ObjectAt(x, q.data, e), NEW v,
         words' = WriteWords(WordsAt(q.data, q.meta, e, x), v),
         DOMAIN live' = DOMAIN live \cup {x}, live'[x] = v,
         \A o \in DOMAIN live \ {x} : live'[o] = live[o]
  PROVE  WordsInv'
<1> SUFFICES ASSUME NEW o \in DOMAIN live', NEW p \in pairs', NEW c \in Classes \cup {0},
                    c = sizeclass'[p.data.start], ObjectAt(o, p.data, c)
             PROVE  Keeps(words', WordsAt(p.data, p.meta, c, o), live'[o])
  BY WordsInvIs, Zenon
<1> DEFINE S == WordsAt(q.data, q.meta, e, x)
<1>0. words' = [a \in DOMAIN words \cup S |-> IF a \in S THEN v ELSE words[a]]
  BY Zenon DEF WriteWords
<1>t. TypeOK' /\ AllocDisjoint' /\ EntriesNameOwnMetaspan'
  BY Zenon DEF IInv
<1>1. CASE o = x
  <2>1. /\ p.data \in Span /\ p.data \in alloc' /\ q.data \in Span /\ q.data \in alloc'
    BY <1>t, Zenon DEF TypeOK, EntriesNameOwnMetaspan
  <2>2. PageOf(o) \in PagesOf(p.data) /\ PageOf(o) \in PagesOf(q.data)
    BY <1>1, <2>1, ObjectPage, Zenon
  <2>3. p.data = q.data
    <3>1. p.data # q.data => Apart(p.data, q.data)
      BY <1>t, <2>1, Zenon DEF AllocDisjoint, Apart, LastPage
    <3> QED
      BY <2>1, <2>2, <3>1, ApartPages, Zenon
  <2>4. p = q /\ c = e
    BY <1>t, <2>3, Zenon DEF EntriesNameOwnMetaspan
  <2> HIDE DEF S
  <2>5. \A a \in S : a \in DOMAIN words' /\ words'[a] = v
    BY <1>0, Zenon
  <2> QED
    BY <1>1, <2>4, <2>5, Zenon DEF Keeps, S
<1>2. CASE o # x
  <2>1. o \in DOMAIN live /\ live'[o] = live[o]
    BY <1>2, Zenon
  <2>2. p \in pairs /\ c = sizeclass[p.data.start]
    BY <2>1, LiveHomeKept, Zenon
  <2> DEFINE R == WordsAt(p.data, p.meta, c, o)
  <2>3. \A a \in R : a \in DOMAIN words /\ words[a] = live[o]
    BY <2>1, <2>2, ZenonT(30) DEF WordsInv
  <2>4. R \cap S = {}
    <3>1. /\ p.data \in Span /\ p.meta \in Span /\ p.meta \in alloc'
          /\ q.data \in Span /\ q.meta \in Span /\ q.meta \in alloc'
      BY <1>t, Zenon DEF TypeOK, EntriesNameOwnMetaspan
    <3>2. CASE p = q
      BY <1>2, <3>1, <3>2, WordsApart, Zenon
    <3>3. CASE p # q
      <4>1. Apart(p.meta, q.meta)
        BY <1>t, <3>1, <3>3, Zenon DEF EntriesNameOwnMetaspan, AllocDisjoint, Apart, LastPage
      <4>2. /\ p.meta.len = MetaPages(p.data.len, GranuleOf(c))
            /\ q.meta.len = MetaPages(q.data.len, GranuleOf(e))
        BY Zenon DEF RoomInv, MetaPages, GranuleOf
      <4>3. \A a \in R : PageOf(a) \in PagesOf(p.meta)
        BY <3>1, <4>2, WordsInMetaspan, Zenon
      <4>4. \A a \in S : PageOf(a) \in PagesOf(q.meta)
        BY <3>1, <4>2, WordsInMetaspan, Zenon
      <4> HIDE DEF R, S
      <4> QED
        BY <3>1, <4>1, <4>3, <4>4, ApartPages, Zenon
    <3> QED
      BY <3>2, <3>3
  <2> HIDE DEF R, S
  <2>5. \A a \in R : a \in DOMAIN words' /\ words'[a] = words[a]
    BY <1>0, <2>3, <2>4, Zenon
  <2> QED
    BY <2>1, <2>3, <2>5, Zenon DEF Keeps, R
<1> QED
  BY <1>1, <1>2

\* A step that overwrites memory of one span, which no live object has as its
\* metaspan.
LEMMA ClobberStep ==
  ASSUME IInv, IInv', [Next]_vars, RoomInv, WordsInv, live' = live,
         NEW s \in alloc, NEW from, NEW to,
         \A a \in from .. to : PageOf(a) \in PagesOf(s),
         \A p \in pairs : (\A u \in Threads : pc[u] \in Holding => sp[u] # p.data)
                          => p.meta # s,
         words' = Clobber(from, to)
  PROVE  WordsInv'
<1> SUFFICES ASSUME NEW o \in DOMAIN live', NEW p \in pairs', NEW c \in Classes \cup {0},
                    c = sizeclass'[p.data.start], ObjectAt(o, p.data, c)
             PROVE  Keeps(words', WordsAt(p.data, p.meta, c, o), live'[o])
  BY WordsInvIs, Zenon
<1>1. /\ o \in DOMAIN live /\ p \in pairs /\ c = sizeclass[p.data.start]
      /\ p.meta # s
  BY LiveHomeKept, Zenon
<1> DEFINE R == WordsAt(p.data, p.meta, c, o)
<1>2. \A a \in R : a \in DOMAIN words /\ words[a] = live[o]
  BY <1>1, Zenon DEF WordsInv
<1>3. p.data \in Span /\ p.meta \in Span /\ p.meta \in alloc /\ s \in Span
  BY <1>1, PairFacts, Zenon DEF IInv, TypeOK
<1>4. p.meta.len = MetaPages(p.data.len, GranuleOf(c))
  BY <1>1, Zenon DEF RoomInv
<1>5. \A a \in R : PageOf(a) \in PagesOf(p.meta)
  BY <1>3, <1>4, WordsInMetaspan, Zenon
<1>6. PagesOf(p.meta) \cap PagesOf(s) = {}
  BY <1>1, <1>3, ApartPages, Zenon DEF IInv, AllocDisjoint
<1> HIDE DEF R
<1>7. \A a \in R : a \notin from .. to
  BY <1>5, <1>6, Zenon
<1>8. words' = [a \in DOMAIN words \ (from .. to) |-> words[a]]
  BY Zenon DEF Clobber, Restrict
<1>9. \A a \in R : a \in DOMAIN words' /\ words'[a] = live'[o]
  BY <1>2, <1>7, <1>8, Zenon
<1> QED
  BY <1>9, Zenon DEF Keeps, R

\* The METALLOC pages of a span are those of its pages.
LEMMA MetaPageOfPage ==
  ASSUME NEW s \in Span, NEW k \in Nat
  PROVE  k \in FirstMetaPage(s) .. FirstMetaPage(s) + s.len * Ratio - 1
           <=> k \div Ratio \in PagesOf(s)
<1>1. PICK a \in Nat, e \in Nat : a = s.start /\ e = s.start + s.len
  BY SpanFacts, SMTT(30)
<1>2. PICK R \in Nat \ {0} : R = Ratio
  BY RatioFacts, Zenon
<1>3. FirstMetaPage(s) = a * R /\ FirstMetaPage(s) + s.len * Ratio = e * R
  BY <1>1, <1>2, MetaPageFacts, Zenon DEF FirstMetaPage
<1>4. PICK q \in Int : q = k \div R
  BY DivMod, SMTT(30)
<1>5. q * R <= k /\ k < q * R + R
  <2>1. k % R \in 0 .. R - 1 /\ k = R * q + (k % R)
    BY <1>4, DivMod, SMTT(30)
  <2>2. R * q = q * R /\ q * R \in Int
    BY <1>4, SMTT(30)
  <2> QED
    BY <2>1, <2>2, SMTT(30)
<1>6. a * R \in Int /\ e * R \in Int /\ q * R \in Int
  BY <1>1, <1>4, SMTT(30)
<1>7. k \in FirstMetaPage(s) .. FirstMetaPage(s) + s.len * Ratio - 1
        <=> a * R <= k /\ k < e * R
  <2> DEFINE F == FirstMetaPage(s)
             L == s.len * Ratio
  <2>1. F \in Int /\ L \in Int
    BY MetaPageFacts, SMTT(30)
  <2>2. a * R = F /\ e * R = F + L
    BY <1>3, Zenon
  <2> HIDE DEF F, L
  <2>3. k \in F .. F + L - 1 <=> F <= k /\ k < F + L
    BY <2>1, SMTT(30)
  <2>4. k \in F .. F + L - 1 <=> a * R <= k /\ k < e * R
    BY <2>2, <2>3, Zenon
  <2> QED
    BY <2>4, Zenon DEF F, L
<1>8. k \div Ratio \in PagesOf(s) <=> a <= q /\ q < e
  BY <1>1, <1>2, <1>4, SpanFacts, SMTT(30) DEF PagesOf
<1>9. ASSUME a * R <= k, k < e * R PROVE a <= q /\ q < e
  <2>1. k \in Int /\ a \in Int /\ e \in Int
    BY <1>1, SMTT(30)
  <2> QED
    BY <1>4, <1>9, <2>1, DivRange, Zenon
<1>10. ASSUME a <= q, q < e PROVE a * R <= k /\ k < e * R
  <2>0. a \in Int /\ e \in Int /\ R \in Nat
    BY <1>1, <1>2, SMTT(30)
  <2>1. a * R <= q * R
    BY <1>4, <1>10, <2>0, MulMono, Zenon
  <2>2. q * R + R <= e * R
    BY <1>4, <1>10, <2>0, MulGap, Zenon
  <2> QED
    BY <1>2, <1>5, <1>6, <2>1, <2>2, SMTT(30)
<1> QED
  BY <1>7, <1>8, <1>9, <1>10, Zenon

\* Entries outside the METALLOC pages of the span stay as they are; the others
\* are the span's, or zero when there is no metaspan.
Untouched(s, m, g, k) == set_metapagetable_entries(s, m, g)[k] = pageTable[k]

LEMMA OnlyOwnEntries ==
  ASSUME NEW s \in Span, NEW m, NEW g, NEW k \in MetaPage, k \div Ratio \notin PagesOf(s)
  PROVE  Untouched(s, m, g, k)
<1>1. k \in Nat
  BY RatioFacts, NPagesAssumption, SMTT(30) DEF MetaPage
<1>2. k \notin FirstMetaPage(s) .. FirstMetaPage(s) + s.len * Ratio - 1
  BY <1>1, MetaPageOfPage, Zenon
<1> QED
  BY <1>2, Zenon DEF set_metapagetable_entries, Untouched

LEMMA ClearedEntries ==
  ASSUME NEW s \in Span, NEW k \in MetaPage, k \div Ratio \in PagesOf(s)
  PROVE  set_metapagetable_entries(s, 0, 1)[k] = ZeroEntry
<1>1. k \in Nat
  BY RatioFacts, NPagesAssumption, SMTT(30) DEF MetaPage
<1>2. k \in FirstMetaPage(s) .. FirstMetaPage(s) + s.len * Ratio - 1
  BY <1>1, MetaPageOfPage, Zenon
<1> QED
  BY <1>2, Zenon DEF set_metapagetable_entries, EntryAt, ZeroEntry

\* A new span comes with room for its metadata and with its own entries only.
LEMMA PairRoom ==
  ASSUME IInv, RoomInv, NoDanglingEntry,
         NEW d \in Span, LastPage(d) <= NPages, \A s \in alloc : Apart(d, s),
         NEW c \in Classes \cup {0}, NEW m \in MetaRuns(d, c), Pair(d, m, c)
  PROVE  RoomInv' /\ NoDanglingEntry'
<1> DEFINE new == [data |-> d, meta |-> m]
<1>1. /\ pairs' = pairs \cup {new} /\ new.data = d /\ new.meta = m
      /\ sizeclass'[d.start] = c
      /\ \A p \in pairs : sizeclass'[p.data.start] = sizeclass[p.data.start]
  BY GranuleType, PairStep, Zenon
<1>2. m.len = MetaPages(d.len, GranuleOf(c))
  BY Zenon DEF MetaRuns, FreeRuns
<1> HIDE DEF new
<1>3. RoomInv'
  <2> SUFFICES ASSUME NEW p \in pairs', NEW e \in Classes \cup {0},
                      e = sizeclass'[p.data.start]
               PROVE  p.meta.len = MetaPages(p.data.len, GranuleOf(e))
    BY Zenon DEF RoomInv, MetaPages, GranuleOf
  <2>1. CASE p = new
    BY <1>1, <1>2, <2>1, Zenon
  <2>2. CASE p \in pairs
    BY <1>1, <2>2, Zenon DEF RoomInv
  <2> QED
    BY <1>1, <2>1, <2>2, Zenon
<1>4. NoDanglingEntry'
  <2> SUFFICES ASSUME NEW k \in MetaPage,
                      ~ \E p \in pairs' : k \div Ratio \in PagesOf(p.data)
               PROVE  pageTable'[k] \in {ZeroEntry, SentinelEntry}
    BY Zenon DEF NoDanglingEntry, MetaPage, Ratio, PagesOf, LastPage, ZeroEntry,
       SentinelEntry, SentinelAddr
  <2>1. k \div Ratio \notin PagesOf(d)
    BY <1>1, Zenon
  <2>2. pageTable' = set_metapagetable_entries(d, BaseOf(m), GranuleOf(c))
    BY Zenon DEF Pair
  <2>3. pageTable'[k] = pageTable[k]
    <3>1. Untouched(d, BaseOf(m), GranuleOf(c), k)
      BY <2>1, OnlyOwnEntries, Zenon
    <3> QED
      BY <2>2, <3>1, Zenon DEF Untouched
  <2> QED
    BY <1>1, <2>3, Zenon DEF NoDanglingEntry
<1> QED
  BY <1>3, <1>4

\* What a span that is given back leaves behind.
LEMMA UnpairRoom ==
  ASSUME IInv, IInv', [Next]_vars, MetadataInv,
         NEW t \in Threads, pc[t] \in Holding, Unpair(t, sp[t])
  PROVE  MetadataInv'
<1>1. PICK r \in pairs : r.data = sp[t]
  BY Zenon DEF IInv, HoldInv
<1>2. PICK d \in Span : d = sp[t] /\ r.data = d
  BY <1>1, PairFacts, Zenon DEF IInv
<1>3. /\ \A p \in pairs : p.data # d => p \in pairs'
      /\ \A p \in pairs' : /\ p \in pairs /\ p.data # d
                           /\ sizeclass'[p.data.start] = sizeclass[p.data.start]
  BY <1>2, GranuleType, UnpairStep, Zenon
<1>4. RoomInv'
  <2> SUFFICES ASSUME NEW p \in pairs', NEW e \in Classes \cup {0},
                      e = sizeclass'[p.data.start]
               PROVE  p.meta.len = MetaPages(p.data.len, GranuleOf(e))
    BY Zenon DEF RoomInv, MetaPages, GranuleOf
  <2> QED
    BY <1>3, Zenon DEF MetadataInv, RoomInv
<1>5. NoDanglingEntry'
  <2> SUFFICES ASSUME NEW k \in MetaPage,
                      ~ \E p \in pairs' : k \div Ratio \in PagesOf(p.data)
               PROVE  pageTable'[k] \in {ZeroEntry, SentinelEntry}
    BY Zenon DEF NoDanglingEntry, MetaPage, Ratio, PagesOf, LastPage, ZeroEntry,
       SentinelEntry, SentinelAddr
  <2>1. pageTable' = set_metapagetable_entries(d, 0, 1)
    BY <1>2, Zenon DEF Unpair
  <2>2. CASE k \div Ratio \in PagesOf(d)
    BY <2>1, <2>2, ClearedEntries, Zenon
  <2>3. CASE k \div Ratio \notin PagesOf(d)
    <3>0. Untouched(d, 0, 1, k)
      BY <2>3, OnlyOwnEntries, Zenon
    <3>1. pageTable'[k] = pageTable[k]
      BY <2>1, <3>0, Zenon DEF Untouched
    <3>2. ~ \E p \in pairs : k \div Ratio \in PagesOf(p.data)
      BY <1>3, <2>3, Zenon
    <3> QED
      BY <3>1, <3>2, Zenon DEF MetadataInv, NoDanglingEntry
  <2> QED
    BY <2>2, <2>3
<1>6. WordsInv'
  <2> DEFINE n == GetDescriptor(PageOf(get_metapagetable_entry(pageTable, BaseOf(d)).meta))
  <2>1. live' = live
    BY Zenon DEF Unpair
  <2>2. fault' = "none"
    BY Zenon DEF IInv, NoFault
  <2>3. n \in alloc /\ words' = Clobber(BaseOf(n), BaseOf(n) + BytesOf(n) - 1)
        /\ alloc' = alloc \ {n, d}
    BY <1>2, <2>2, Zenon DEF Unpair
  <2> HIDE DEF n
  <2>4. n \in Span
    BY <2>3, Zenon DEF IInv, TypeOK
  <2>5. BaseOf(n) \in Nat /\ BytesOf(n) \in Nat
    BY <2>4, BaseFacts, Zenon
  <2>6. \A a \in BaseOf(n) .. BaseOf(n) + BytesOf(n) - 1 :
          PageOf(a) \in PagesOf(n)
    <3> TAKE a \in BaseOf(n) .. BaseOf(n) + BytesOf(n) - 1
    <3>1. a \in Int /\ BaseOf(n) <= a /\ a < BaseOf(n) + BytesOf(n)
      BY <2>5, SMTT(30)
    <3> QED
      BY <2>4, <3>1, AddressInSpan, Zenon
  <2>7. ASSUME NEW p \in pairs,
               \A u \in Threads : pc[u] \in Holding => sp[u] # p.data
        PROVE  p.meta # n
    <3>1. p \in pairs'
      BY <1>2, <1>3, <2>7, Zenon
    <3>2. p.meta \in alloc'
      BY <3>1, Zenon DEF IInv, EntriesNameOwnMetaspan
    <3> QED
      BY <2>3, <3>2, Zenon
  <2> QED
    BY <2>1, <2>3, <2>6, <2>7, ClobberStep, Zenon DEF MetadataInv
<1> QED
  BY <1>4, <1>5, <1>6, Zenon DEF MetadataInv

\* A step that changes neither spans nor entries keeps the room and the entries.
LEMMA SameRoom ==
  ASSUME MetadataInv, pairs' = pairs, sizeclass' = sizeclass, pageTable' = pageTable
  PROVE  RoomInv' /\ NoDanglingEntry'
  BY Zenon DEF MetadataInv, RoomInv, NoDanglingEntry

\* reset_metadata and metaset: the words of one object, found by its entry.
LEMMA SetObjectStep ==
  ASSUME IInv, IInv', [Next]_vars, MetadataInv, NEW x \in Objects, NEW v,
         pairs' = pairs, sizeclass' = sizeclass, pageTable' = pageTable,
         words' = WriteWords(SlotsWritten(pageTable, x, ObjSize(x)), v),
         DOMAIN live' = DOMAIN live \cup {x}, live'[x] = v,
         \A o \in DOMAIN live \ {x} : live'[o] = live[o]
  PROVE  MetadataInv'
<1>1. PICK q \in pairs, e \in Classes \cup {0} : HomeIs(x, q, e)
  BY HomeOf, Zenon
<1>2. q.data \in Span /\ q.meta \in Span
  BY PairFacts, Zenon DEF IInv
<1>3. Written(pageTable, q.data, q.meta, e, x)
  BY <1>1, <1>2, WordsWritten, Zenon DEF HomeIs
<1>4. words' = WriteWords(WordsAt(q.data, q.meta, e, x), v)
  BY <1>1, <1>3, Zenon DEF HomeIs, Written
<1>5. RoomInv' /\ NoDanglingEntry'
  BY SameRoom, Zenon
<1>6. q \in pairs' /\ e = sizeclass'[q.data.start] /\ ObjectAt(x, q.data, e)
  BY <1>1, Zenon DEF HomeIs
<1>7. WordsInv'
  BY <1>4, <1>5, <1>6, WriteStep, Zenon DEF MetadataInv
<1> QED
  BY <1>5, <1>7, Zenon DEF MetadataInv

LEMMA ResetMetadataWords ==
  ASSUME IInv, IInv', [Next]_vars, MetadataInv, NEW t \in Threads, ResetMetadata(t)
  PROVE  MetadataInv'
<1>1. PICK x \in Objects : x = ob[t]
  BY Zenon DEF ResetMetadata, Objects
<1>2. get_metapagetable_entry(pageTable, x).meta # 0
  BY GranuleType, ObjectEntry, Zenon
<1>3. /\ words' = WriteWords(SlotsWritten(pageTable, x, ObjSize(x)), 0)
      /\ live' = Extend(live, x, 0)
      /\ pairs' = pairs /\ sizeclass' = sizeclass /\ pageTable' = pageTable
  BY <1>1, <1>2, Zenon DEF ResetMetadata
<1>4. /\ DOMAIN live' = DOMAIN live \cup {x} /\ live'[x] = 0
      /\ \A o \in DOMAIN live \ {x} : live'[o] = live[o]
  BY <1>3, Zenon DEF Extend
<1> QED
  BY <1>3, <1>4, SetObjectStep, Zenon

LEMMA MetaSetWords ==
  ASSUME IInv, IInv', [Next]_vars, MetadataInv,
         NEW x \in DOMAIN live, NEW v \in MetaValues, MetaSet(x, v)
  PROVE  MetadataInv'
<1>1. x \in Objects
  BY Zenon DEF Objects
<1>2. /\ words' = WriteWords(SlotsWritten(pageTable, x, ObjSize(x)), v)
      /\ live' = [live EXCEPT ![x] = v]
      /\ pairs' = pairs /\ sizeclass' = sizeclass /\ pageTable' = pageTable
  BY Zenon DEF MetaSet
<1>3. DOMAIN live' = DOMAIN live \cup {x} /\ live'[x] = v
  BY <1>2, Zenon
<1>4. \A o \in DOMAIN live \ {x} : live'[o] = live[o]
  BY <1>2, Zenon
<1> QED
  BY <1>1, <1>2, <1>3, <1>4, SetObjectStep, Zenon

\* The program may write over an object it holds without touching metadata.
LEMMA UserWriteWords ==
  ASSUME IInv, IInv', [Next]_vars, MetadataInv, NEW x \in DOMAIN live, UserWrite(x)
  PROVE  MetadataInv'
<1>1. x \in Objects
  BY Zenon DEF Objects
<1>2. PICK q \in pairs, e \in Classes \cup {0} : HomeIs(x, q, e)
  BY <1>1, HomeOf, Zenon
<1>3. q.data \in Span /\ q.data \in alloc
  BY PairFacts, Zenon DEF IInv
<1>4. /\ pairs' = pairs /\ sizeclass' = sizeclass /\ pageTable' = pageTable
      /\ live' = live /\ words' = Clobber(x, x + ObjSize(x) - 1)
  BY Zenon DEF UserWrite
<1>5. \A a \in x .. x + ObjSize(x) - 1 : PageOf(a) \in PagesOf(q.data)
  BY <1>2, <1>3, ObjectInSpan, Zenon DEF HomeIs
<1>6. \A p \in pairs : p.meta # q.data
  BY Zenon DEF IInv, EntriesNameOwnMetaspan
<1>7. WordsInv'
  BY <1>3, <1>4, <1>5, <1>6, ClobberStep, Zenon DEF MetadataInv
<1> QED
  BY <1>4, <1>7, SameRoom, Zenon DEF MetadataInv

\* do_memalign writes the metadata of its object through the entries it has
\* just made.
LEMMA MemalignWords ==
  ASSUME IInv, IInv', [Next]_vars, MetadataInv,
         NEW t \in Threads, NEW n \in LargeLens, NEW a \in Aligns, Memalign(t, n, a)
  PROVE  MetadataInv'
<1>1. n \in Nat \ {0} /\ a \in Nat \ {0} /\ alloc \subseteq Span
  BY RequestAssumption, Zenon DEF IInv, TypeOK
<1>2. PICK r \in FreeRuns(alloc, IF a = 1 THEN n ELSE n + a) :
        LET d == AlignedPart(r, n, a)
        IN  \E m \in MetaRuns(d, 0) :
              /\ Pair(d, m, 0)
              /\ words' = WriteWords(SlotsWritten(pageTable', BaseOf(d), BytesOf(d)), 0)
              /\ live' = Extend(live, BaseOf(d), 0)
  BY Zenon DEF Memalign
<1>3. PICK d \in Span : /\ d = AlignedPart(r, n, a) /\ LastPage(d) <= NPages
                        /\ \A s \in alloc : Apart(d, s)
  BY <1>1, AlignedPartFacts, Zenon
<1>4. PICK m \in MetaRuns(d, 0) :
        /\ Pair(d, m, 0)
        /\ words' = WriteWords(SlotsWritten(pageTable', BaseOf(d), BytesOf(d)), 0)
        /\ live' = Extend(live, BaseOf(d), 0)
  BY <1>2, <1>3, Zenon
<1>5. RoomInv' /\ NoDanglingEntry'
  BY <1>3, <1>4, PairRoom, Zenon DEF MetadataInv
<1>6. PICK q \in pairs' : q.data = d /\ q.meta = m
  <2> DEFINE new == [data |-> d, meta |-> m]
  <2>1. pairs' = pairs \cup {new} /\ new.data = d /\ new.meta = m
    BY <1>4, Zenon DEF Pair
  <2> QED
    BY <2>1, Zenon
<1>7. sizeclass'[d.start] = 0
  BY <1>3, <1>4, GranuleType, PairStep, Zenon
<1>8. m \in Span
  BY Zenon DEF MetaRuns, FreeRuns
<1>9. ObjectAt(BaseOf(d), d, 0) /\ SizeIn(d, 0) = BytesOf(d)
  BY Zenon DEF ObjectAt, SizeIn
<1>10. EntriesOf(pageTable', d, m, 0)
  BY <1>6, <1>7, Zenon DEF EntriesOf, IInv, EntriesNameOwnMetaspan, EntryAt,
     GranuleOf, BaseOf, FirstMetaPage
<1>11. Written(pageTable', d, m, 0, BaseOf(d))
  BY <1>8, <1>9, <1>10, WordsWritten, Zenon
<1>12. words' = WriteWords(WordsAt(d, m, 0, BaseOf(d)), 0)
  BY <1>4, <1>9, <1>11, Zenon DEF Written
<1>13. /\ DOMAIN live' = DOMAIN live \cup {BaseOf(d)} /\ live'[BaseOf(d)] = 0
       /\ \A o \in DOMAIN live \ {BaseOf(d)} : live'[o] = live[o]
  BY <1>4, Zenon DEF Extend
<1>14. WordsInv'
  BY <1>5, <1>6, <1>7, <1>9, <1>12, <1>13, WriteStep, Zenon DEF MetadataInv
<1> QED
  BY <1>5, <1>14, Zenon DEF MetadataInv

LEMMA MetadataInit == Init => MetadataInv
  BY Zenon DEF Init, MetadataInv, RoomInv, WordsInv, NoDanglingEntry

LEMMA MetadataNext == IInv /\ IInv' /\ [Next]_vars /\ MetadataInv => MetadataInv'
<1> SUFFICES ASSUME IInv, IInv', [Next]_vars, MetadataInv PROVE MetadataInv'
  OBVIOUS
<1>0. WordsInv
  BY Zenon DEF MetadataInv
<1>1. ASSUME NEW d \in Span, LastPage(d) <= NPages, \A s \in alloc : Apart(d, s),
             NEW c \in Classes \cup {0}, NEW m \in MetaRuns(d, c), Pair(d, m, c),
             words' = words, live' = live
      PROVE  MetadataInv'
  BY <1>0, <1>1, PairRoom, QuietStep, Zenon DEF MetadataInv
<1>2. ASSUME NEW n, NEW c \in Classes \cup {0},
             \E d \in FreeRuns(alloc, n) : \E m \in MetaRuns(d, c) : Pair(d, m, c),
             words' = words, live' = live
      PROVE  MetadataInv'
  <2>1. PICK d \in FreeRuns(alloc, n) : \E m \in MetaRuns(d, c) : Pair(d, m, c)
    BY <1>2, Zenon
  <2>2. d \in Span /\ LastPage(d) <= NPages /\ \A s \in alloc : Apart(d, s)
    BY FreeRunFacts, Zenon
  <2> QED
    BY <1>1, <1>2, <2>1, <2>2, Zenon
<1>3. CASE \E t \in Threads, n \in LargeLens : MallocLarge(t, n)
  <2>1. PICK n \in LargeLens : \E t \in Threads : MallocLarge(t, n)
    BY <1>3, Zenon
  <2>2. /\ \E d \in FreeRuns(alloc, n) : \E m \in MetaRuns(d, 0) : Pair(d, m, 0)
        /\ words' = words /\ live' = live
    BY <2>1, Zenon DEF MallocLarge
  <2> QED
    BY <1>2, <2>2, Zenon
<1>4. CASE \E t \in Threads, n \in LargeLens, a \in Aligns : Memalign(t, n, a)
  BY <1>4, MemalignWords, Zenon
<1>5. CASE \E t \in Threads, c \in Classes : Populate(t, c)
  <2>1. PICK c \in Classes : \E t \in Threads : Populate(t, c)
    BY <1>5, Zenon
  <2>2. /\ \E d \in FreeRuns(alloc, ClassPages[c]) : \E m \in MetaRuns(d, c) : Pair(d, m, c)
        /\ words' = words /\ live' = live
    BY <2>1, Zenon DEF Populate
  <2> QED
    BY <1>2, <2>2, Zenon
<1>6. CASE \E t \in Threads : ReleaseSpan(t) \/ FreeLarge(t)
  BY <1>6, UnpairRoom, Zenon DEF ReleaseSpan, FreeLarge, Holding
<1>7. CASE \E t \in Threads : ResetMetadata(t)
  BY <1>7, ResetMetadataWords, Zenon
<1>8. CASE \E o \in DOMAIN live, v \in MetaValues : MetaSet(o, v)
  BY <1>8, MetaSetWords, Zenon
<1>9. CASE \E o \in DOMAIN live : UserWrite(o)
  BY <1>9, UserWriteWords, Zenon
<1>10. CASE \E t \in Threads, o \in DOMAIN live : Free(t, o)
  <2>1. PICK o : live' = Restrict(live, DOMAIN live \ {o})
    BY <1>10, Zenon DEF Free
  <2>2. /\ DOMAIN live' \subseteq DOMAIN live
        /\ \A x \in DOMAIN live' : live'[x] = live[x]
    BY <2>1, Zenon DEF Restrict
  <2>3. /\ pairs' = pairs /\ sizeclass' = sizeclass /\ pageTable' = pageTable
        /\ words' = words
    BY <1>10, Zenon DEF Free
  <2> QED
    BY <1>0, <2>2, <2>3, SameRoom, QuietStep, Zenon DEF MetadataInv
<1>11. CASE \/ \E t \in Threads : Carve(t)
            \/ \E o \in inSpan : Fetch(o)
            \/ \E t \in Threads, o \in cached : MallocSmall(t, o)
            \/ \E t \in Threads, o \in cached : ReleaseToSpans(t, o)
            \/ \E o \in DOMAIN live : GetSize(o)
            \/ UNCHANGED vars
  <2>1. /\ pairs' = pairs /\ sizeclass' = sizeclass /\ pageTable' = pageTable
        /\ words' = words /\ live' = live
    BY <1>11, Zenon DEF Carve, Fetch, MallocSmall, ReleaseToSpans, GetSize, vars
  <2> QED
    BY <1>0, <2>1, SameRoom, QuietStep, Zenon DEF MetadataInv
<1> QED
  BY <1>3, <1>4, <1>5, <1>6, <1>7, <1>8, <1>9, <1>10, <1>11, Zenon DEF Next

\* metaget on any byte of a live object returns what was last set for it, for
\* every geometry of pages, granules and metadata words, any number of threads
\* and size classes, and through every window without lock; and no entry outlives
\* the span it was made for.
THEOREM MetadataAlwaysExact == Spec => []MetadataExact
<1>1. IInv /\ MetadataInv => MetadataExact
  BY WordsExact, Zenon DEF MetadataInv, MetadataExact
<1> QED
  BY <1>1, Invariance, MetadataInit, MetadataNext, PTL DEF Spec

=============================================================================
