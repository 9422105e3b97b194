--------------------------- MODULE SpanAllocator ---------------------------
(***************************************************************************)
(* What the page heap (page_heap.cc) promises the layers above it: it      *)
(* hands out runs of contiguous pages, "spans", never giving the same page *)
(* to two callers.  PageHeap.tla implements this specification; the        *)
(* metadata layer (MetaHeap.tla) is built on its operators.                *)
(***************************************************************************)
EXTENDS Integers

CONSTANT NPages      \* heap pages are numbered 1..NPages; page 0 is never heap

ASSUME NPagesAssumption == NPages \in Nat \ {0}

VARIABLE alloc       \* the spans now in the hands of callers

Page == 1 .. NPages
Span == [start : Page, len : Page]

LastPage(s) == s.start + s.len - 1
PagesOf(s) == s.start .. LastPage(s)
Apart(s, t) == LastPage(s) < t.start \/ LastPage(t) < s.start

\* A run of n free pages, given that the spans in A are allocated.
FreeRuns(A, n) ==
  {s \in Span : s.len = n /\ LastPage(s) <= NPages /\ \A t \in A : Apart(s, t)}

AllocInit == alloc = {}

\* PageHeap::New.  Which of the free runs is returned is left open.
New(n) == \E s \in FreeRuns(alloc, n) : alloc' = alloc \cup {s}

\* PageHeap::Delete.
Delete(s) ==
  /\ s \in alloc
  /\ alloc' = alloc \ {s}

\* PageHeap::Split: the caller of New cuts its span in two (do_memalign).
Split(s, n) ==
  /\ s \in alloc
  /\ n < s.len
  /\ alloc' = (alloc \ {s}) \cup {[start |-> s.start, len |-> n],
                                  [start |-> s.start + n, len |-> s.len - n]}

AllocNext ==
  \/ \E n \in Page : New(n)
  \/ \E s \in alloc : Delete(s)
  \/ \E s \in alloc, n \in Page : Split(s, n)

AllocSpec == AllocInit /\ [][AllocNext]_alloc

\* Two callers never hold the same page: the promise that every user of
\* PageHeap::New relies on.
AllocDisjoint ==
  /\ \A s \in alloc : LastPage(s) <= NPages
  /\ \A s, t \in alloc : s # t => Apart(s, t)

=============================================================================
