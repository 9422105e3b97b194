------------------------------ MODULE MmapHooks ------------------------------
(***************************************************************************)
(* mmap, munmap, mremap and sbrk as the allocator replaces them: after the *)
(* system call each one brings the meta-pagetable up to date, so that      *)
(* memory that is no heap has the sentinel as its metadata.  The calls     *)
(* hold no lock, so the calls of two threads interleave between the system *)
(* call and the table.                                                     *)
(*                                                                         *)
(* A call leaves a list of steps to do; Step takes the first of them.      *)
(* Pages below BrkPages are the data segment, the others are mmapped.      *)
(***************************************************************************)
EXTENDS Integers, Sequences, FiniteSets, FiniteSetsExt

CONSTANTS
  MmapThreads, MmapMain,
  BrkPages, MapPages,   \* pages of the data segment and of the mmap area
  PageBytes,            \* METALLOC_PAGESIZE
  Lengths, Increments,  \* bytes asked for
  MaxRefusals,          \* bound: system calls the kernel refuses
  MmapMaxCalls              \* bound: calls of the hooked functions

ASSUME MmapAssumption ==
  /\ {BrkPages, MapPages, MaxRefusals, MmapMaxCalls} \subseteq Nat
  /\ PageBytes \in Nat \ {0}
  /\ Lengths \subseteq Nat /\ Increments \subseteq Int

VARIABLES
  mapped,               \* pages in use
  brk,                  \* program break, in bytes
  entry,                \* the pageTable: "none", "sentinel", or "bogus"
  isPageTableAlloced,
  metalloc_sentinel,    \* "null", "page", or "failed" (MAP_FAILED)
  todo,                 \* thread -> steps left of its call
  status,               \* "run", "fault", "exit"
  refusals, calls,
  disturbed             \* history: pages whose entry a race or a failed call left wrong

mmapVars == <<mapped, brk, entry, isPageTableAlloced, metalloc_sentinel, todo, status,
              refusals, calls, disturbed>>

HookPages == 0 .. BrkPages + MapPages - 1

DoSentinel   == [do |-> "sentinel", pages |-> {}]
DoSet(ps)    == [do |-> "set", pages |-> ps]
DoClear(ps)  == [do |-> "clear", pages |-> ps]
DoFault      == [do |-> "fault", pages |-> {}]
DoExit(ps)   == [do |-> "exit", pages |-> ps]

\* Bytes to whole pages; C division truncates towards zero.
Rounded(n) ==
  LET x == n + PageBytes - 1 IN IF x >= 0 THEN x \div PageBytes ELSE -((-x) \div PageBytes)
From(p, count) == {q \in HookPages : q >= p /\ q < p + count}

MmapInit ==
  /\ mapped = From(0, 1) /\ brk \in {PageBytes - 1, PageBytes}
  /\ entry = [p \in HookPages |-> "none"]
  /\ isPageTableAlloced = FALSE /\ metalloc_sentinel = "null"
  /\ todo = [t \in MmapThreads |-> <<>>]
  /\ status = "run" /\ refusals = 0 /\ calls = 0
  /\ disturbed = From(0, 1)          \* mapped by the kernel, never through a hook

Pending(ts) == UNION {UNION {todo[t][i].pages : i \in DOMAIN todo[t]} : t \in ts}

\* Other threads exist only once the init functions, page_table_init among
\* them, have run.
MayCall(t) ==
  /\ status = "run" /\ todo[t] = <<>> /\ calls < MmapMaxCalls
  /\ t = MmapMain \/ isPageTableAlloced
  /\ calls' = calls + 1

Refuse == refusals < MaxRefusals /\ refusals' = refusals + 1

FreeRuns(n) ==
  {From(p, n) : p \in {q \in BrkPages .. BrkPages + MapPages - n :
                         From(q, n) \cap mapped = {}}}

\* mmap and mmap64: the address of a refused call is (void*)-1, for which
\* the table has no entry.
mmap(t, length) ==
  /\ MayCall(t)
  /\ \/ /\ length > 0 /\ Refuse
        /\ todo' = [todo EXCEPT ![t] = <<DoSentinel, DoFault>>]
        /\ UNCHANGED <<mapped, disturbed>>
     \/ /\ length = 0                \* refused as well, but with no entry to write
        /\ todo' = [todo EXCEPT ![t] = <<DoSentinel, DoSet({})>>]
        /\ UNCHANGED <<mapped, disturbed, refusals>>
     \/ /\ length > 0
        /\ \E ps \in FreeRuns(Rounded(length)) :
             /\ mapped' = mapped \cup ps
             /\ todo' = [todo EXCEPT ![t] = <<DoSentinel, DoSet(ps)>>]
             /\ disturbed' = (disturbed \ ps) \cup (ps \cap Pending(MmapThreads \ {t}))
        /\ UNCHANGED refusals
  /\ UNCHANGED <<brk, entry, isPageTableAlloced, metalloc_sentinel, status>>

\* munmap: the entries are cleared after the pages are gone, and also when
\* the kernel refused because the address or the length was not good.
munmap(t, start, length) ==
  LET p  == start \div PageBytes
      ps == From(p, Rounded(length))
      ok == start % PageBytes = 0 /\ length > 0
  IN
  /\ MayCall(t)
  /\ ps \cap Pending(MmapThreads) = {} /\ From(p, 1) \subseteq mapped /\ p >= BrkPages
  /\ mapped' = IF ok THEN mapped \ ps ELSE mapped
  /\ disturbed' = IF ok THEN disturbed \ ps ELSE disturbed \cup ps
  /\ todo' = [todo EXCEPT ![t] = <<DoClear(ps)>>]
  /\ UNCHANGED <<brk, entry, isPageTableAlloced, metalloc_sentinel, status, refusals>>

\* mremap: a first call with the size as it is, which ends the program when
\* that is no number of whole pages; then clear again, and set the new range.
mremap(t, p, old_size, new_size) ==
  LET old   == From(p, Rounded(old_size))
      steps(last) == IF old_size % PageBytes # 0 THEN <<DoExit(old \cup last.pages)>>
                     ELSE <<DoClear(old), DoSentinel, DoClear(old), last>>
  IN
  /\ MayCall(t)
  /\ old \subseteq mapped /\ old \cap Pending(MmapThreads) = {} /\ p >= BrkPages
  /\ Cardinality(old) = Rounded(old_size) /\ old_size > 0 /\ new_size > 0
  /\ \/ /\ Refuse
        /\ todo' = [todo EXCEPT ![t] = steps(DoFault)]
        /\ disturbed' = disturbed \cup old
        /\ UNCHANGED mapped
     \/ \E new \in FreeRuns(Rounded(new_size)) \cup
                   {From(p, n) : n \in {k \in {Rounded(new_size)} :
                       (From(p, k) \ old) \cap mapped = {} /\ Cardinality(From(p, k)) = k}} :
          /\ mapped' = (mapped \ old) \cup new
          /\ todo' = [todo EXCEPT ![t] = steps(DoSet(new))]
          /\ disturbed' = (disturbed \ (old \cup new))
                            \cup (new \cap Pending(MmapThreads \ {t}))
          /\ UNCHANGED refusals
  /\ UNCHANGED <<brk, entry, isPageTableAlloced, metalloc_sentinel, status>>

\* sbrk: entries from the page of the old break on, as many as the increment
\* has pages.  A shrinking call leaves entries of pages that are gone, and
\* one of more than a page asks for an enormous number of entries.
sbrk(t, increment) ==
  LET n     == Rounded(increment)
      new   == brk + increment
      used  == From(0, Rounded(new))
      set   == From(brk \div PageBytes, n)
      wrong == (used \ mapped) \ set
  IN
  /\ MayCall(t)
  /\ \/ /\ Refuse
        /\ todo' = [todo EXCEPT ![t] = <<DoSentinel, DoFault>>]
        /\ UNCHANGED <<mapped, brk, disturbed>>
     \/ /\ new >= 0 /\ Rounded(new) <= BrkPages
        /\ brk' = new
        /\ mapped' = {q \in mapped : q >= BrkPages} \cup used
        /\ todo' = [todo EXCEPT ![t] = IF n < 0 THEN <<DoSentinel, DoFault>>
                                       ELSE <<DoSentinel, DoSet(set)>>]
        /\ disturbed' = disturbed \cup wrong \cup {q \in mapped : q < BrkPages /\ q \notin used}
                          \cup (set \cap Pending(MmapThreads \ {t}))
        /\ UNCHANGED refusals
  /\ UNCHANGED <<entry, isPageTableAlloced, metalloc_sentinel, status>>

\* page_table_init maps a fresh table of zeros.
page_table_init_entries == IF isPageTableAlloced THEN entry ELSE [p \in HookPages |-> "none"]

SetEntriesShort(ps, e) ==
  /\ entry' = [p \in HookPages |-> IF p \in ps /\ (p + 1 \in ps \/ p - 1 \notin ps) THEN e
                                   ELSE page_table_init_entries[p]]
  /\ isPageTableAlloced' = TRUE

\* set_metapagetable_entries
SetEntries(ps, e) ==
  /\ entry' = [p \in HookPages |-> IF p \in ps THEN e ELSE page_table_init_entries[p]]
  /\ isPageTableAlloced' = TRUE

SentinelEntry == IF metalloc_sentinel = "page" THEN "sentinel" ELSE "bogus"

MmapStep(t) ==
  /\ status = "run" /\ todo[t] # <<>>
  /\ todo' = [todo EXCEPT ![t] = Tail(@)]
  /\ LET s == Head(todo[t]) IN
     \/ /\ s.do = "sentinel"
        /\ \/ metalloc_sentinel # "null" /\ UNCHANGED <<metalloc_sentinel, refusals>>
           \/ metalloc_sentinel = "null" /\ metalloc_sentinel' = "page" /\ UNCHANGED refusals
           \/ metalloc_sentinel = "null" /\ Refuse /\ metalloc_sentinel' = "failed"
        /\ UNCHANGED <<entry, isPageTableAlloced, status>>
     \/ /\ s.do = "set" /\ SetEntries(s.pages, SentinelEntry)
        /\ UNCHANGED <<metalloc_sentinel, refusals, status>>
     \/ /\ s.do = "clear" /\ SetEntries(s.pages, "none")
        /\ UNCHANGED <<metalloc_sentinel, refusals, status>>
     \/ /\ s.do \in {"fault", "exit"} /\ status' = s.do
        /\ UNCHANGED <<entry, isPageTableAlloced, metalloc_sentinel, refusals>>
  /\ UNCHANGED <<mapped, brk, calls, disturbed>>

\* page_table_init from the .init_array.
InitArray ==
  /\ ~isPageTableAlloced /\ todo[MmapMain] = <<>> /\ status = "run"
  /\ entry' = page_table_init_entries
  /\ isPageTableAlloced' = TRUE
  /\ UNCHANGED <<mapped, brk, metalloc_sentinel, todo, status, refusals, calls, disturbed>>

MmapNext ==
  \/ InitArray
  \/ \E t \in MmapThreads :
       \/ MmapStep(t)
       \/ \E n \in Lengths : mmap(t, n)
       \/ \E s \in BrkPages * PageBytes .. (BrkPages + MapPages) * PageBytes - 1,
             n \in Lengths : munmap(t, s, n)
       \/ \E p \in HookPages, n, m \in Lengths : mremap(t, p, n, m)
       \/ \E i \in Increments : sbrk(t, i)

MmapSpec == MmapInit /\ [][MmapNext]_mmapVars

-----------------------------------------------------------------------------
\* Metadata of memory that is no heap: a page that no call is working on has
\* the sentinel exactly when it is mapped.  The exceptions are the pages that
\* were mapped while another thread had still to clear them (munmap clears
\* after the kernel gave the page away), those of failed munmap and mremap
\* calls, and those at the ragged or shrinking end of the data segment.
HooksTrackMappings ==
  status = "run" /\ metalloc_sentinel # "failed" =>
    \A p \in HookPages \ (disturbed \cup Pending(MmapThreads)) :
      entry[p] = IF p \in mapped THEN "sentinel" ELSE "none"
=============================================================================
