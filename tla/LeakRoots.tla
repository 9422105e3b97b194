------------------------------ MODULE LeakRoots ------------------------------
(***************************************************************************)
(* Where the leak checker looks for pointers: the thread stacks and the    *)
(* global data.  The writable lines of /proc/self/maps are merged by the   *)
(* kernel, so they hold heap, stacks and globals side by side; the regions *)
(* of MemoryRegionMap tell them apart.  Addresses are pages.  A check      *)
(* reads the lines, registers the stacks one by one and then takes the     *)
(* regions of the heap and of the stacks out of what is left.              *)
(***************************************************************************)
EXTENDS Integers, FiniteSets, FiniteSetsExt

CONSTANTS
  LrPages \* pages of the address space

ASSUME LeakRootsAssumption == LrPages \in Nat \ {0}

VARIABLES
  lines,      \* writable lines of /proc/self/maps
  lrRegions,  \* regions of MemoryRegionMap; their caller, and is_stack
  tops,       \* the tops of the thread stacks still to register
  lrStacks,   \* all of them
  library_live_objects, \* spans that may be live global data
  live_objects,         \* spans that are searched for pointers
  lrPhase

lrVars == <<lines, lrRegions, tops, lrStacks, library_live_objects, live_objects, lrPhase>>

Span(s, e) == [start |-> s, end |-> e]
LrSpans == {x \in {Span(s, e) : s \in 0..(LrPages - 1), e \in 1..LrPages} : x.start < x.end}
LrAddresses(x) == x.start..(x.end - 1)
Apart(S) == \A x, y \in S : LrAddresses(x) \cap LrAddresses(y) = {} \/ x = y
AllPages(S) == UNION {LrAddresses(x) : x \in S}
\* The layouts have at most two lines, regions and stacks.
UpToTwo(S) == {{}} \cup {{x, y} : x, y \in S}

\* A region was mapped by a library whose regions are global data, or by the
\* allocator; one whose caller is unknown is treated like the latter.
Callers == {"heap", "library"}
Regions(S) == {[start |-> x.start, end |-> x.end, caller |-> c, is_stack |-> FALSE] :
                 x \in S, c \in Callers}

\* A stack lies in a region, or in the part of a line between two regions; no
\* two stacks share a region or such a part.
Part(line, regions, p) ==
  LET below == {r.end : r \in {r \in regions : r.end <= p}} \cup {line.start}
      above == {r.start : r \in {r \in regions : r.start > p}} \cup {line.end}
  IN Span(Max(below \cap (line.start..line.end)), Min(above \cap (line.start..line.end)))
StackArea(ls, regions, p) ==
  IF \E r \in regions : p \in LrAddresses(r)
  THEN LET r == CHOOSE r \in regions : p \in LrAddresses(r) IN Span(r.start, r.end)
  ELSE Part(CHOOSE x \in ls : p \in LrAddresses(x), regions, p)

LrInit ==
  /\ lines \in {S \in UpToTwo(LrSpans) : Apart(S)}
  /\ lrRegions \in {S \in UpToTwo(Regions({x \in LrSpans : LrAddresses(x) \subseteq AllPages(lines)})) : Apart(S)}
  /\ \A r \in lrRegions : \E x \in lines : LrAddresses(r) \subseteq LrAddresses(x)
  /\ lrStacks \in {T \in UpToTwo(AllPages(lines)) :
                     \A p, q \in T : p # q => StackArea(lines, lrRegions, p) # StackArea(lines, lrRegions, q)}
  /\ tops = lrStacks
  /\ library_live_objects = {} /\ live_objects = {} /\ lrPhase = "record"

\* UseProcMapsLocked(RECORD_GLOBAL_DATA).
RecordGlobalDataLocked ==
  /\ lrPhase = "record" /\ lrPhase' = "stacks"
  /\ library_live_objects' = lines
  /\ UNCHANGED <<lines, lrRegions, tops, lrStacks, live_objects>>

-----------------------------------------------------------------------------
MarkStackRegion(top) == {r \in lrRegions : top \in LrAddresses(r)}

\* The part of the span around the top that no region takes: the loop over the
\* regions narrows it from both sides.
ChopEnd(x, top) == Min({x.end} \cup {r.start : r \in {r \in lrRegions : top < r.start /\ r.start < x.end}})
ChopStart(x, top) == Max({x.start} \cup {r.end : r \in {r \in lrRegions : x.start < r.end /\ r.end <= top}})

RegisterStackLocked(top) ==
  LET inRegion == MarkStackRegion(top)
      spans == {x \in library_live_objects : top \in LrAddresses(x)}
  IN /\ lrPhase = "stacks" /\ top \in tops /\ tops' = tops \ {top}
     /\ \/ \E r \in inRegion :
             /\ lrRegions' = (lrRegions \ {r}) \cup {[r EXCEPT !.is_stack = TRUE]}
             /\ live_objects' = live_objects \cup {Span(top, r.end)}
             /\ UNCHANGED library_live_objects
        \/ /\ inRegion = {}
           /\ \E x \in spans :
                LET s == ChopStart(x, top)
                    e == ChopEnd(x, top)
                IN /\ live_objects' = live_objects \cup {Span(top, e)}
                   /\ library_live_objects' =
                        (library_live_objects \ {x})
                          \cup (IF s # x.start THEN {Span(x.start, s)} ELSE {})
                          \cup (IF e # x.end THEN {Span(e, x.end)} ELSE {})
           /\ UNCHANGED lrRegions
        \/ inRegion = {} /\ spans = {} /\ UNCHANGED <<lrRegions, library_live_objects, live_objects>>
     /\ UNCHANGED <<lines, lrStacks, lrPhase>>

-----------------------------------------------------------------------------
\* A region is taken out if it has a stack inside, or unless its caller is one
\* of the libraries whose regions are global data.
Subtracted(r) == r.is_stack \/ r.caller # "library"

Subtract(x, r) ==
  CASE r.start <= x.start /\ x.end <= r.end -> {}
    [] x.start < r.start /\ r.end < x.end -> {Span(x.start, r.start), Span(r.end, x.end)}
    [] ~(r.start <= x.start /\ x.end <= r.end) /\ r.end > x.start /\ r.start <= x.start ->
         {Span(r.end, x.end)}
    [] ~(x.start < r.start /\ r.end < x.end) /\ r.start > x.start /\ r.start < x.end ->
         {Span(x.start, r.start)}
    [] OTHER -> {x}

RECURSIVE SubtractAll(_, _)
SubtractAll(spans, rs) ==
  IF rs = {} THEN spans
  ELSE LET r == CHOOSE r \in rs : \A q \in rs : r.start <= q.start
       IN SubtractAll(UNION {Subtract(x, r) : x \in spans}, rs \ {r})

\* The global data part of IgnoreNonThreadLiveObjectsLocked.
IgnoreGlobalData ==
  /\ lrPhase = "stacks" /\ tops = {} /\ lrPhase' = "done"
  /\ live_objects' = live_objects
       \cup SubtractAll(library_live_objects, {r \in lrRegions : Subtracted(r)})
  /\ library_live_objects' = {}
  /\ UNCHANGED <<lines, lrRegions, tops, lrStacks>>

LrNext ==
  \/ RecordGlobalDataLocked
  \/ \E top \in 0..(LrPages - 1) : RegisterStackLocked(top)
  \/ IgnoreGlobalData

LrSpec == LrInit /\ [][LrNext]_lrVars

-----------------------------------------------------------------------------
HasStack(r) == lrStacks \cap LrAddresses(r) # {}
FreeStandingAreas ==
  {LrAddresses(StackArea(lines, lrRegions, p)) :
     p \in {p \in lrStacks : \A r \in lrRegions : p \notin LrAddresses(r)}}

\* Once the roots are known, the pages searched for pointers are the used part
\* of every stack, the regions made by the libraries whose data is global, and
\* the writable pages outside every region: all of the live data, so that
\* nothing reachable is reported, and neither the heap nor the unused part of a
\* stack, so that a stale pointer there hides no leak.
RootsExact ==
  lrPhase = "done" =>
    AllPages(live_objects) =
      {p \in AllPages(lines) :
         \/ \E top \in lrStacks : p >= top /\ p \in LrAddresses(StackArea(lines, lrRegions, top))
         \/ /\ \A r \in lrRegions : p \in LrAddresses(r) => r.caller = "library" /\ ~HasStack(r)
            /\ \A area \in FreeStandingAreas : p \notin area}
=============================================================================
