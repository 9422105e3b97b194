------------------------------ MODULE MetaAccess ------------------------------
(***************************************************************************)
(* The functions that instrumented programs use: metaset and metaget in    *)
(* their variants, over the page table that set_metapagetable_entries      *)
(* fills.  Metadata are bytes here: a value of metaBytes bytes is written  *)
(* byte by byte, and a read is the value only if its bytes belong          *)
(* together.  The variable-sized scheme finds the metadata of an address   *)
(* through its page's entry, the fixed one by a division.                  *)
(***************************************************************************)
EXTENDS Integers, FiniteSets

CONSTANTS
  MPages, MPageSize,     \* METALLOC_PAGESIZE, in units of address
  MAlignments,           \* alignments, as shifts
  MSizes,                \* metadata sizes of the variable-sized scheme
  FixedSize, FixedSizes, \* METALLOC_FIXEDSIZE, metadata sizes in the fixed scheme
  MetaSpace, MetaPage,   \* the metadata's addresses 1..MetaSpace, SYSTEM_PAGESIZE
  MValues,
  MObjectSizes, MaxMetaOps   \* bounds: the objects' sizes, and the operations

ASSUME MetaAccessAssumption ==
  /\ MPageSize \in Nat \ {0} /\ FixedSize \in Nat \ {0} /\ MetaPage \in Nat \ {0}
  /\ \A a \in MAlignments : MPageSize % (2^a) = 0

VARIABLES
  fixedCompression, metaBytes,
  mTable,        \* page -> entry: [base, alignment], or NoEntry
  mMem,          \* metadata address -> byte
  mMapped,       \* metadata addresses that are mapped
  mSpans,        \* areas with metadata: [page, pages, alignment]
  mObjects,      \* live objects: [ptr, size, value]
  mOps

maVars == <<fixedCompression, metaBytes, mTable, mMem, mMapped, mSpans, mObjects, mOps>>

NoEntry == [base |-> 0, alignment |-> 0]
ZeroByte == [value |-> "zero", byte |-> 0]
MAddresses == 0 .. (MPages * MPageSize - 1)
PageOf(ptr) == ptr \div MPageSize
MetaAddrs == 0 .. (MetaSpace + MPages * MPageSize)

MetaInit ==
  /\ fixedCompression \in BOOLEAN
  /\ metaBytes \in IF fixedCompression THEN FixedSizes ELSE MSizes
  /\ mTable = [p \in 0..(MPages - 1) |-> NoEntry]
  /\ mMem = [m \in MetaAddrs |-> ZeroByte]
  /\ mMapped = IF fixedCompression THEN MetaAddrs ELSE {}
  /\ mSpans = {} /\ mObjects = {} /\ mOps = 0

-----------------------------------------------------------------------------
(* Areas.                                                                  *)

\* allocate_metadata: whole pages of zero bytes, somewhere.
MetadataSize(size, alignment) ==
  LET n == (size * metaBytes) \div 2^alignment
  IN  ((n + MetaPage - 1) \div MetaPage) * MetaPage

FreeBases(n) ==
  {b \in 1 .. (MetaSpace - n + 1) : (b - 1) % MetaPage = 0 /\ (b .. (b + n - 1)) \cap mMapped = {}}

SetMetapagetableEntriesSame(page, pages, base, alignment) ==
  mTable' = [p \in DOMAIN mTable |->
              IF p \in page .. (page + pages - 1) THEN [base |-> base, alignment |-> alignment]
              ELSE mTable[p]]

\* set_metapagetable_entries.
SetMetapagetableEntries(page, pages, base, alignment) ==
  mTable' = [p \in DOMAIN mTable |->
              IF p \in page .. (page + pages - 1)
              THEN [base |-> base + (((p - page) * MPageSize) \div 2^alignment) * metaBytes,
                    alignment |-> alignment]
              ELSE mTable[p]]

SpanPages(s) == s.page .. (s.page + s.pages - 1)

\* initialize_metadata for the globals and the stack, unsafe_stack_alloc_meta,
\* and, in the same way, every span of the heap: the area grows to whole pages.
InitializeMetadata ==
  \E start, end \in MAddresses, alignment \in MAlignments :
    LET page == PageOf(start)
        pages == ((end + 1 - page * MPageSize) + MPageSize - 1) \div MPageSize
        n == MetadataSize(pages * MPageSize, alignment)
        span == [page |-> page, pages |-> pages, alignment |-> alignment]
    IN  /\ ~fixedCompression /\ start <= end
        /\ \A s \in mSpans : SpanPages(s) \cap SpanPages(span) = {}
        /\ \E base \in FreeBases(n) :
             /\ mMapped' = mMapped \cup (base .. (base + n - 1))
             /\ mMem' = [m \in MetaAddrs |-> IF m \in base .. (base + n - 1) THEN ZeroByte
                                             ELSE mMem[m]]
             /\ SetMetapagetableEntries(page, pages, base, alignment)
        /\ mSpans' = mSpans \cup {span}
        /\ UNCHANGED <<fixedCompression, metaBytes, mObjects>>

\* unsafe_stack_free_meta, deallocate_metadata: the entries stay behind.
DeallocateMetadata ==
  \E s \in mSpans :
    LET n == MetadataSize(s.pages * MPageSize, s.alignment)
        base == mTable[s.page].base
    IN  /\ \A o \in mObjects : PageOf(o.ptr) \notin SpanPages(s)
        /\ mMapped' = mMapped \ (base .. (base + n - 1))
        /\ mSpans' = mSpans \ {s}
        /\ UNCHANGED <<fixedCompression, metaBytes, mTable, mMem, mObjects>>

-----------------------------------------------------------------------------
(* metaset and metaget.                                                    *)

\* Where the variants find the metadata of ptr.  metaset and metaget read the
\* entry of ptr's page; the fast and base variants are handed the entry of an
\* older pointer into the same object and count from that pointer's page.
MetaPtr(ptr) ==
  mTable[PageOf(ptr)].base
    + ((ptr - PageOf(ptr) * MPageSize) \div 2^(mTable[PageOf(ptr)].alignment)) * metaBytes

MetaPtrFrom(ptr, old) ==
  mTable[PageOf(old)].base
    + ((ptr - PageOf(old) * MPageSize) \div 2^(mTable[PageOf(old)].alignment)) * metaBytes

MetaPtrFixed(ptr) == (ptr \div FixedSize) * metaBytes

\* The loop of the metaset variants: n values from metaptr on.
WriteMeta(metaptr, n, value) ==
  [m \in MetaAddrs |->
     IF m \in metaptr .. (metaptr + n * metaBytes - 1)
     THEN [value |-> value, byte |-> (m - metaptr) % metaBytes]
     ELSE mMem[m]]

Granules(count, g) == (count + g - 1) \div g

Granule(ptr) == IF fixedCompression THEN FixedSize ELSE 2^(mTable[PageOf(ptr)].alignment)

\* metaset, metaset_alignment (with the alignment of the area, known to the
\* compiler) and default_alloc_hook.
metaset(ptr, count, value) ==
  mMem' = WriteMeta(IF fixedCompression THEN MetaPtrFixed(ptr) ELSE MetaPtr(ptr),
                    Granules(count, Granule(ptr)), value)

metaset_fast(ptr, count, value, old) ==
  mMem' = WriteMeta(MetaPtrFrom(ptr, old), Granules(count, Granule(old)), value)

ReadMeta(metaptr) ==
  IF \A j \in 0..(metaBytes - 1) :
       mMem[metaptr + j] = [value |-> mMem[metaptr].value, byte |-> j]
  THEN mMem[metaptr].value
  ELSE "zero or mixed"

metaget(ptr) == ReadMeta(MetaPtr(ptr))
metaget_base(ptr, old) == ReadMeta(MetaPtrFrom(ptr, old))
metaget_fixed(ptr) == ReadMeta(ptr \div FixedSize)

-----------------------------------------------------------------------------
(* Objects.                                                                *)

ObjectUnits(o) == o.ptr .. (o.ptr + o.size - 1)
ObjectGranules(o) == {u \div Granule(o.ptr) : u \in ObjectUnits(o)}

\* The areas an object may be in: all of memory in the fixed scheme.
InOneArea(o) ==
  \/ fixedCompression
  \/ \E s \in mSpans : \A u \in ObjectUnits(o) : PageOf(u) \in SpanPages(s)

\* Allocators, the stack frames and the global tracker place objects at
\* multiples of the granule; the metadata is set in the same step.
AllocObject ==
  \E ptr \in MAddresses, size \in MObjectSizes, value \in MValues :
    LET o == [ptr |-> ptr, size |-> size, value |-> value]
    IN  /\ ptr + size <= MPages * MPageSize
        /\ InOneArea(o) /\ ptr % Granule(ptr) = 0
        /\ \A p \in mObjects : ObjectGranules(o) \cap ObjectGranules(p) = {}
        /\ mObjects' = mObjects \cup {o}
        /\ metaset(ptr, size, value)
        /\ UNCHANGED <<fixedCompression, metaBytes, mTable, mMapped, mSpans>>

FreeObject ==
  \E o \in mObjects :
    /\ mObjects' = mObjects \ {o}
    /\ UNCHANGED <<fixedCompression, metaBytes, mTable, mMem, mMapped, mSpans>>

\* Instrumented code sets the metadata of an object anew, through any pointer
\* into it from which the fast path has the entry.
ResetObject ==
  \E o \in mObjects, value \in MValues : \E old \in ObjectUnits(o) :
    /\ value # o.value /\ ~fixedCompression
    /\ mObjects' = (mObjects \ {o}) \cup {[o EXCEPT !.value = value]}
    /\ metaset_fast(o.ptr, o.size, value, old)
    /\ UNCHANGED <<fixedCompression, metaBytes, mTable, mMapped, mSpans>>

MetaNext ==
  /\ mOps < MaxMetaOps /\ mOps' = mOps + 1
  /\ \/ InitializeMetadata \/ DeallocateMetadata
     \/ AllocObject \/ FreeObject \/ ResetObject

MetaSpec == MetaInit /\ [][MetaNext]_maVars

-----------------------------------------------------------------------------
\* metaget, metaget_base, metaget_fixed: through every pointer into a live
\* object, the metadata read is what was last set for the whole object,
\* across page boundaries and whichever variants wrote and read; the base
\* variant from every page of the object up to the pointer's.
MetadataFollowsObject ==
  \A o \in mObjects : \A u \in ObjectUnits(o) :
    IF fixedCompression THEN metaget_fixed(u) = o.value
    ELSE /\ metaget(u) = o.value
         /\ \A old \in ObjectUnits(o) : PageOf(old) <= PageOf(u) => metaget_base(u, old) = o.value

\* allocate_metadata: the metadata of an area is mapped in full and is no
\* other area's.
MetadataMapped ==
  \A s \in mSpans :
    LET Meta(t) == {mTable[p].base + (d \div 2^t.alignment) * metaBytes + j :
                      p \in SpanPages(t), d \in 0..(MPageSize - 1), j \in 0..(metaBytes - 1)}
    IN  /\ Meta(s) \subseteq mMapped
        /\ \A t \in mSpans : s # t => Meta(s) \cap Meta(t) = {}
=============================================================================
