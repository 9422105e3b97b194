-------------------------- MODULE DebugAllocation --------------------------
(***************************************************************************)
(* The debugging allocator.  Every object is in a MallocBlock: a header    *)
(* (size1_, offset_, magic1_, alloc_type_), the data and a trailer (size2_,*)
(* magic2_), or with malloc_page_fence a guard page.  alloc_map_ knows how *)
(* every object was allocated; a freed block waits in the free queue,      *)
(* filled with a magic byte that is checked before the memory is reused.   *)
(* The memory is an array of words, and a program may have one of the bugs *)
(* the allocator looks for.  Tracing and the messages are left out.        *)
(***************************************************************************)
EXTENDS Integers, Sequences, FiniteSets, FiniteSetsExt, SequencesExt

CONSTANTS
  DaThreads,
  DaSpace,        \* words of memory
  DaWord,         \* 2^w, for the arithmetic on sizes
  DaPage,         \* words of a page
  DaMinAlign, DaSizes, DaAligns, DaTypes,
  kFreeQueueSize, DaEntries, \* of the queue, and of the array entries
  DaEntrySize,    \* sizeof(MallocBlockQueueEntry)
  max_free_queue_size,
  DaMaxOps

data_offset == 4                   \* the words of the header
sizeofMallocBlock == data_offset + 2

\* The words.  Sizes and offsets are themselves; the rest are marks.
MagicUninitialized == -1
MagicDeleted == -2
MagicMalloc == -3
MagicMMap == -4
UserData == -20
kMallocType == -10 \* kNewType is -11 and kArrayNewType -12

ASSUME DebugAllocationAssumption ==
  /\ DaPage % DaMinAlign = 0 /\ DaSpace % DaPage = 0 /\ DaSpace < DaWord
  /\ kFreeQueueSize > 1 /\ DaEntries > 0 /\ max_free_queue_size >= 0
  /\ kMallocType \in DaTypes /\ DaTypes \subseteq -12..-10

VARIABLES
  malloc_page_fence, malloc_reclaim_memory, \* flags
  daMem,           \* the words
  daBlocks,        \* [start, size] given out by do_malloc or mmap
  alloc_map_,      \* data address -> [type, deallocated]
  q_, q_front_, q_back_, free_queue_size_,
  entries,         \* thread -> blocks popped and not yet given back
  daPc, daArg,     \* thread -> its step and the block it frees
  objects, dead,   \* the program's objects, and those it has freed
  daBug, daFatal, daOps

daVars == <<malloc_page_fence, malloc_reclaim_memory, daMem, daBlocks, alloc_map_, q_, q_front_,
            q_back_, free_queue_size_, entries, daPc, daArg, objects, dead, daBug, daFatal, daOps>>
queueVars == <<q_, q_front_, q_back_, free_queue_size_>>
flagVars == <<malloc_page_fence, malloc_reclaim_memory>>
stepVars == <<entries, daPc, daArg>>

NoBlock == [block |-> 0, size |-> 0]
NoBug == [kind |-> "none", block |-> 0]

DaInit ==
  /\ malloc_page_fence \in BOOLEAN /\ malloc_reclaim_memory \in BOOLEAN
  /\ daMem = [a \in 0..DaSpace - 1 |-> 0] /\ daBlocks = {} /\ alloc_map_ = << >>
  /\ q_ = [i \in 0..kFreeQueueSize - 1 |-> NoBlock] /\ q_front_ = 0 /\ q_back_ = 0
  /\ free_queue_size_ = 0
  /\ entries = [t \in DaThreads |-> << >>]
  /\ daPc = [t \in DaThreads |-> "idle"] /\ daArg = [t \in DaThreads |-> NoBlock]
  /\ objects = {} /\ dead = {} /\ daBug = NoBug /\ daFatal = "no" /\ daOps = 0

DaCall(t) == daFatal = "no" /\ daPc[t] = "idle" /\ daOps < DaMaxOps /\ daOps' = daOps + 1

-----------------------------------------------------------------------------
DaRoundUp(value, alignment) == ((value + alignment - 1) \div alignment) * alignment
real_malloced_size(size) == size + sizeofMallocBlock
real_mmapped_size(size) == DaRoundUp(size + data_offset, DaMinAlign)

IsMMapped(b) == daMem[b + 2] = MagicMMap
size1_(b) == daMem[b]
real_size(b) == IF IsMMapped(b) THEN real_mmapped_size(size1_(b)) ELSE real_malloced_size(size1_(b))
size2_addr(b) == b + data_offset + size1_(b)
data_addr(b) == b + data_offset

Words(start, size) == start..start + size - 1
TakenWords == UNION {Words(r.start, r.size) : r \in daBlocks}

\* do_malloc and mmap: the first free range; mmap gives whole pages.
DoMalloc(size, unit) ==
  LET starts == {a \in 1..DaSpace - size : a % unit = 0 /\ Words(a, size) \cap TakenWords = {}}
  IN IF starts = {} THEN {} ELSE {Min(starts)}

NumPages(size) == (size + DaPage - 1) \div DaPage + 1

\* Allocate up to Initialize: the new block, as a range and a start in it.
NewBlock(size) ==
  IF size > DaWord - 1 - sizeofMallocBlock THEN {}
  ELSE IF malloc_page_fence
  THEN LET sz == real_mmapped_size(size)
           words == NumPages(sz) * DaPage
       IN {[range |-> [start |-> p, size |-> words], b |-> p + words - DaPage - sz] :
             p \in DoMalloc(words, DaPage)}
  ELSE {[range |-> [start |-> p, size |-> real_malloced_size(size)], b |-> p] :
          p \in DoMalloc(real_malloced_size(size), DaMinAlign)}

Initialized(mem, b, size, type) ==
  [a \in DOMAIN mem |->
     CASE a = b -> size
       [] a = b + 1 -> 0
       [] a = b + 2 -> IF malloc_page_fence THEN MagicMMap ELSE MagicMalloc
       [] a = b + 3 -> type
       [] a \in Words(data_addr(b), size) -> MagicUninitialized
       [] ~malloc_page_fence /\ a = data_addr(b) + size -> size
       [] ~malloc_page_fence /\ a = data_addr(b) + size + 1 -> MagicMalloc
       [] OTHER -> mem[a]]

Recorded(b, type, deallocated) ==
  [a \in DOMAIN alloc_map_ \cup {data_addr(b)} |->
     IF a = data_addr(b) THEN [type |-> type, deallocated |-> deallocated] ELSE alloc_map_[a]]

\* The allocation functions.  For memalign the data starts after a second, fake
\* header whose offset_ leads back to the real one.
DebugAllocate(t) ==
  \E size \in DaSizes, align \in DaAligns, type \in DaTypes :
    LET extra == IF align = 0 THEN 0 ELSE data_offset + align - 1
        total == (size + extra) % DaWord
    IN /\ DaCall(t) /\ (align # 0 => type = kMallocType)
       /\ IF total < size \/ NewBlock(total) = {}
          THEN /\ daFatal' = IF malloc_page_fence /\ total >= size
                                  /\ total <= DaWord - 1 - sizeofMallocBlock
                             THEN "out of memory" ELSE daFatal
               /\ UNCHANGED <<daMem, daBlocks, alloc_map_, objects>>
          ELSE \E n \in NewBlock(total) :
                 LET b == n.b
                     p == IF align = 0 THEN data_addr(b)
                          ELSE DaRoundUp(data_addr(b) + data_offset, align)
                     mem == Initialized(daMem, b, total, type)
                 IN /\ daBlocks' = daBlocks \cup {n.range}
                    /\ alloc_map_' = Recorded(b, type, FALSE)
                    /\ daMem' = IF align = 0 THEN mem
                                ELSE [mem EXCEPT ![p - data_offset + 1] = p - data_addr(b)]
                    /\ objects' = objects \cup {[p |-> p, size |-> size, type |-> type, b |-> b]}
                    /\ UNCHANGED daFatal
       /\ UNCHANGED <<flagVars, queueVars, stepVars, dead, daBug>>

-----------------------------------------------------------------------------
\* FromRawPointer and CheckLocked: the error they report, or "no".
FromRawPointer(p) ==
  LET mb == p - data_offset
  IN IF daMem[mb + 1] = 0 THEN mb ELSE mb - daMem[mb + 1]

FromRawPointerError(p) ==
  LET mb == p - data_offset
      main == FromRawPointer(p)
  IN IF daMem[mb + 3] = MagicDeleted THEN "already deallocated"
     ELSE IF daMem[mb + 1] = 0 THEN "no"
     ELSE IF ~(main \in 0..DaSpace - data_offset) \/ daMem[mb + 1] < 0 THEN "corrupted offset"
     ELSE IF daMem[main + 1] # 0 \/ main >= p \/ size2_addr(main) < p THEN "corrupted offset"
     ELSE "no"

CheckLocked(b, type) ==
  IF data_addr(b) \notin DOMAIN alloc_map_ THEN "never allocated"
  ELSE IF alloc_map_[data_addr(b)].deallocated THEN "already deallocated"
  ELSE IF daMem[b + 3] = MagicDeleted \/ daMem[b + 2] \notin {MagicMMap, MagicMalloc}
  THEN "stomped before"
  ELSE IF ~IsMMapped(b) /\ (~(size2_addr(b) \in 0..DaSpace - 2) \/ size1_(b) # daMem[size2_addr(b)]
                              \/ daMem[size2_addr(b) + 1] \notin {MagicMMap, MagicMalloc})
  THEN "stomped after"
  ELSE IF daMem[b + 3] # type
  THEN IF daMem[b + 3] \in DaTypes THEN "mismatch" ELSE "stomped before"
  ELSE IF daMem[b + 3] # alloc_map_[data_addr(b)].type THEN "map corrupted"
  ELSE "no"

CheckPointer(p, type) ==
  IF FromRawPointerError(p) # "no" THEN FromRawPointerError(p)
  ELSE CheckLocked(FromRawPointer(p), type)

\* DebugDeallocate up to the unlock of alloc_map_lock_ in CheckAndClear.
DebugDeallocate(t) ==
  \E o \in objects, type \in DaTypes :
    LET error == CheckPointer(o.p, type)
        b == FromRawPointer(o.p)
    IN /\ DaCall(t)
       /\ (type # o.type => daBug = NoBug)
       /\ daBug' = IF type = o.type THEN daBug ELSE [kind |-> "mismatch", block |-> o.b]
       /\ objects' = objects \ {o} /\ dead' = dead \cup {o}
       /\ daFatal' = error
       /\ IF error # "no" THEN UNCHANGED <<alloc_map_, stepVars>>
          ELSE /\ alloc_map_' = Recorded(b, type, TRUE)
               /\ daPc' = [daPc EXCEPT ![t] = "clear"]
               /\ daArg' = [daArg EXCEPT ![t] = [block |-> b, size |-> real_size(b)]]
               /\ UNCHANGED entries
       /\ UNCHANGED <<flagVars, daMem, daBlocks, queueVars>>

\* realloc of an object to a size other than 0: a new block, the old contents from
\* the pointer to the end of the old block's data, then DebugDeallocate.  The old
\* object stays when there is no memory.
Realloc(t) ==
  \E o \in objects, size \in DaSizes \ {0} :
    LET error == CheckPointer(o.p, kMallocType)
        old == FromRawPointer(o.p)
        old_size == size2_addr(old) - o.p
        copied == Min({old_size, size})
    IN /\ DaCall(t) /\ o.type = kMallocType
       /\ IF error # "no" \/ NewBlock(size) = {}
          THEN /\ daFatal' = IF error # "no" THEN error
                             ELSE IF malloc_page_fence /\ size <= DaWord - 1 - sizeofMallocBlock
                             THEN "out of memory" ELSE "no"
               /\ UNCHANGED <<daMem, daBlocks, alloc_map_, objects, dead, stepVars>>
          ELSE \E n \in NewBlock(size) :
                 LET new == data_addr(n.b)
                     mem == Initialized(daMem, n.b, size, kMallocType)
                 IN /\ daBlocks' = daBlocks \cup {n.range}
                    /\ daMem' = [a \in DOMAIN mem |->
                                   IF a \in Words(new, copied) THEN mem[a - new + o.p] ELSE mem[a]]
                    /\ alloc_map_' = [a \in DOMAIN alloc_map_ \cup {new} |->
                                        [type |-> IF a = new THEN kMallocType ELSE alloc_map_[a].type,
                                         deallocated |-> a # new /\ (a = data_addr(old)
                                                                      \/ alloc_map_[a].deallocated)]]
                    /\ objects' = (objects \ {o}) \cup
                         {[p |-> new, size |-> size, type |-> kMallocType, b |-> n.b]}
                    /\ dead' = dead \cup {o}
                    /\ daFatal' = IF old_size < 0 THEN "realloc" ELSE "no"
                    /\ daPc' = [daPc EXCEPT ![t] = "clear"]
                    /\ daArg' = [daArg EXCEPT ![t] = [block |-> old, size |-> real_size(old)]]
                    /\ UNCHANGED entries
       /\ UNCHANGED <<flagVars, queueVars, daBug>>

\* The memset of CheckAndClear; a block of its own pages is then unmapped or,
\* when memory is not to be reused, left there inaccessible.
FenceStart(b, size) == b - (NumPages(size) - 1) * DaPage + size
Clear(t) ==
  LET b == daArg[t].block
      size == daArg[t].size
  IN /\ daFatal = "no" /\ daPc[t] = "clear"
     /\ daMem' = [a \in DOMAIN daMem |-> IF a \in Words(b, size) THEN MagicDeleted ELSE daMem[a]]
     /\ IF malloc_page_fence
        THEN /\ daBlocks' = IF malloc_reclaim_memory
                            THEN daBlocks \ {[start |-> FenceStart(b, size),
                                              size |-> NumPages(size) * DaPage]}
                            ELSE daBlocks
             /\ daPc' = [daPc EXCEPT ![t] = "idle"] /\ daArg' = [daArg EXCEPT ![t] = NoBlock]
        ELSE IF malloc_reclaim_memory
        THEN daPc' = [daPc EXCEPT ![t] = "push"] /\ UNCHANGED <<daBlocks, daArg>>
        ELSE /\ daPc' = [daPc EXCEPT ![t] = "idle"] /\ daArg' = [daArg EXCEPT ![t] = NoBlock]
             /\ UNCHANGED daBlocks
     /\ UNCHANGED <<flagVars, alloc_map_, queueVars, entries, objects, dead, daBug, daFatal, daOps>>

-----------------------------------------------------------------------------
\* The free queue, a circular buffer.
Full(front, back) == (front + 1) % kFreeQueueSize = back
QueueSize(front, back) == (front - back + kFreeQueueSize) % kFreeQueueSize

QueueEntries == [i \in 1..QueueSize(q_front_, q_back_) |-> q_[(q_back_ + i - 1) % kFreeQueueSize]]

Cost(entry) == entry.size + DaEntrySize

\* Pushes without leaving a place free afterwards.
PopsOfLoopLate(q, front, back, bytes, limit) ==
  LET list == [i \in 1..QueueSize(front, back) |-> q[(back + i - 1) % kFreeQueueSize]]
      Bytes(n) == bytes - FoldLeft(LAMBDA s, e : s + Cost(e), 0, SubSeq(list, 1, n))
      n == Min({k \in 0..Len(list) : k = DaEntries \/ Bytes(k) <= limit \/ k = Len(list)})
  IN [popped |-> SubSeq(list, 1, n), back |-> (back + n) % kFreeQueueSize, bytes |-> Bytes(n),
      more |-> n = DaEntries]

\* The pops of the loop under one hold of the lock: until the queue is small
\* enough and has a free place, or the array of entries is full.
PopsOfLoop(q, front, back, bytes, limit) ==
  LET list == [i \in 1..QueueSize(front, back) |-> q[(back + i - 1) % kFreeQueueSize]]
      Bytes(n) == bytes - FoldLeft(LAMBDA s, e : s + Cost(e), 0, SubSeq(list, 1, n))
      More(n) == Bytes(n) > limit \/ Full(front, (back + n) % kFreeQueueSize)
      n == Min({k \in 0..Len(list) : k = DaEntries \/ ~More(k) \/ k = Len(list)})
  IN [popped |-> SubSeq(list, 1, n), back |-> (back + n) % kFreeQueueSize, bytes |-> Bytes(n),
      more |-> n = DaEntries]

\* A hold of free_queue_lock_ by ProcessFreeQueue; limit 0 and no block is the
\* DanglingWriteChecker at exit.
ProcessFreeQueue(t, push, limit, next) ==
  LET q == IF push THEN [q_ EXCEPT ![q_front_] = daArg[t]] ELSE q_
      front == IF push THEN (q_front_ + 1) % kFreeQueueSize ELSE q_front_
      bytes == IF push THEN free_queue_size_ + Cost(daArg[t]) ELSE free_queue_size_
      r == PopsOfLoop(q, front, q_back_, bytes, limit)
  IN /\ daFatal' = IF push /\ Full(q_front_, q_back_) THEN "queue full" ELSE daFatal
     /\ q_' = q /\ q_front_' = front /\ q_back_' = r.back /\ free_queue_size_' = r.bytes
     /\ entries' = [entries EXCEPT ![t] = r.popped]
     /\ daPc' = [daPc EXCEPT ![t] = IF r.popped = << >> THEN "idle"
                                    ELSE IF r.more THEN next ELSE "last"]
     /\ daArg' = [daArg EXCEPT ![t] = NoBlock]
     /\ UNCHANGED <<flagVars, daMem, daBlocks, alloc_map_, objects, dead, daBug>>

Push(t) ==
  /\ daFatal = "no" /\ daPc[t] = "push"
  /\ ProcessFreeQueue(t, TRUE, max_free_queue_size, "again") /\ UNCHANGED daOps
PopMore(t) ==
  /\ daFatal = "no" /\ entries[t] = << >>
  /\ \/ daPc[t] = "again" /\ ProcessFreeQueue(t, FALSE, max_free_queue_size, "again")
     \/ daPc[t] = "exiting" /\ ProcessFreeQueue(t, FALSE, 0, "exiting")
  /\ UNCHANGED daOps
DanglingWriteChecker(t) == DaCall(t) /\ ProcessFreeQueue(t, FALSE, 0, "exiting")

\* CheckForDanglingWrites for the first entry popped, then do_free.
CheckForDanglingWrites(entry) ==
  \A a \in Words(entry.block, entry.size) : daMem[a] = MagicDeleted

GiveBack(t) ==
  /\ daFatal = "no" /\ entries[t] # << >>
  /\ LET e == Head(entries[t])
     IN IF CheckForDanglingWrites(e)
        THEN /\ daBlocks' = daBlocks \ {[start |-> e.block, size |-> e.size]}
             /\ entries' = [entries EXCEPT ![t] = Tail(@)]
             /\ daPc' = [daPc EXCEPT ![t] = IF Len(entries[t]) = 1 /\ @ = "last" THEN "idle" ELSE @]
             /\ UNCHANGED daFatal
        ELSE daFatal' = "dangling write" /\ UNCHANGED <<daBlocks, entries, daPc>>
  /\ UNCHANGED <<flagVars, daMem, alloc_map_, queueVars, daArg, objects, dead, daBug, daOps>>

-----------------------------------------------------------------------------
\* VerifyAllMemory and MallocMemoryStats: every object the map has as allocated.
CheckEverything(t) ==
  LET errors == {CheckPointer(a, alloc_map_[a].type) :
                   a \in {a \in DOMAIN alloc_map_ : ~alloc_map_[a].deallocated}}
  IN /\ DaCall(t)
     /\ \E e \in errors \cup {"no"} :
          /\ (e = "no" => errors \subseteq {"no"})
          /\ daFatal' = e
     /\ UNCHANGED <<flagVars, daMem, daBlocks, alloc_map_, queueVars, stepVars, objects, dead, daBug>>

\* GetAllocatedSize, for an object of the program.
GetAllocatedSize(p) == size1_(FromRawPointer(p))

\* The program uses its objects, or has one bug: it writes the word before or
\* after an object, writes to a freed object, or frees one again.
WriteInside(t) ==
  \E o \in objects : \E a \in Words(o.p, o.size) :
    /\ DaCall(t) /\ daMem' = [daMem EXCEPT ![a] = UserData]
    /\ UNCHANGED <<flagVars, daBlocks, alloc_map_, queueVars, stepVars, objects, dead, daBug, daFatal>>

\* The words that are checked: the real header's alloc_type_ and the trailer's size2_.
Checked(a, o) == a = o.b + 3 \/ (~malloc_page_fence /\ a = size2_addr(o.b))
GuardPage(a) ==
  malloc_page_fence /\ \E r \in daBlocks : a \in Words(r.start + r.size - DaPage, DaPage)

WriteOutside(t) ==
  \E o \in objects : \E a \in {o.p - 1, o.p + o.size} :
    /\ DaCall(t) /\ daBug = NoBug
    /\ daBug' = [kind |-> IF Checked(a, o) THEN "stomp" ELSE "unseen", block |-> o.b]
    /\ IF GuardPage(a) THEN daFatal' = "fault" /\ UNCHANGED daMem
       ELSE daMem' = [daMem EXCEPT ![a] = UserData] /\ UNCHANGED daFatal
    /\ UNCHANGED <<flagVars, daBlocks, alloc_map_, queueVars, stepVars, objects, dead>>

\* A freed block not yet given back: waiting in the queue, or popped and not yet
\* looked at.
Waiting(b) ==
  \/ \E i \in DOMAIN QueueEntries : QueueEntries[i].block = b
  \/ \E t \in DaThreads : \E i \in DOMAIN entries[t] : entries[t][i].block = b
  \/ \E t \in DaThreads : daPc[t] = "push" /\ daArg[t].block = b

WriteDangling(t) ==
  \E o \in dead : \E a \in Words(o.p, o.size) :
    /\ DaCall(t) /\ daBug = NoBug /\ ~malloc_page_fence /\ Waiting(o.b)
    /\ daBug' = [kind |-> "dangling", block |-> o.b]
    /\ daMem' = [daMem EXCEPT ![a] = UserData]
    /\ UNCHANGED <<flagVars, daBlocks, alloc_map_, queueVars, stepVars, objects, dead, daFatal>>

FreeAgain(t) ==
  \E o \in dead, type \in DaTypes :
    /\ DaCall(t) /\ daBug = NoBug /\ ~malloc_page_fence /\ Waiting(o.b)
    /\ daBug' = [kind |-> "double free", block |-> o.b]
    /\ daFatal' = CheckPointer(o.p, type)
    /\ UNCHANGED <<flagVars, daMem, daBlocks, alloc_map_, queueVars, stepVars, objects, dead>>

DaNext ==
  \E t \in DaThreads :
    \/ DebugAllocate(t) \/ DebugDeallocate(t) \/ Realloc(t) \/ Clear(t) 
    \/ Push(t) \/ PopMore(t) \/ GiveBack(t)
    \/ DanglingWriteChecker(t) \/ CheckEverything(t)
    \/ WriteInside(t) \/ WriteOutside(t) \/ WriteDangling(t) \/ FreeAgain(t)

DaSpec == DaInit /\ [][DaNext]_daVars

-----------------------------------------------------------------------------
\* No false alarm: a program without one of the bugs is never stopped, whatever
\* its threads allocate and free at the same time; the queue is never full when
\* a block is pushed.
NoFalseAlarm == daFatal \notin {"no", "out of memory"} => daBug # NoBug

\* A bug is found before the memory is used again: the block whose header or
\* trailer was overwritten, that was freed as something else, or that was
\* written to after it was freed never goes back to the allocator, and a second
\* free never succeeds.
BugsAreFound ==
  /\ daBug.kind \in {"stomp", "dangling", "mismatch"} =>
       \E r \in daBlocks : daBug.block \in Words(r.start, r.size)
  /\ daBug.kind \in {"double free", "mismatch"} => daFatal # "no"

\* The free queue's account of its bytes is that of its blocks, every freed block
\* is waiting or given back once, and the map has exactly the program's objects
\* as allocated.
FreeQueueAccounted ==
  /\ free_queue_size_ = FoldLeft(LAMBDA s, e : s + Cost(e), 0, QueueEntries)
  /\ daFatal = "no" =>
       {FromRawPointer(o.p) : o \in objects} =
         {a - data_offset : a \in {a \in DOMAIN alloc_map_ : ~alloc_map_[a].deallocated}}
  /\ malloc_page_fence /\ malloc_reclaim_memory /\ daFatal = "no" =>
       Cardinality(daBlocks) = Cardinality(objects)
                                 + Cardinality({t \in DaThreads : daPc[t] = "clear"})

=============================================================================
