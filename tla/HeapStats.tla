------------------------------ MODULE HeapStats ------------------------------
(***************************************************************************)
(* What tcmalloc tells about the heap through MallocExtension: the byte     *)
(* counts of ExtractStats, read class by class and tier by tier while        *)
(* other threads move objects; the sampled allocations that ReadStackTraces *)
(* folds into a StackTraceTable; the heap growth stacks, sized under one     *)
(* critical section and copied under another; and ReleaseToSystem, which    *)
(* remembers what it released too much.                                     *)
(***************************************************************************)
EXTENDS Integers, Sequences, SequencesExt, FiniteSets, FiniteSetsExt, Functions, TLC

CONSTANTS
    Classes, ByteSize,   \* size classes and their sizes
    SpanBytes,           \* bytes of a span of the central cache
    GrowBytes,           \* bytes by which the heap grows
    PageBytes,           \* kPageSize
    MaxSpanPages,        \* pages of the longest free span
    StatsWord,           \* counters are arithmetic modulo StatsWord
    Stacks, StackDepth,  \* stack traces and their depths
    SamplePeriods,       \* values PickNextSamplingPoint can give
    Slop,                \* slots DumpHeapGrowthStackTraces adds (100)
    ReleaseSizes,        \* arguments of ReleaseToSystem
    HsMaxOps             \* bound on the operations of the other threads

VARIABLES
    central, transfer, thread,   \* class -> free objects in the tier
    app,                         \* class -> objects of the program
    spans,                       \* class -> spans of the central cache
    pageheap,                    \* free, unmapped and system bytes
    sampled_objects,             \* sampled spans, newest first
    bytes_until_sample,
    growth_stacks,               \* stacks of heap growths, newest first
    extra_bytes_released,
    bucketsInUse,                \* of bucket_allocator
    rd,                          \* the thread that asks
    moved, ahead,                \* history: bytes moved during the read; released
    hsOps                        \* minus requested since the heap last ran short

hsVars == <<central, transfer, thread, app, spans, pageheap, sampled_objects,
            bytes_until_sample, growth_stacks, extra_bytes_released, bucketsInUse, rd,
            moved, ahead, hsOps>>
tierVars == <<central, transfer, thread, app, spans, pageheap>>

ASSUME HeapStatsAssumption ==
    /\ ByteSize \in [Classes -> Nat \ {0}] /\ StackDepth \in [Stacks -> Nat]
    /\ SpanBytes \in Nat \ {0} /\ PageBytes \in Nat \ {0} /\ SpanBytes % PageBytes = 0
    /\ \A cl \in Classes : ByteSize[cl] <= SpanBytes
    /\ SamplePeriods # {} /\ SamplePeriods \subseteq Nat \ {0}

IdleRead == [pc |-> "idle", todo |-> {}, central |-> 0, transfer |-> 0, value |-> 0,
             table |-> << >>, taken |-> << >>, out |-> << >>, slots |-> 0]

HsInit ==
    /\ central = [cl \in Classes |-> 0] /\ transfer = central /\ thread = central
    /\ app = central /\ spans = central
    /\ pageheap = [free |-> GrowBytes, unmapped |-> 0, system |-> GrowBytes]
    /\ sampled_objects = << >> /\ bytes_until_sample \in SamplePeriods
    /\ growth_stacks \in {<<s>> : s \in Stacks}
    /\ extra_bytes_released = 0 /\ bucketsInUse = 0
    /\ rd = IdleRead /\ moved = 0 /\ ahead = 0 /\ hsOps = 0

-----------------------------------------------------------------------------
(* The other threads                                                       *)

Operate(bytes) ==
    /\ hsOps < HsMaxOps /\ hsOps' = hsOps + 1
    /\ moved' = IF rd.pc = "idle" THEN 0 ELSE moved + bytes

HsRoundUp(bytes) == ((bytes + PageBytes - 1) \div PageBytes) * PageBytes

ObjectsPerSpan(cl) == SpanBytes \div ByteSize[cl]
Overhead(cl) == spans[cl] * (SpanBytes % ByteSize[cl])

Bump(f, cl, n) == [f EXCEPT ![cl] = @ + n]

(* A span goes to the central free list, or back when all of it is free.   *)
MoveSpan(cl) ==
    /\ Operate(SpanBytes)
    /\ \E d \in {1, -1} :
         /\ pageheap.free >= d * SpanBytes /\ spans[cl] + d >= 0
         /\ central[cl] + d * ObjectsPerSpan(cl) >= 0
         /\ spans' = Bump(spans, cl, d)
         /\ central' = Bump(central, cl, d * ObjectsPerSpan(cl))
         /\ pageheap' = [pageheap EXCEPT !.free = @ - d * SpanBytes]
    /\ UNCHANGED <<transfer, thread, app, sampled_objects, bytes_until_sample, growth_stacks,
                   extra_bytes_released, bucketsInUse, rd, ahead>>

(* Objects between a thread cache and the central or the transfer cache.   *)
MoveObject(cl) ==
    /\ Operate(ByteSize[cl])
    /\ \E d \in {1, -1} :
         /\ thread[cl] >= d /\ thread' = Bump(thread, cl, -d)
         /\ \/ central[cl] + d >= 0 /\ central' = Bump(central, cl, d) /\ UNCHANGED transfer
            \/ transfer[cl] + d >= 0 /\ transfer' = Bump(transfer, cl, d) /\ UNCHANGED central
    /\ UNCHANGED <<app, spans, pageheap, sampled_objects, bytes_until_sample, growth_stacks,
                   extra_bytes_released, bucketsInUse, rd, ahead>>

(* Sampler::SampleAllocation decides; DoSampledAllocation takes a span of  *)
(* its own and records the caller's stack.                                 *)
SampleAllocation(k) == bytes_until_sample < k

HsAllocate(cl) ==
    LET size == ByteSize[cl]
    IN  /\ Operate(HsRoundUp(size))
        /\ IF SampleAllocation(size)
           THEN /\ bytes_until_sample' \in SamplePeriods
                /\ pageheap.free >= HsRoundUp(size)
                /\ pageheap' = [pageheap EXCEPT !.free = @ - HsRoundUp(size)]
                /\ \E s \in Stacks :
                     sampled_objects' = <<[stack |-> s, size |-> size]>> \o sampled_objects
                /\ UNCHANGED <<thread, app>>
           ELSE /\ bytes_until_sample' = bytes_until_sample - size
                /\ thread[cl] > 0
                /\ thread' = Bump(thread, cl, -1) /\ app' = Bump(app, cl, 1)
                /\ UNCHANGED <<pageheap, sampled_objects>>
        /\ UNCHANGED <<central, transfer, spans, growth_stacks, extra_bytes_released,
                       bucketsInUse, rd, ahead>>

HsFree(cl) ==
    /\ Operate(ByteSize[cl]) /\ app[cl] > 0
    /\ app' = Bump(app, cl, -1) /\ thread' = Bump(thread, cl, 1)
    /\ UNCHANGED <<central, transfer, spans, pageheap, sampled_objects, bytes_until_sample,
                   growth_stacks, extra_bytes_released, bucketsInUse, rd, ahead>>

FreeSampled ==
    \E i \in DOMAIN sampled_objects :
      LET bytes == HsRoundUp(sampled_objects[i].size)
      IN  /\ Operate(bytes)
          /\ sampled_objects' = RemoveAt(sampled_objects, i)
          /\ pageheap' = [pageheap EXCEPT !.free = @ + bytes]
          /\ UNCHANGED <<central, transfer, thread, app, spans, bytes_until_sample,
                         growth_stacks, extra_bytes_released, bucketsInUse, rd, ahead>>

(* GrowHeap and RecordGrowth.                                              *)
GrowHeap ==
    /\ Operate(0)
    /\ pageheap' = [pageheap EXCEPT !.free = @ + GrowBytes, !.system = @ + GrowBytes]
    /\ \E s \in Stacks : growth_stacks' = <<s>> \o growth_stacks
    /\ UNCHANGED <<central, transfer, thread, app, spans, sampled_objects, bytes_until_sample,
                   extra_bytes_released, bucketsInUse, rd, ahead>>

(* ReleaseAtLeastNPages works span by span: it stops once it has released  *)
(* enough, or when no free span is left.                                   *)
ReleasableBytes(num_pages) ==
    LET need == num_pages * PageBytes
    IN  IF pageheap.free <= need THEN {pageheap.free}
        ELSE {b \in need .. Min({pageheap.free, need + (MaxSpanPages - 1) * PageBytes}) :
                b % PageBytes = 0}

StillToRelease(num_bytes) == num_bytes - extra_bytes_released

ReleaseToSystem(asked) ==
    /\ Operate(0)
    /\ IF asked <= extra_bytes_released
       THEN /\ extra_bytes_released' = extra_bytes_released - asked
            /\ ahead' = ahead - asked
            /\ UNCHANGED pageheap
       ELSE LET num_bytes == StillToRelease(asked)
            IN  \E b \in ReleasableBytes(Max({num_bytes \div PageBytes, 1})) :
                  /\ extra_bytes_released' = IF b > num_bytes THEN b - num_bytes ELSE 0
                  /\ ahead' = IF ahead + b > asked THEN ahead + b - asked ELSE 0
                  /\ pageheap' = [pageheap EXCEPT !.free = @ - b, !.unmapped = @ + b]
    /\ UNCHANGED <<central, transfer, thread, app, spans, sampled_objects, bytes_until_sample,
                   growth_stacks, bucketsInUse, rd>>

-----------------------------------------------------------------------------
(* GetNumericProperty("generic.current_allocated_bytes"): ExtractStats     *)

Reading == UNCHANGED <<tierVars, sampled_objects, bytes_until_sample, growth_stacks,
                       extra_bytes_released, ahead, hsOps>>

StartStats ==
    /\ rd.pc = "idle"
    /\ rd' = [IdleRead EXCEPT !.pc = "length", !.todo = Classes]
    /\ moved' = 0 /\ UNCHANGED bucketsInUse /\ Reading

(* length() of a class and its overhead, then tc_length().                 *)
ReadLength ==
    /\ rd.pc = "length" /\ rd.todo # {}
    /\ LET cl == Min(rd.todo)
       IN  rd' = [rd EXCEPT !.pc = "tc_length",
                            !.central = @ + ByteSize[cl] * central[cl] + Overhead(cl)]
    /\ UNCHANGED <<moved, bucketsInUse>> /\ Reading

ReadTcLength ==
    /\ rd.pc = "tc_length"
    /\ LET cl == Min(rd.todo)
       IN  rd' = [rd EXCEPT !.pc = "length", !.todo = @ \ {cl},
                            !.transfer = @ + ByteSize[cl] * transfer[cl]]
    /\ UNCHANGED <<moved, bucketsInUse>> /\ Reading

ThreadBytes == MapThenSumSet(LAMBDA cl : ByteSize[cl] * thread[cl], Classes)

AllocatedNoTransfer(r) ==
    (pageheap.system - ThreadBytes - r.central - pageheap.free - pageheap.unmapped) % StatsWord

Allocated(r) ==
    (pageheap.system - ThreadBytes - r.central - r.transfer - pageheap.free
       - pageheap.unmapped) % StatsWord

ReadPageHeap ==
    /\ rd.pc = "length" /\ rd.todo = {}
    /\ rd' = [IdleRead EXCEPT !.pc = "stats", !.value = Allocated(rd)]
    /\ UNCHANGED <<moved, bucketsInUse>> /\ Reading

-----------------------------------------------------------------------------
(* ReadStackTraces                                                         *)

AddTrace(table, t) ==
    IF t.stack \in DOMAIN table
    THEN [table EXCEPT ![t.stack] = [count |-> @.count + 1, size |-> @.size + t.size]]
    ELSE (t.stack :> [count |-> 1, size |-> t.size]) @@ table

StartTraces ==
    /\ rd.pc = "idle"
    /\ LET table == FoldLeft(AddTrace, << >>, sampled_objects)
       IN  /\ rd' = [IdleRead EXCEPT !.pc = "table", !.table = table, !.taken = sampled_objects]
           /\ bucketsInUse' = bucketsInUse + Cardinality(DOMAIN table)
    /\ moved' = 0 /\ Reading

(* The array of count, size, depth and frames of each bucket, then a NULL. *)
Entry(stack, b) == <<b.count, b.size, StackDepth[stack]>> \o [i \in 1 .. StackDepth[stack] |-> stack]

ReadStackTracesAndClear ==
    /\ rd.pc = "table"
    /\ rd' = [rd EXCEPT !.pc = "traces", !.table = << >>,
                !.slots = 1 + MapThenSumSet(LAMBDA s : 3 + StackDepth[s], DOMAIN rd.table),
                !.out = FlattenSeq([i \in 1 .. Cardinality(DOMAIN rd.table) |->
                            LET s == SetToSeq(DOMAIN rd.table)[i] IN Entry(s, rd.table[s])])
                        \o <<0>>]
    /\ bucketsInUse' = bucketsInUse - Cardinality(DOMAIN rd.table)
    /\ UNCHANGED moved /\ Reading

-----------------------------------------------------------------------------
(* DumpHeapGrowthStackTraces                                               *)

SlotsFor(stacks) == FoldLeft(LAMBDA n, s : n + 3 + StackDepth[s], 0, stacks)

StartGrowth ==
    /\ rd.pc = "idle"
    /\ LET n == SlotsFor(growth_stacks) + Slop
       IN  rd' = [IdleRead EXCEPT !.pc = "fill", !.slots = n + n \div 8]
    /\ moved' = 0 /\ UNCHANGED bucketsInUse /\ Reading

(* The longest prefix of the list that leaves room for the terminator.     *)
Fits(n, slots) == SlotsFor(SubSeq(growth_stacks, 1, n)) < slots

Copied(slots) == Max({n \in 0 .. Len(growth_stacks) : \A m \in 1 .. n : Fits(m, slots)})

FillGrowth ==
    /\ rd.pc = "fill"
    /\ rd' = [rd EXCEPT !.pc = "growth", !.taken = growth_stacks,
                !.out = FlattenSeq([i \in 1 .. Copied(rd.slots) |->
                            Entry(growth_stacks[i], [count |-> 1, size |-> GrowBytes])]) \o <<0>>]
    /\ UNCHANGED <<moved, bucketsInUse>> /\ Reading

Done ==
    /\ rd.pc \in {"stats", "traces", "growth"}
    /\ rd' = IdleRead /\ moved' = 0
    /\ UNCHANGED bucketsInUse /\ Reading

HsNext ==
    \/ \E cl \in Classes : MoveSpan(cl) \/ MoveObject(cl) \/ HsAllocate(cl) \/ HsFree(cl)
    \/ FreeSampled \/ GrowHeap \/ \E n \in ReleaseSizes : ReleaseToSystem(n)
    \/ StartStats \/ ReadLength \/ ReadTcLength \/ ReadPageHeap
    \/ StartTraces \/ ReadStackTracesAndClear
    \/ StartGrowth \/ FillGrowth \/ Done

HsSpec == HsInit /\ [][HsNext]_hsVars

-----------------------------------------------------------------------------
AppBytes == MapThenSumSet(LAMBDA cl : ByteSize[cl] * app[cl], Classes)
            + FoldLeft(LAMBDA n, o : n + HsRoundUp(o.size), 0, sampled_objects)

(* current_allocated_bytes is read tier by tier, without stopping the      *)
(* other threads.  Its error is never more than the bytes they moved       *)
(* during the read, so it is exact when they were quiet; and all memory of *)
(* the heap is in some tier.                                               *)
StatsWithinMoved ==
    /\ rd.pc = "stats" => \E e \in -moved .. moved : rd.value = (AppBytes + e) % StatsWord
    /\ pageheap.system = pageheap.free + pageheap.unmapped + AppBytes + ThreadBytes
         + MapThenSumSet(LAMBDA cl : ByteSize[cl] * (central[cl] + transfer[cl]) + Overhead(cl),
                         Classes)

(* The entries of a set of sampled objects, by definition.                 *)
SlotsOfTable(objects) ==
    LET seen == {objects[i].stack : i \in DOMAIN objects}
        of(s) == SelectSeq(objects, LAMBDA o : o.stack = s)
    IN  {<<Len(of(s)), FoldLeft(LAMBDA n, o : n + o.size, 0, of(s)), StackDepth[s]>>
            \o [i \in 1 .. StackDepth[s] |-> s] : s \in seen}

(* GetHeapSample and GetHeapGrowthStacks walk the array entry by entry up  *)
(* to a count of 0.  The array is filled to the slots that were allocated  *)
(* and never beyond, whatever was sampled, freed or grown between the two  *)
(* critical sections; the traces carry exactly the count and the bytes of  *)
(* the objects sampled per stack at the first one, the growth stacks are   *)
(* the newest ones; and the buckets all go back to bucket_allocator.       *)
TracesFitAndExact ==
    /\ rd.pc \in {"traces", "growth"} => Len(rd.out) <= rd.slots /\ Last(rd.out) = 0
    /\ rd.pc = "traces" =>
         /\ Len(rd.out) = rd.slots
         /\ \E order \in SetToSeqs(SlotsOfTable(rd.taken)) : rd.out = FlattenSeq(order) \o <<0>>
    /\ rd.pc = "growth" =>
         \E n \in 0 .. Len(rd.taken) :
           Front(rd.out) = FlattenSeq([i \in 1 .. n |->
                              Entry(rd.taken[i], [count |-> 1, size |-> GrowBytes])])
    /\ rd.pc # "table" => bucketsInUse = 0

(* ReleaseToSystem keeps the rate the program asks for: since the heap     *)
(* last ran short, what was released exceeds what was asked for by exactly *)
(* what is remembered, which is less than one span and one page.           *)
ReleaseRateKept ==
    /\ extra_bytes_released = ahead
    /\ extra_bytes_released < (MaxSpanPages + 1) * PageBytes

=============================================================================
