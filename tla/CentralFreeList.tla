--------------------------- MODULE CentralFreeList ---------------------------
(***************************************************************************)
(* The central free lists (central_freelist.cc): per size class, the spans *)
(* cut into objects and the transfer cache of whole batches, each behind   *)
(* its own lock.  Threads call InsertRange and RemoveRange.  A lock is     *)
(* dropped in the middle of a call while the page heap is used (Populate,  *)
(* ReleaseToSpans) and while another class is shrunk (LockInverter), so    *)
(* other threads change the same lists meanwhile.                          *)
(*                                                                         *)
(* One step is what a thread does between taking and releasing a lock, or  *)
(* one object of ReleaseListToSpans.  A step of the page heap is atomic.   *)
(***************************************************************************)
EXTENDS Integers, FiniteSets, Sequences

CONSTANTS
  Thread,
  Class,
  Spans,            \* the spans the page heap can hand out
  NObjects,         \* objects in a span
  Batch,            \* num_objects_to_move of every class
  CacheSize,        \* [Class -> initial cache_size_]
  MaxCacheSize,     \* [Class -> max_cache_size_]
  kMaxNumTransferEntries,   \* length of the array tc_slots_
  None

ASSUME CentralAssumption ==
  /\ IsFiniteSet(Thread) /\ IsFiniteSet(Class) /\ IsFiniteSet(Spans)
  /\ {NObjects, Batch} \subseteq Nat \ {0} /\ kMaxNumTransferEntries \in Nat
  /\ MaxCacheSize \in [Class -> 0 .. kMaxNumTransferEntries]
  /\ CacheSize \in [Class -> Nat]
  /\ \A c \in Class : CacheSize[c] <= MaxCacheSize[c]
  /\ None \notin Thread \cup Class \cup Spans

VARIABLES
  lock,             \* [Class -> Thread or None]
  cache_size,
  tc_slots,         \* [Class -> sequence of chains]
  empty,            \* [Class -> spans without free objects]
  nonempty,         \* [Class -> spans with free objects]
  counter,          \* [Class -> free objects in the spans]
  sizeclass,        \* [Spans -> Class or None]
  objects,          \* [Spans -> free objects]
  refcount,         \* [Spans -> objects out of the span]
  out,              \* objects in the hands of thread caches and the program
  th                \* [Thread -> the call in progress]

classVars == <<cache_size, tc_slots>>
spanVars == <<empty, nonempty, counter, objects, refcount>>
centralVars == <<lock, cache_size, tc_slots, empty, nonempty, counter, sizeclass,
          objects, refcount, out, th>>

Object == Spans \X (1 .. NObjects)
MapObjectToSpan(o) == o[1]
ObjectsOf(s) == {s} \X (1 .. NObjects)
UsedSlots(c) == Len(tc_slots[c])

\* tc_slots_[--used_slots_] and what stays in use below it.
TopSlot(slots) == slots[Len(slots)]
SlotsBelow(slots) == SubSeq(slots, 1, Len(slots) - 1)

\* A call: where it is, its class c, the chain it inserts, the class v whose
\* spans it works on, the list still to be released to the spans of v, whether
\* the eviction is forced and whether it succeeded, the number n of objects
\* to remove, and a span sp it took from, or gives back to, the page heap.
IdleCall == [pc |-> "idle", c |-> None, chain |-> {}, v |-> None, list |-> {},
             force |-> FALSE, ok |-> FALSE, n |-> 0, sp |-> None]

CentralInit ==
  /\ lock = [c \in Class |-> None]
  /\ cache_size = CacheSize
  /\ tc_slots = [c \in Class |-> <<>>]
  /\ empty = [c \in Class |-> {}]
  /\ nonempty = [c \in Class |-> {}]
  /\ counter = [c \in Class |-> 0]
  /\ sizeclass = [s \in Spans |-> None]
  /\ objects = [s \in Spans |-> {}]
  /\ refcount = [s \in Spans |-> 0]
  /\ out = {}
  /\ th = [t \in Thread |-> IdleCall]

At(t, pc) == th[t].pc = pc
CanLock(c) == lock[c] = None
Call(t, r) == th' = [th EXCEPT ![t] = r]

\* The call goes on with the lock of class k in hand.
Holding(t, k, r) == lock' = [lock EXCEPT ![k] = t] /\ Call(t, r)

\* ReleaseListToSpans(chain) at the end of InsertRange.
ReleaseChain(r) ==
  [r EXCEPT !.pc = "freeing", !.v = r.c, !.list = r.chain, !.chain = {}]

\* InsertRange puts the chain in the next slot and returns.
PutInSlot(t) ==
  /\ tc_slots' = [tc_slots EXCEPT ![th[t].c] = Append(@, th[t].chain)]
  /\ Call(t, IdleCall)

-----------------------------------------------------------------------------
(* InsertRange.                                                            *)

InsertRange(t, c, S) ==
  /\ At(t, "idle")
  /\ S \subseteq out /\ S # {} /\ Cardinality(S) <= Batch
  /\ \A o \in S : sizeclass[MapObjectToSpan(o)] = c
  /\ out' = out \ S
  /\ Call(t, [IdleCall EXCEPT !.pc = "insert", !.c = c, !.chain = S])
  /\ UNCHANGED <<lock, classVars, spanVars, sizeclass>>

\* The lock is taken: MakeCacheSpace, up to its calls of EvictRandomSizeClass.
InsertLocked(t) ==
  LET r == th[t]
      full == Cardinality(r.chain) = Batch
  IN  /\ At(t, "insert") /\ CanLock(r.c)
      /\ \/ /\ full /\ UsedSlots(r.c) < cache_size[r.c]
            /\ PutInSlot(t)
            /\ UNCHANGED <<lock, cache_size>>
         \/ /\ full /\ UsedSlots(r.c) >= cache_size[r.c]
            /\ cache_size[r.c] # MaxCacheSize[r.c]
            /\ Holding(t, r.c, [r EXCEPT !.pc = "evict"])
            /\ UNCHANGED classVars
         \/ /\ \/ ~ full
               \/ /\ UsedSlots(r.c) >= cache_size[r.c]
                  /\ cache_size[r.c] = MaxCacheSize[r.c]
            /\ Holding(t, r.c, ReleaseChain(r))
            /\ UNCHANGED classVars
      /\ UNCHANGED <<spanVars, sizeclass, out>>

\* Mutant: the second, forced, attempt is repeated until it succeeds.
FailedForever(r) == [r EXCEPT !.pc = "evict", !.force = TRUE]

\* What MakeCacheSpace does when EvictRandomSizeClass has returned FALSE.
Failed(r) ==
  IF r.force THEN ReleaseChain(r) ELSE [r EXCEPT !.pc = "evict", !.force = TRUE]

\* EvictRandomSizeClass and the checks that ShrinkCache makes without a lock.
\* race_counter is updated without a lock: any class may come out.
EvictRandomSizeClass(t) ==
  LET r == th[t]
  IN  /\ At(t, "evict")
      /\ \E v \in Class :
           IF \/ v = r.c
              \/ cache_size[v] = 0
              \/ ~ r.force /\ UsedSlots(v) = cache_size[v]
           THEN Call(t, Failed(r)) /\ UNCHANGED lock
           ELSE /\ lock' = [lock EXCEPT ![r.c] = None]
                /\ Call(t, [r EXCEPT !.pc = "shrink", !.v = v])
      /\ UNCHANGED <<classVars, spanVars, sizeclass, out>>

\* ShrinkCache with the lock of the victim, taken by the LockInverter.
ShrinkCache(t) ==
  LET r == th[t]
      full == UsedSlots(r.v) = cache_size[r.v]
      Return(ok) == Call(t, [r EXCEPT !.pc = "reinsert", !.ok = ok]) /\ UNCHANGED lock
  IN  /\ At(t, "shrink") /\ CanLock(r.v)
      /\ \/ /\ cache_size[r.v] = 0 \/ (full /\ ~ r.force)
            /\ Return(FALSE)
            /\ UNCHANGED classVars
         \/ /\ cache_size[r.v] # 0 /\ full /\ r.force
            /\ cache_size' = [cache_size EXCEPT ![r.v] = @ - 1]
            /\ tc_slots' = [tc_slots EXCEPT ![r.v] = SlotsBelow(@)]
            /\ Holding(t, r.v, [r EXCEPT !.pc = "freeing",
                                         !.list = TopSlot(tc_slots[r.v])])
         \/ /\ cache_size[r.v] # 0 /\ ~ full
            /\ cache_size' = [cache_size EXCEPT ![r.v] = @ - 1]
            /\ Return(TRUE)
            /\ UNCHANGED tc_slots
      /\ UNCHANGED <<spanVars, sizeclass, out>>

\* Mutant: the class grows although no other class gave up an entry.
ReinsertAnyway(t) ==
  LET r == th[t]
      room == cache_size[r.c] < MaxCacheSize[r.c]
  IN  /\ At(t, "reinsert") /\ CanLock(r.c)
      /\ \/ /\ room
            /\ cache_size' = [cache_size EXCEPT ![r.c] = @ + 1]
            /\ PutInSlot(t)
            /\ UNCHANGED lock
         \/ /\ ~ room
            /\ Holding(t, r.c, ReleaseChain(r))
            /\ UNCHANGED classVars
      /\ UNCHANGED <<spanVars, sizeclass, out>>

\* MakeCacheSpace has its own lock back.
Reinsert(t) ==
  LET r == th[t]
      room == cache_size[r.c] < MaxCacheSize[r.c]
  IN  /\ At(t, "reinsert") /\ CanLock(r.c)
      /\ \/ /\ r.ok /\ room
            /\ cache_size' = [cache_size EXCEPT ![r.c] = @ + 1]
            /\ PutInSlot(t)
            /\ UNCHANGED lock
         \/ /\ ~ (r.ok /\ room)
            /\ Holding(t, r.c, IF r.ok THEN ReleaseChain(r) ELSE Failed(r))
            /\ UNCHANGED classVars
      /\ UNCHANGED <<spanVars, sizeclass, out>>

-----------------------------------------------------------------------------
(* ReleaseListToSpans.                                                     *)

\* ReleaseToSpans of one object.  The last one of a span is not put back: the
\* span leaves the lists and the lock is dropped to delete it.
ReleaseToSpans(t) ==
  LET r == th[t]
  IN  /\ At(t, "freeing")
      /\ \E o \in r.list :
           LET s == MapObjectToSpan(o)
               idle == refcount[s] = 1
           IN  /\ refcount' = [refcount EXCEPT ![s] = @ - 1]
               /\ counter' = [counter EXCEPT ![r.v] = @ + 1 - (IF idle THEN NObjects ELSE 0)]
               /\ empty' = [empty EXCEPT ![r.v] = @ \ {s}]
               /\ nonempty' = [nonempty EXCEPT ![r.v] = IF idle THEN @ \ {s} ELSE @ \cup {s}]
               /\ objects' = [objects EXCEPT ![s] = IF idle THEN @ ELSE @ \cup {o}]
               /\ lock' = [lock EXCEPT ![r.v] = IF idle THEN None ELSE @]
               /\ Call(t, [r EXCEPT !.list = @ \ {o},
                                    !.pc = IF idle THEN "delete" ELSE @,
                                    !.sp = IF idle THEN s ELSE None])
      /\ UNCHANGED <<classVars, sizeclass, out>>

\* The page heap takes the span back.
DeleteSpan(t) ==
  LET s == th[t].sp
  IN  /\ At(t, "delete")
      /\ sizeclass' = [sizeclass EXCEPT ![s] = None]
      /\ objects' = [objects EXCEPT ![s] = {}]
      /\ Call(t, [th[t] EXCEPT !.pc = "relock", !.sp = None])
      /\ UNCHANGED <<lock, classVars, empty, nonempty, counter, refcount, out>>

Relock(t) ==
  /\ At(t, "relock") /\ CanLock(th[t].v)
  /\ Holding(t, th[t].v, [th[t] EXCEPT !.pc = "freeing"])
  /\ UNCHANGED <<classVars, spanVars, sizeclass, out>>

\* The list is released.  A call that still has its chain was shrinking
\* another class for it.
ReleaseDone(t) ==
  LET r == th[t]
  IN  /\ At(t, "freeing") /\ r.list = {}
      /\ lock' = [lock EXCEPT ![r.v] = None]
      /\ Call(t, IF r.chain = {} THEN IdleCall
                 ELSE [r EXCEPT !.pc = "reinsert", !.ok = TRUE])
      /\ UNCHANGED <<classVars, spanVars, sizeclass, out>>

-----------------------------------------------------------------------------
(* RemoveRange.                                                            *)

RemoveRange(t, c, n) ==
  /\ At(t, "idle")
  /\ Call(t, [IdleCall EXCEPT !.pc = "remove", !.c = c, !.n = n])
  /\ UNCHANGED <<lock, classVars, spanVars, sizeclass, out>>

\* The sets that repeated FetchFromOneSpans may take for n objects from the
\* free objects ob of the spans ne: a span is emptied before the next is used.
Fetches(ne, ob, n) ==
  LET all == UNION {ob[s] : s \in ne}
      k == IF n < Cardinality(all) THEN n ELSE Cardinality(all)
  IN  {R \in SUBSET all :
         /\ Cardinality(R) = k
         /\ \A s, u \in {MapObjectToSpan(o) : o \in R} :
              s = u \/ ob[s] \subseteq R \/ ob[u] \subseteq R}

\* Takes R from the spans ne of class c, whose free objects are ob.
Fetch(t, c, ne, ob, R) ==
  LET left == [s \in Spans |-> ob[s] \ R]
  IN  /\ objects' = left
      /\ nonempty' = [nonempty EXCEPT ![c] = {s \in ne : left[s] # {}}]
      /\ empty' = [empty EXCEPT ![c] = @ \cup {s \in ne : left[s] = {}}]
      /\ refcount' = [s \in Spans |-> refcount[s] + Cardinality(ob[s] \cap R)]
      /\ out' = out \cup R
      /\ Call(t, IdleCall)

\* The lock is taken: a batch from the transfer cache, or objects from the
\* spans, or the lock is dropped for Populate.
RemoveLocked(t) ==
  LET r == th[t]
      cached == r.n = Batch /\ UsedSlots(r.c) > 0
  IN  /\ At(t, "remove") /\ CanLock(r.c)
      /\ \/ /\ cached
            /\ out' = out \cup TopSlot(tc_slots[r.c])
            /\ tc_slots' = [tc_slots EXCEPT ![r.c] = SlotsBelow(@)]
            /\ Call(t, IdleCall)
            /\ UNCHANGED spanVars
         \/ /\ ~ cached /\ nonempty[r.c] # {}
            /\ \E R \in Fetches(nonempty[r.c], objects, r.n) :
                 /\ Fetch(t, r.c, nonempty[r.c], objects, R)
                 /\ counter' = [counter EXCEPT ![r.c] = @ - Cardinality(R)]
            /\ UNCHANGED tc_slots
         \/ /\ ~ cached /\ nonempty[r.c] = {}
            /\ Call(t, [r EXCEPT !.pc = "populate"])
            /\ UNCHANGED <<spanVars, tc_slots, out>>
      /\ UNCHANGED <<lock, cache_size, sizeclass>>

\* Populate without the lock: a span of the page heap, cut into objects.
Populate(t) ==
  /\ At(t, "populate")
  /\ \E s \in {u \in Spans : sizeclass[u] = None} :
       /\ sizeclass' = [sizeclass EXCEPT ![s] = th[t].c]
       /\ objects' = [objects EXCEPT ![s] = ObjectsOf(s)]
       /\ refcount' = [refcount EXCEPT ![s] = 0]
       /\ Call(t, [th[t] EXCEPT !.pc = "populated", !.sp = s])
  /\ UNCHANGED <<lock, classVars, empty, nonempty, counter, out>>

PopulateFails(t) ==
  /\ At(t, "populate")
  /\ Call(t, [th[t] EXCEPT !.pc = "populated"])
  /\ UNCHANGED <<lock, classVars, spanVars, sizeclass, out>>

\* The objects that Populate adds to the count with its span, if it got one.
NewObjects(s) == IF s = None THEN 0 ELSE NObjects

\* Mutant: the list is searched before the new span is on it.
PopulatedLate(t) ==
  LET r == th[t]
      ne == nonempty[r.c] \cup ({r.sp} \ {None})
  IN  /\ At(t, "populated") /\ CanLock(r.c)
      /\ \E R \in Fetches(nonempty[r.c], objects, r.n) :
           /\ Fetch(t, r.c, ne, objects, R)
           /\ counter' = [counter EXCEPT ![r.c] = @ - Cardinality(R)
                            + NewObjects(r.sp)]
      /\ UNCHANGED <<lock, classVars, sizeclass>>

\* Populate has the lock again and adds its span, if it got one; RemoveRange
\* goes on with what the list now holds.
Populated(t) ==
  LET r == th[t]
      ne == nonempty[r.c] \cup ({r.sp} \ {None})
  IN  /\ At(t, "populated") /\ CanLock(r.c)
      /\ \E R \in Fetches(ne, objects, r.n) :
           /\ Fetch(t, r.c, ne, objects, R)
           /\ counter' = [counter EXCEPT ![r.c] = @ - Cardinality(R)
                            + NewObjects(r.sp)]
      /\ UNCHANGED <<lock, classVars, sizeclass>>

-----------------------------------------------------------------------------
Step(t) ==
  \/ InsertLocked(t)
  \/ EvictRandomSizeClass(t)
  \/ ShrinkCache(t)
  \/ Reinsert(t)
  \/ ReleaseToSpans(t)
  \/ DeleteSpan(t)
  \/ Relock(t)
  \/ ReleaseDone(t)
  \/ RemoveLocked(t)
  \/ Populate(t)
  \/ PopulateFails(t)
  \/ Populated(t)

CentralNext ==
  \E t \in Thread :
    \/ Step(t)
    \/ \E c \in Class, S \in SUBSET out : InsertRange(t, c, S)
    \/ \E c \in Class, n \in 1 .. Batch : RemoveRange(t, c, n)

\* Fairness: some thread inside a call goes on.  Which one gets a lock is left
\* open: the spin lock is not fair.
CentralFair == WF_centralVars(\E t \in Thread : Step(t))

CentralSpec == CentralInit /\ [][CentralNext]_centralVars /\ CentralFair

-----------------------------------------------------------------------------
(* Properties.                                                             *)

\* Type invariant.
CentralTypeOK ==
  /\ lock \in [Class -> Thread \cup {None}]
  /\ cache_size \in [Class -> Nat]
  /\ tc_slots \in [Class -> Seq(SUBSET Object)]
  /\ empty \in [Class -> SUBSET Spans] /\ nonempty \in [Class -> SUBSET Spans]
  /\ counter \in [Class -> Nat]
  /\ sizeclass \in [Spans -> Class \cup {None}]
  /\ objects \in [Spans -> SUBSET Object]
  /\ refcount \in [Spans -> 0 .. NObjects]
  /\ out \subseteq Object

\* Where an object can be that is not in its span: in the hands of a call, in a
\* slot of a transfer cache, or with a thread cache or the program.
InCall(o, t) == o \in th[t].chain \cup th[t].list
InSlot(o, c, i) == i \in 1 .. UsedSlots(c) /\ o \in tc_slots[c][i]
Away(o) ==
  \/ o \in out
  \/ \E t \in Thread : InCall(o, t)
  \/ \E c \in Class : \E i \in 1 .. UsedSlots(c) : InSlot(o, c, i)
AwayFrom(s) == {o \in ObjectsOf(s) : Away(o)}

\* An object is in one place: in one call and there in one list, in one slot of
\* one class, in the span, or out.
OnePlace(o) ==
  /\ \A t \in Thread : InCall(o, t) =>
       /\ o \notin out /\ o \notin th[t].chain \cap th[t].list
       /\ \A u \in Thread : InCall(o, u) => t = u
  /\ \A c \in Class : \A i \in 1 .. UsedSlots(c) : InSlot(o, c, i) =>
       /\ o \notin out /\ \A t \in Thread : ~ InCall(o, t)
       /\ \A d \in Class : \A j \in 1 .. UsedSlots(d) :
            InSlot(o, d, j) => c = d /\ i = j
  /\ Away(o) => o \notin objects[MapObjectToSpan(o)]

\* No object is lost or in two places, whatever happens while a lock is
\* dropped: what refcount says is out of a span is in one transfer slot, in
\* one call or in one caller's hands, and a span that went back to the page
\* heap has no object anywhere.
ObjectsOnce ==
  /\ \A o \in Object : OnePlace(o)
  /\ \A s \in Spans :
       /\ refcount[s] = Cardinality(AwayFrom(s))
       /\ sizeclass[s] = None => AwayFrom(s) = {}
       /\ sizeclass[s] # None /\ refcount[s] > 0
            => AwayFrom(s) \cup objects[s] = ObjectsOf(s)

\* The free objects that the lists of class c can give.
FreeObjects(c) ==
  {o \in Object : MapObjectToSpan(o) \in nonempty[c] /\ o \in objects[MapObjectToSpan(o)]}

\* Lists and counter agree with the spans: FetchFromOneSpans relies on a span
\* of the nonempty list having an object (its ASSERT), length() reports counter.
ListsExact ==
  \A c \in Class :
    /\ \A s \in nonempty[c] : objects[s] # {} /\ sizeclass[s] = c
    /\ \A s \in empty[c] : objects[s] = {} /\ sizeclass[s] = c /\ refcount[s] > 0
    /\ counter[c] = Cardinality(FreeObjects(c))

\* The ASSERTs of Init, ShrinkCache and InsertRange: the slots in use fit the
\* cache, and the cache its maximum and so the array tc_slots_, although its
\* size is changed by threads working for other classes.
CacheFits ==
  \A c \in Class : UsedSlots(c) <= cache_size[c] /\ cache_size[c] <= MaxCacheSize[c]

\* The cache entries of all classes, one by one, and the threads that have
\* taken one from a victim and not yet added it to their class.
Entries(f) == {e \in Class \X (1 .. kMaxNumTransferEntries) : e[2] <= f[e[1]]}
Stolen(t) == \/ th[t].pc = "reinsert" /\ th[t].ok
             \/ th[t].pc \in {"freeing", "delete", "relock"} /\ th[t].chain # {}

\* An entry gained by one class was given up by another: with the stolen ones,
\* there are never more than at the start.
EntriesConserved ==
  Cardinality(Entries(cache_size)) + Cardinality({t \in Thread : Stolen(t)})
    <= Cardinality(Entries(CacheSize))

\* "We use the lock inverter to ensure that we never hold two size class locks
\* concurrently."
OneSizeClassLock ==
  \A t \in Thread :
    /\ \A c, d \in Class : lock[c] = t /\ lock[d] = t => c = d
    /\ At(t, "shrink") => \A c \in Class : lock[c] # t

\* FetchFromOneSpansSafe "only returns NULL on allocation failure": RemoveRange
\* comes back without objects only if Populate got no span.
EmptyHandedOnlyOnFailure ==
  [][\A t \in Thread :
       th[t].n > 0 /\ At(t, "idle")' /\ out' = out
         => At(t, "populated") /\ th[t].sp = None]_centralVars

\* Whatever locks the threads wait for, some thread finishes its call.
SomeCallReturns == []<>(\E t \in Thread : At(t, "idle"))

\* The central free lists as a whole: every object is in one place, the lists
\* and counters of a class are exact, the transfer caches fit their entries and
\* the entries moved between classes add up, although ShrinkCache and
\* MakeCacheSpace let go of one lock to take another.
CentralSafe ==
  CentralTypeOK /\ ObjectsOnce /\ ListsExact /\ CacheFits /\ EntriesConserved /\ OneSizeClassLock

=============================================================================
