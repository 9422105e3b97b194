-------------------------- MODULE ThreadCacheBudget --------------------------
(***************************************************************************)
(* The thread caches as a whole (thread_cache.cc): creation and deletion   *)
(* with the thread, the list of all caches, and the budget of cache space  *)
(* that they claim from a common pool and steal from each other.           *)
(*                                                                         *)
(* A cache is known by its thread: CreateCacheIfNecessary looks for the    *)
(* thread's id in the list before it makes a new one.  What runs under     *)
(* pageheap_lock is one step, except in do_memalign, which holds it while  *)
(* it asks for its cache; the writes of the thread-local pointers are      *)
(* steps of their own.                                                     *)
(***************************************************************************)
EXTENDS Integers, Sequences, FiniteSets, SequencesExt, FiniteSetsExt

CONSTANTS
  Thread,
  None,
  kMinThreadCacheSize,
  kMaxThreadCacheSize,
  kStealAmount,
  kMaxOverall,          \* the 1 GB limit on the overall size
  kDefaultOverall,      \* kDefaultOverallThreadCacheSize
  kTries,               \* heaps IncreaseCacheLimitLocked looks at
  Overalls,             \* sizes given to set_overall_thread_cache_size
  MemalignFirst         \* whether memalign may be a thread's first call

ASSUME BudgetAssumption ==
  /\ None \notin Thread
  /\ {kMinThreadCacheSize, kMaxThreadCacheSize, kStealAmount, kMaxOverall,
      kDefaultOverall, kTries} \subseteq Nat \ {0}
  /\ kStealAmount <= kMinThreadCacheSize
  /\ kMinThreadCacheSize <= kMaxThreadCacheSize
  /\ Overalls \subseteq Nat
  /\ MemalignFirst \in BOOLEAN

VARIABLES
  thread_heaps,         \* the linked list, first cache first
  next_memory_steal,    \* a thread, or None for NULL
  max_size,             \* [Thread -> max_size_ of its cache]
  unclaimed,            \* unclaimed_cache_space_
  overall,              \* overall_thread_cache_size_
  per_thread,           \* per_thread_cache_size_
  heap_key,             \* threads whose pthread key holds their cache
  tls,                  \* threads whose threadlocal_data_.heap is set
  pageheap_lock,        \* the thread in do_memalign that holds it, or None
  pc                    \* [Thread -> where it is]

budgetVars == <<thread_heaps, next_memory_steal, max_size, unclaimed, overall,
                per_thread>>
cachesVars == <<thread_heaps, next_memory_steal, max_size, unclaimed, overall,
          per_thread, heap_key, tls, pageheap_lock, pc>>

Heaps == Range(thread_heaps)

\* next_ of a cache in the list.
NextHeap(l, h) ==
  LET i == CHOOSE j \in DOMAIN l : l[j] = h
  IN  IF h \in Range(l) /\ i < Len(l) THEN l[i + 1] ELSE None

BudgetInit ==
  /\ thread_heaps = <<>>
  /\ next_memory_steal = None
  /\ max_size = [t \in Thread |-> 0]
  /\ unclaimed = kDefaultOverall
  /\ overall = kDefaultOverall
  /\ per_thread = kMaxThreadCacheSize
  /\ heap_key = {} /\ tls = {} /\ pageheap_lock = None
  /\ pc = [t \in Thread |-> "out"]

-----------------------------------------------------------------------------
(* The budget, under pageheap_lock.                                        *)

\* The cache the i-th round of the loop of IncreaseCacheLimitLocked looks at.
Candidate(p) == IF p = None /\ thread_heaps # <<>> THEN Head(thread_heaps) ELSE p

\* next_memory_steal_ after i rounds.
Pointer[i \in 0 .. kTries] ==
  IF i = 0 THEN next_memory_steal ELSE NextHeap(thread_heaps, Candidate(Pointer[i - 1]))

\* The rounds in which thread t finds a cache to steal from.
Victims(t) ==
  {i \in 1 .. kTries :
     LET h == Candidate(Pointer[i - 1])
     IN  h \notin {t, None} /\ max_size[h] > kMinThreadCacheSize}

\* IncreaseCacheLimitLocked for t, whose limit is mine: the new limits, pool
\* and pointer.
IncreaseCacheLimitLocked(t, mine) ==
  IF unclaimed > 0
  THEN [max |-> [max_size EXCEPT ![t] = mine + kStealAmount],
        pool |-> unclaimed - kStealAmount, ptr |-> next_memory_steal]
  ELSE IF Victims(t) = {}
  THEN [max |-> [max_size EXCEPT ![t] = mine], pool |-> unclaimed,
        ptr |-> Pointer[kTries]]
  ELSE LET h == Candidate(Pointer[Min(Victims(t)) - 1])
       IN  [max |-> [max_size EXCEPT ![h] = @ - kStealAmount,
                                     ![t] = mine + kStealAmount],
            pool |-> unclaimed, ptr |-> NextHeap(thread_heaps, h)]

\* Mutant: Init gives the minimum to a new cache without charging the pool.
InitUncharged(t) ==
  LET r == IncreaseCacheLimitLocked(t, 0)
  IN  /\ max_size' = IF r.max[t] = 0 THEN [r.max EXCEPT ![t] = kMinThreadCacheSize]
                     ELSE r.max
      /\ unclaimed' = r.pool
      /\ next_memory_steal' = IF thread_heaps = <<>> THEN t ELSE r.ptr

\* ThreadCache::Init and the end of NewHeap.
InitHeap(t) ==
  LET r == IncreaseCacheLimitLocked(t, 0)
      starved == r.max[t] = 0
  IN  /\ max_size' = IF starved THEN [r.max EXCEPT ![t] = kMinThreadCacheSize]
                     ELSE r.max
      /\ unclaimed' = IF starved THEN r.pool - kMinThreadCacheSize ELSE r.pool
      /\ next_memory_steal' = IF thread_heaps = <<>> THEN t ELSE r.ptr

\* CreateCacheIfNecessary under the lock: the thread's cache, or a new one.
FindOrCreate(t) ==
  /\ pageheap_lock = None
  /\ IF t \in Heaps THEN UNCHANGED <<thread_heaps, max_size, unclaimed, next_memory_steal>>
     ELSE InitHeap(t) /\ thread_heaps' = <<t>> \o thread_heaps

\* DeleteCache: next_memory_steal_ once t is out of the list.
StealPointer(t, list) ==
  LET p == IF next_memory_steal = t THEN NextHeap(thread_heaps, t) ELSE next_memory_steal
  IN  IF p = None /\ list # <<>> THEN Head(list) ELSE p

-----------------------------------------------------------------------------
(* The life of a cache.                                                    *)

\* malloc in a thread without thread-local cache: GetCache.
CreateCacheIfNecessary(t) ==
  /\ pc[t] = "out" /\ t \notin tls
  /\ FindOrCreate(t)
  /\ pc' = [pc EXCEPT ![t] = "setting"]
  /\ UNCHANGED <<overall, per_thread, heap_key, tls, pageheap_lock>>

\* pthread_setspecific calls malloc: the recursive call finds the cache, and
\* in_setspecific_ keeps it from setting the key again.
RecursiveMalloc(t) ==
  /\ pc[t] = "setting" /\ t \notin heap_key
  /\ FindOrCreate(t)
  /\ UNCHANGED <<overall, per_thread, heap_key, tls, pageheap_lock, pc>>

SetSpecific(t) ==
  /\ pc[t] = "setting" /\ t \notin heap_key
  /\ heap_key' = heap_key \cup {t}
  /\ UNCHANGED <<budgetVars, tls, pageheap_lock, pc>>

SetThreadLocal(t) ==
  /\ pc[t] = "setting" /\ t \in heap_key
  /\ tls' = tls \cup {t}
  /\ pc' = [pc EXCEPT ![t] = "out"]
  /\ UNCHANGED <<budgetVars, heap_key, pageheap_lock>>

\* BecomeIdle up to DeleteCache: the key is cleared, then the pointer.
BecomeIdle(t) ==
  /\ pc[t] = "out" /\ t \in tls
  /\ heap_key' = heap_key \ {t}
  /\ pc' = [pc EXCEPT ![t] = "idling"]
  /\ UNCHANGED <<budgetVars, tls, pageheap_lock>>

ClearThreadLocal(t) ==
  /\ pc[t] = "idling"
  /\ tls' = tls \ {t}
  /\ pc' = [pc EXCEPT ![t] = "deleting"]
  /\ UNCHANGED <<budgetVars, heap_key, pageheap_lock>>

\* The thread exits: the key's destructor.  Destructors of other keys may call
\* malloc afterwards, and then there is a new cache.
DestroyThreadCache(t) ==
  /\ pc[t] = "out" /\ t \in heap_key
  /\ heap_key' = heap_key \ {t}
  /\ tls' = tls \ {t}
  /\ pc' = [pc EXCEPT ![t] = "deleting"]
  /\ UNCHANGED <<budgetVars, pageheap_lock>>

\* DeleteCache under the lock, after Cleanup.
DeleteCache(t) ==
  LET list == SelectSeq(thread_heaps, LAMBDA h : h # t)
  IN  /\ pc[t] = "deleting" /\ pageheap_lock = None
      /\ thread_heaps' = list
      /\ next_memory_steal' = StealPointer(t, list)
      /\ unclaimed' = unclaimed + max_size[t]
      /\ max_size' = [max_size EXCEPT ![t] = 0]
      /\ pc' = [pc EXCEPT ![t] = "out"]
      /\ UNCHANGED <<overall, per_thread, heap_key, tls, pageheap_lock>>

\* IncreaseCacheLimit, at the end of Scavenge.
IncreaseCacheLimit(t) ==
  LET r == IncreaseCacheLimitLocked(t, max_size[t])
  IN  /\ pc[t] = "out" /\ t \in tls /\ pageheap_lock = None
      /\ max_size' = r.max /\ unclaimed' = r.pool /\ next_memory_steal' = r.ptr
      /\ UNCHANGED <<thread_heaps, overall, per_thread, heap_key, tls, pageheap_lock, pc>>

Clip(x, lo, hi) == IF x < lo THEN lo ELSE IF x > hi THEN hi ELSE x

\* unclaimed_cache_space_ after the limits have been scaled down.
RecomputedPool(new, max) == new - MapThenSumSet(LAMBDA h : max[h], Heaps)

\* set_overall_thread_cache_size with RecomputePerThreadCacheSize.
SetOverallThreadCacheSize(size) ==
  LET new == Clip(size, kMinThreadCacheSize, kMaxOverall)
      n == IF Len(thread_heaps) > 0 THEN Len(thread_heaps) ELSE 1
      space == Clip(new \div n, kMinThreadCacheSize, kMaxThreadCacheSize)
      max == [t \in Thread |-> IF t \in Heaps /\ space < per_thread
                               THEN (max_size[t] * space) \div per_thread
                               ELSE max_size[t]]
  IN  /\ pageheap_lock = None
      /\ overall' = new
      /\ max_size' = max
      /\ unclaimed' = RecomputedPool(new, max)
      /\ per_thread' = space
      /\ UNCHANGED <<thread_heaps, next_memory_steal, heap_key, tls, pageheap_lock, pc>>

\* do_memalign of whole pages, up to its call of GetCache.
MemalignPages(t) ==
  /\ pc[t] = "out" /\ pageheap_lock = None
  /\ MemalignFirst \/ t \in tls
  /\ pageheap_lock' = t
  /\ pc' = [pc EXCEPT ![t] = "memalign"]
  /\ UNCHANGED <<budgetVars, heap_key, tls>>

\* GetCache returns the thread's cache.  Without one it would call
\* CreateCacheIfNecessary, whose first step waits for the lock.
MemalignReturns(t) ==
  /\ pc[t] = "memalign" /\ t \in tls
  /\ pageheap_lock' = None
  /\ pc' = [pc EXCEPT ![t] = "out"]
  /\ UNCHANGED <<budgetVars, heap_key, tls>>

BudgetNext ==
  \/ \E t \in Thread :
       \/ CreateCacheIfNecessary(t)
       \/ RecursiveMalloc(t)
       \/ SetSpecific(t)
       \/ SetThreadLocal(t)
       \/ BecomeIdle(t)
       \/ ClearThreadLocal(t)
       \/ DestroyThreadCache(t)
       \/ DeleteCache(t)
       \/ IncreaseCacheLimit(t)
       \/ MemalignPages(t)
       \/ MemalignReturns(t)
  \/ \E size \in Overalls : SetOverallThreadCacheSize(size)

BudgetSpec == BudgetInit /\ [][BudgetNext]_cachesVars

-----------------------------------------------------------------------------
(* Properties.                                                             *)

\* Type invariant.  No limit and no size_t goes below zero.
BudgetTypeOK ==
  /\ thread_heaps \in Seq(Thread)
  /\ next_memory_steal \in Thread \cup {None}
  /\ max_size \in [Thread -> Nat]
  /\ unclaimed \in Int /\ overall \in Nat /\ per_thread \in Nat \ {0}
  /\ heap_key \subseteq Thread /\ tls \subseteq Thread
  /\ pc \in [Thread -> {"out", "setting", "idling", "deleting", "memalign"}]
  /\ pageheap_lock \in Thread \cup {None}

\* thread_cache.h of unclaimed_cache_space_: "Represents
\* overall_thread_cache_size_ minus the sum of max_size_ across all
\* ThreadCaches", through every theft, creation, deletion and resizing.
BudgetBalanced ==
  unclaimed + MapThenSumSet(LAMBDA h : max_size[h], Heaps) = overall

\* A thread has at most one cache, although its first malloc may run malloc
\* again from pthread_setspecific.
OneCachePerThread == IsInjective(thread_heaps)

\* The pointers that outlive a lock never name a deleted cache: the thread's
\* own, and next_memory_steal_, which IncreaseCacheLimitLocked follows.
PointersToLiveCaches ==
  /\ tls \cup heap_key \subseteq Heaps
  /\ next_memory_steal \in Heaps \cup {None}
  /\ \A t \in Thread : pc[t] = "deleting" => t \in Heaps \ (tls \cup heap_key)

\* The ASSERTs on an empty list: NewHeap finds next_memory_steal_ NULL, and
\* IncreaseCacheLimitLocked, which would follow thread_heaps_, has a pool.
FirstCacheFindsPool ==
  thread_heaps = <<>> => next_memory_steal = None /\ unclaimed > 0

\* memalign_unittest.cc: "CHECK(posix_memalign(&ptr, a, s) == 0)".  A thread
\* that holds pageheap_lock does not wait for it: when do_memalign asks for the
\* cache of the thread, there is one, or GetCache would lock it again.
LockNotReentered == \A t \in Thread : pageheap_lock = t => t \in tls

=============================================================================
