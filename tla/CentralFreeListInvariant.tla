--------------------- MODULE CentralFreeListInvariant ----------------------
(***************************************************************************)
(* The central free lists for any number of threads, size classes and      *)
(* spans: no object is lost or in two places, the lists, reference counts  *)
(* and counters are exact, and the transfer caches share a fixed number of *)
(* entries, whatever the threads do while a lock is dropped.               *)
(***************************************************************************)
EXTENDS CentralFreeList, FiniteSetTheorems, TLAPS

(* The inductive invariant.                                                *)

PCs == {"idle", "insert", "evict", "shrink", "reinsert", "freeing", "delete", "relock",
        "remove", "populate", "populated"}
CallRecord ==
  [pc : PCs, c : Class \cup {None}, chain : SUBSET Object, v : Class \cup {None},
   list : SUBSET Object, force : BOOLEAN, ok : BOOLEAN, n : 0 .. Batch,
   sp : Spans \cup {None}]

\* What a call has in its hands at each point of its program.
CallShape(r) ==
  /\ r \in CallRecord
  /\ r.pc = "idle" => r = IdleCall
  /\ r.pc \in {"insert", "evict", "shrink", "reinsert"} =>
       r.c \in Class /\ r.chain # {} /\ r.list = {} /\ r.n = 0
  /\ r.pc \in {"freeing", "delete", "relock"} => r.c \in Class /\ r.n = 0
  /\ r.pc \in {"shrink", "freeing", "delete", "relock"} => r.v \in Class
  /\ r.pc \in {"remove", "populate", "populated"} =>
       r.c \in Class /\ r.chain = {} /\ r.list = {} /\ r.n # 0
  /\ r.pc \notin {"delete", "populated"} => r.sp = None
  /\ r.pc = "delete" => r.sp # None

\* The size class locks a call holds.
LocksOf(r) == IF r.pc = "evict" THEN {r.c} ELSE IF r.pc = "freeing" THEN {r.v} ELSE {}
LocksHeld == \A t \in Thread, c \in Class : lock[c] = t <=> c \in LocksOf(th[t])

\* The objects a call or a slot has are of the class it has them for.
ClassOf(o) == sizeclass[MapObjectToSpan(o)]
RightClass ==
  /\ \A t \in Thread : /\ \A o \in th[t].chain : ClassOf(o) = th[t].c
                       /\ \A o \in th[t].list : ClassOf(o) = th[t].v
  /\ \A c \in Class : \A i \in 1 .. UsedSlots(c) :
       tc_slots[c][i] # {} /\ \A o \in tc_slots[c][i] : ClassOf(o) = c

\* A span is with the page heap, on one of the two lists of its class, or in
\* the hands of the one call that takes it from the page heap or back there.
Listed(s, c) == s \in empty[c] \cup nonempty[c]
SpanState(s) ==
  /\ objects[s] \subseteq ObjectsOf(s)
  /\ refcount[s] = Cardinality(AwayFrom(s))
  /\ sizeclass[s] = None => objects[s] = {} /\ AwayFrom(s) = {}
  /\ \A c \in Class : s \in empty[c] => objects[s] = {}
  /\ \A c \in Class : s \in nonempty[c] => objects[s] # {}
  /\ \A c \in Class : Listed(s, c) =>
       /\ sizeclass[s] = c /\ \A t \in Thread : th[t].sp # s
       /\ \A o \in ObjectsOf(s) : Away(o) \/ o \in objects[s]
  /\ \A t \in Thread : th[t].sp = s =>
       /\ sizeclass[s] = (IF th[t].pc = "delete" THEN th[t].v ELSE th[t].c)
       /\ AwayFrom(s) = {}
       /\ th[t].pc = "populated" => objects[s] = ObjectsOf(s)
       /\ \A u \in Thread : th[u].sp = s => t = u
  /\ sizeclass[s] # None =>
       Listed(s, sizeclass[s]) \/ \E t \in Thread : th[t].sp = s

Counted == \A c \in Class : counter[c] = Cardinality(FreeObjects(c))

Typed ==
  /\ lock \in [Class -> Thread \cup {None}]
  /\ cache_size \in [Class -> Nat]
  /\ tc_slots \in [Class -> Seq(SUBSET Object)]
  /\ empty \in [Class -> SUBSET Spans] /\ nonempty \in [Class -> SUBSET Spans]
  /\ DOMAIN counter = Class
  /\ sizeclass \in [Spans -> Class \cup {None}]
  /\ objects \in [Spans -> SUBSET Object]
  /\ DOMAIN refcount = Spans
  /\ out \subseteq Object
  /\ DOMAIN th = Thread

Calls == \A t \in Thread : CallShape(th[t])
Places == \A o \in Object : OnePlace(o)
SpanStates == \A s \in Spans : SpanState(s)

ObjectsInv == Typed /\ Calls /\ LocksHeld /\ RightClass /\ Places /\ SpanStates /\ Counted
CentralInv == ObjectsInv /\ CacheFits /\ EntriesConserved

-----------------------------------------------------------------------------
(* Objects and sets of them.                                               *)

LEMMA ObjectFacts ==
  /\ \A o \in Object : MapObjectToSpan(o) \in Spans
  /\ \A s \in Spans : \A o : o \in ObjectsOf(s) <=> o \in Object /\ MapObjectToSpan(o) = s
  /\ \A s \in Spans : ObjectsOf(s) # {}
<1>1. NObjects \in Nat \ {0}
  BY CentralAssumption
<1>2. \A o \in Object : MapObjectToSpan(o) \in Spans
  BY SMTT(30) DEF Object, MapObjectToSpan
<1>3. \A s \in Spans : \A o : o \in ObjectsOf(s) <=> o \in Object /\ MapObjectToSpan(o) = s
  BY SMTT(30) DEF Object, MapObjectToSpan, ObjectsOf
<1>4. \A s \in Spans : <<s, 1>> \in ObjectsOf(s)
  BY <1>1, SMTT(30) DEF ObjectsOf
<1> QED
  BY <1>2, <1>3, <1>4, Zenon

LEMMA ObjectSets ==
  ASSUME NEW S \in SUBSET Object
  PROVE  IsFiniteSet(S) /\ Cardinality(S) \in Nat
<1>1. IsFiniteSet(1 .. NObjects)
  <2>1. 1 \in Int /\ NObjects \in Int
    BY CentralAssumption, SMTT(30)
  <2> QED
    BY <2>1, FS_Interval, Zenon
<1>2. IsFiniteSet(Spans)
  BY CentralAssumption
<1>3. IsFiniteSet(Object)
  BY <1>1, <1>2, FS_Product, Zenon DEF Object
<1>4. IsFiniteSet(S)
  BY <1>3, FS_Subset, Zenon
<1> QED
  BY <1>4, FS_CardinalityType, Zenon

LEMMA SpanCount == \A s \in Spans : Cardinality(ObjectsOf(s)) = NObjects
<1> TAKE s \in Spans
<1>1. /\ 1 \in Int /\ NObjects \in Int /\ ~ (1 > NObjects) /\ NObjects - 1 + 1 = NObjects
      /\ 1 * NObjects = NObjects
  BY CentralAssumption, SMTT(30)
<1>2. IsFiniteSet(1 .. NObjects) /\ Cardinality(1 .. NObjects) = NObjects - 1 + 1
  BY <1>1, FS_Interval, Zenon
<1>3. IsFiniteSet({s}) /\ Cardinality({s}) = 1
  BY FS_Singleton, Zenon
<1>4. Cardinality({s} \X (1 .. NObjects)) = Cardinality({s}) * Cardinality(1 .. NObjects)
  BY <1>2, <1>3, FS_Product, Zenon
<1> QED
  BY <1>1, <1>2, <1>3, <1>4, Zenon DEF ObjectsOf

\* What leaves or joins a set changes its size by its own.
Counts(S, T) ==
  /\ T \subseteq S => Cardinality(S \ T) = Cardinality(S) - Cardinality(T)
  /\ S \cap T = {} => Cardinality(S \cup T) = Cardinality(S) + Cardinality(T)
LEMMA SetCounts ==
  ASSUME NEW S \in SUBSET Object, NEW T \in SUBSET Object
  PROVE  Counts(S, T)
<1>1. IsFiniteSet(S) /\ IsFiniteSet(T) /\ Cardinality(S) \in Nat /\ Cardinality(T) \in Nat
  BY ObjectSets, Zenon
<1>2. /\ Cardinality(S \ T) = Cardinality(S) - Cardinality(S \cap T)
      /\ Cardinality(S \cup T) = Cardinality(S) + Cardinality(T) - Cardinality(S \cap T)
  BY <1>1, FS_Difference, FS_Union, Zenon
<1>3. Cardinality({}) = 0
  BY FS_EmptySet, Zenon
<1>4. T \subseteq S => S \cap T = T
  BY Zenon
<1>5. S \cap T = {} => Cardinality(S \cup T) = Cardinality(S) + Cardinality(T)
  <2> SUFFICES ASSUME S \cap T = {}
               PROVE  Cardinality(S \cup T) = Cardinality(S) + Cardinality(T)
    OBVIOUS
  <2>1. Cardinality(S \cup T) = Cardinality(S) + Cardinality(T) - 0
    BY <1>2, <1>3, Zenon
  <2> QED
    BY <1>1, <2>1, SMTT(30)
<1> QED
  BY <1>2, <1>4, <1>5, Zenon DEF Counts

LEMMA OneObject == \A o \in Object : Cardinality({o}) = 1 /\ {o} \in SUBSET Object
  BY FS_Singleton, Zenon

-----------------------------------------------------------------------------
(* The slots of the transfer caches.                                       *)

LEMMA SlotAppended ==
  ASSUME NEW q \in Seq(SUBSET Object), NEW x \in SUBSET Object
  PROVE  /\ Append(q, x) \in Seq(SUBSET Object) /\ Len(Append(q, x)) = Len(q) + 1
         /\ \A i \in 1 .. Len(q) : Append(q, x)[i] = q[i]
         /\ Append(q, x)[Len(q) + 1] = x
         /\ Len(q) \in Nat
  OBVIOUS

LEMMA SlotTaken ==
  ASSUME NEW q \in Seq(SUBSET Object), Len(q) > 0
  PROVE  /\ SlotsBelow(q) \in Seq(SUBSET Object) /\ Len(SlotsBelow(q)) = Len(q) - 1
         /\ \A i \in 1 .. Len(q) - 1 : SlotsBelow(q)[i] = q[i]
         /\ TopSlot(q) = q[Len(q)] /\ TopSlot(q) \in SUBSET Object
         /\ Len(q) \in Nat /\ Len(q) \in 1 .. Len(q)
<1>1. Len(q) \in Nat \ {0} /\ Len(q) \in 1 .. Len(q) /\ Len(q) - 1 \in Nat
  OBVIOUS
<1>2. SlotsBelow(q) = SubSeq(q, 1, Len(q) - 1)
  BY DEF SlotsBelow
<1>3. /\ SlotsBelow(q) \in Seq(SUBSET Object) /\ Len(SlotsBelow(q)) = Len(q) - 1
      /\ \A i \in 1 .. Len(q) - 1 : SlotsBelow(q)[i] = q[i]
  <2> DEFINE n == Len(q) - 1
  <2>1. n \in Nat /\ n <= Len(q)
    BY <1>1
  <2> HIDE DEF n
  <2>2. SubSeq(q, 1, n) \in Seq(SUBSET Object)
    BY <1>1, <2>1
  <2>3. Len(SubSeq(q, 1, n)) = n
    BY <1>1, <2>1
  <2>4. \A i \in 1 .. n : SubSeq(q, 1, n)[i] = q[i]
    BY <1>1, <2>1
  <2> QED
    BY <1>2, <2>2, <2>3, <2>4, Zenon DEF n
<1>4. TopSlot(q) = q[Len(q)] /\ TopSlot(q) \in SUBSET Object
  BY <1>1 DEF TopSlot
<1> QED
  BY <1>1, <1>3, <1>4

\* OnePlace and Away without the bounds on the slots.
Alone(o) ==
  /\ \A t \in Thread : InCall(o, t) =>
       /\ o \notin out /\ ~ (o \in th[t].chain /\ o \in th[t].list)
       /\ \A u \in Thread : InCall(o, u) => t = u
  /\ \A c \in Class : \A i : InSlot(o, c, i) =>
       /\ o \notin out /\ \A t \in Thread : ~ InCall(o, t)
       /\ \A d \in Class : \A j : InSlot(o, d, j) => c = d /\ i = j
Cached(o) == \E c \in Class : \E i : InSlot(o, c, i)

LEMMA AwayMeans ==
  \A o : Away(o) <=> o \in out \/ (\E t \in Thread : InCall(o, t)) \/ Cached(o)
  BY Zenon DEF Away, Cached, InSlot

LEMMA OnePlaceMeans ==
  \A o : OnePlace(o) <=> Alone(o) /\ (Away(o) => o \notin objects[MapObjectToSpan(o)])
<1> SUFFICES ASSUME NEW o
             PROVE  OnePlace(o) <=>
                      Alone(o) /\ (Away(o) => o \notin objects[MapObjectToSpan(o)])
  OBVIOUS
<1>1. \A c \in Class : \A i : InSlot(o, c, i) => i \in 1 .. UsedSlots(c)
  BY Zenon DEF InSlot
<1>2. ASSUME OnePlace(o) PROVE Alone(o)
  BY <1>1, <1>2, Zenon DEF OnePlace, Alone
<1>3. ASSUME Alone(o), Away(o) => o \notin objects[MapObjectToSpan(o)] PROVE OnePlace(o)
  BY <1>3, Zenon DEF OnePlace, Alone
<1> QED
  BY <1>2, <1>3, Zenon DEF OnePlace

-----------------------------------------------------------------------------
(* What the parts of the invariant need of a step.                         *)

LEMMA CallsKept ==
  ASSUME Typed, Calls, NEW t \in Thread, NEW r, Call(t, r), CallShape(r)
  PROVE  /\ Calls' /\ DOMAIN th' = Thread /\ th'[t] = r
         /\ \A u \in Thread \ {t} : th'[u] = th[u]
<1>1. DOMAIN th' = Thread /\ th'[t] = r /\ \A u \in Thread \ {t} : th'[u] = th[u]
  BY DEF Typed, Call
<1> QED
  BY <1>1, Zenon DEF Calls

\* The locks are those of the call after the step.
LockStep(t, r) ==
  /\ lock' \in [Class -> Thread \cup {None}]
  /\ \A c \in Class : c \in LocksOf(r) => lock'[c] = t /\ lock[c] \in {None, t}
  /\ \A c \in Class : c \notin LocksOf(r) =>
       IF lock[c] = t THEN lock'[c] = None ELSE lock'[c] = lock[c]

LEMMA LocksKept ==
  ASSUME LocksHeld, NEW t \in Thread, NEW r, LockStep(t, r),
         th'[t] = r, \A u \in Thread \ {t} : th'[u] = th[u]
  PROVE  LocksHeld'
<1>1. None \notin Thread
  BY CentralAssumption, Zenon
<1> SUFFICES ASSUME NEW u \in Thread, NEW c \in Class
             PROVE  lock'[c] = u <=> c \in LocksOf(th'[u])
  BY Zenon DEF LocksHeld, LocksOf
<1>2. CASE u = t
  <2>1. c \in LocksOf(r) => lock'[c] = t
    BY Zenon DEF LockStep
  <2>2. c \notin LocksOf(r) => lock'[c] # t
    BY <1>1, Zenon DEF LockStep
  <2> QED
    BY <1>2, <2>1, <2>2, Zenon
<1>3. CASE u # t
  <2>1. lock[c] = u <=> c \in LocksOf(th[u])
    BY Zenon DEF LocksHeld
  <2>2. lock'[c] = u <=> lock[c] = u
    BY <1>1, <1>3, Zenon DEF LockStep
  <2> QED
    BY <1>3, <2>1, <2>2, Zenon
<1> QED
  BY <1>2, <1>3

LEMMA EntrySets ==
  ASSUME NEW f
  PROVE  IsFiniteSet(Entries(f)) /\ Cardinality(Entries(f)) \in Nat
<1>1. IsFiniteSet(1 .. kMaxNumTransferEntries)
  <2>1. 1 \in Int /\ kMaxNumTransferEntries \in Int
    BY CentralAssumption, SMTT(30)
  <2> QED
    BY <2>1, FS_Interval, Zenon
<1>2. IsFiniteSet(Class)
  BY CentralAssumption
<1>3. IsFiniteSet(Class \X (1 .. kMaxNumTransferEntries))
  BY <1>1, <1>2, FS_Product, Zenon
<1>4. IsFiniteSet(Entries(f))
  <2>1. Entries(f) \in SUBSET (Class \X (1 .. kMaxNumTransferEntries))
    BY Zenon DEF Entries
  <2> QED
    BY <1>3, <2>1, FS_Subset, Zenon
<1> QED
  BY <1>4, FS_CardinalityType, Zenon

Thieves == {t \in Thread : Stolen(t)}

LEMMA ThreadSets ==
  ASSUME NEW S \in SUBSET Thread
  PROVE  IsFiniteSet(S) /\ Cardinality(S) \in Nat
<1>1. IsFiniteSet(S)
  BY CentralAssumption, FS_Subset, Zenon
<1> QED
  BY <1>1, FS_CardinalityType, Zenon

LEMMA EntriesKept ==
  ASSUME EntriesConserved, cache_size' = cache_size,
         \A t \in Thread : Stolen(t)' => Stolen(t)
  PROVE  EntriesConserved'
<1> DEFINE A == Thieves
           B == Thieves'
<1>1. A \in SUBSET Thread /\ B \in SUBSET A
  BY Zenon DEF Thieves
<1>2. IsFiniteSet(A) /\ Cardinality(A) \in Nat
  BY <1>1, ThreadSets, Zenon
<1> HIDE DEF A, B
<1>3. Cardinality(B) <= Cardinality(A) /\ IsFiniteSet(B)
  BY <1>1, <1>2, FS_Subset, Zenon
<1>4. Cardinality(B) \in Nat
  BY <1>3, FS_CardinalityType, Zenon
<1>5. /\ Cardinality(Entries(cache_size)) \in Nat
      /\ Cardinality(Entries(CacheSize)) \in Nat
  BY EntrySets, Zenon
<1>6. Cardinality(Entries(cache_size)) + Cardinality(A) <= Cardinality(Entries(CacheSize))
  BY Zenon DEF EntriesConserved, A, Thieves
<1>7. Cardinality(Entries(cache_size)) + Cardinality(B) <= Cardinality(Entries(CacheSize))
  BY <1>2, <1>3, <1>4, <1>5, <1>6, SMTT(30)
<1>8. EntriesConserved'
        <=> Cardinality(Entries(cache_size')) + Cardinality(B)
              <= Cardinality(Entries(CacheSize))
  BY Zenon DEF EntriesConserved, B, Thieves
<1> QED
  BY <1>7, <1>8, Zenon

\* A step that only moves objects between calls, slots and callers.
SpansAlone ==
  /\ UNCHANGED <<empty, nonempty, counter, objects, refcount, sizeclass>>
  /\ \A o \in Object : Away(o)' <=> Away(o)
  /\ \A u \in Thread : /\ th'[u].sp = th[u].sp
                       /\ th[u].sp # None => th'[u] = th[u]

LEMMA SpansKept ==
  ASSUME SpanStates, Counted, SpansAlone
  PROVE  SpanStates' /\ Counted'
<1>1. UNCHANGED <<empty, nonempty, counter, objects, refcount, sizeclass>>
  BY Zenon DEF SpansAlone
<1>2. Counted'
  BY <1>1, Zenon DEF Counted, FreeObjects
<1>3. ASSUME NEW s \in Spans PROVE SpanState(s)'
  <2>1. SpanState(s) /\ s # None
    BY CentralAssumption, Zenon DEF SpanStates
  <2>2. \A o \in ObjectsOf(s) : Away(o)' <=> Away(o)
    BY ObjectFacts, Zenon DEF SpansAlone
  <2>3. AwayFrom(s)' = AwayFrom(s)
    BY <2>2, Zenon DEF AwayFrom
  <2>4. \A u \in Thread : /\ th'[u].sp = th[u].sp
                          /\ th[u].sp = s => th'[u] = th[u]
    BY <2>1, Zenon DEF SpansAlone
  <2>5. \A c : Listed(s, c)' <=> Listed(s, c)
    BY <1>1, Zenon DEF Listed
  <2> QED
    BY <1>1, <2>1, <2>2, <2>3, <2>4, <2>5, Zenon DEF SpanState
<1> QED
  BY <1>2, <1>3, Zenon DEF SpanStates

\* A step of t, whose call becomes r, that moves no object to another place.
Still(t, r) ==
  /\ Call(t, r) /\ CallShape(r) /\ LockStep(t, r)
  /\ r.sp = None /\ th[t].sp = None
  /\ r.chain \cup r.list = th[t].chain \cup th[t].list /\ r.chain \cap r.list = {}
  /\ \A o \in r.chain : ClassOf(o) = r.c
  /\ \A o \in r.list : ClassOf(o) = r.v
  /\ UNCHANGED <<tc_slots, out, empty, nonempty, counter, objects, refcount, sizeclass>>
  /\ cache_size' \in [Class -> Nat]

LEMMA StillKept ==
  ASSUME ObjectsInv, NEW t \in Thread, NEW r, Still(t, r)
  PROVE  ObjectsInv'
<1> USE DEF ObjectsInv
<1>1. /\ UNCHANGED <<tc_slots, out, empty, nonempty, counter, objects, refcount, sizeclass>>
      /\ lock' \in [Class -> Thread \cup {None}] /\ cache_size' \in [Class -> Nat]
  BY Zenon DEF Still, LockStep
<1>2. /\ Calls' /\ DOMAIN th' = Thread /\ th'[t] = r
      /\ \A u \in Thread \ {t} : th'[u] = th[u]
  BY CallsKept, Zenon DEF Still
<1>3. Typed'
  BY <1>1, <1>2, Zenon DEF Typed
<1>4. LocksHeld'
  BY <1>2, LocksKept, Zenon DEF Still
<1>5. \A o, u : u \in Thread => (InCall(o, u)' <=> InCall(o, u))
  BY <1>2, Zenon DEF InCall, Still
<1>6. \A o, c, i : InSlot(o, c, i)' <=> InSlot(o, c, i)
  BY <1>1, Zenon DEF InSlot, UsedSlots
<1>7. \A o : Cached(o)' <=> Cached(o)
  BY <1>6, Zenon DEF Cached
<1>8. \A o : Away(o)' <=> Away(o)
  <2>1. \A o : Away(o)' <=> o \in out' \/ (\E u \in Thread : InCall(o, u)') \/ Cached(o)'
    BY Zenon DEF Away, Cached, InSlot
  <2> QED
    BY <1>1, <1>5, <1>7, <2>1, AwayMeans, Zenon
<1>9. RightClass'
  <2>1. \A o : ClassOf(o)' = ClassOf(o)
    BY <1>1, Zenon DEF ClassOf
  <2>2. /\ \A o \in r.chain : ClassOf(o) = r.c
        /\ \A o \in r.list : ClassOf(o) = r.v
    BY Zenon DEF Still
  <2>3. \A u \in Thread : /\ \A o \in th'[u].chain : ClassOf(o) = th'[u].c
                          /\ \A o \in th'[u].list : ClassOf(o) = th'[u].v
    <3> TAKE u \in Thread
    <3>1. CASE u = t
      BY <1>2, <2>2, <3>1, Zenon
    <3>2. CASE u # t
      <4>1. th'[u] = th[u]
        BY <1>2, <3>2, Zenon
      <4> QED
        BY <4>1, Zenon DEF RightClass
    <3> QED
      BY <3>1, <3>2
  <2> QED
    BY <1>1, <2>1, <2>3, ZenonT(30) DEF RightClass, UsedSlots
<1>10. Places'
  <2>1. ASSUME NEW o \in Object PROVE OnePlace(o)'
    <3>1. OnePlace(o)
      BY Zenon DEF Places
    <3>2. \A u \in Thread : ~ (o \in th'[u].chain /\ o \in th'[u].list)
      <4>1. ~ (o \in r.chain /\ o \in r.list)
        BY Zenon DEF Still
      <4>2. \A u \in Thread : ~ (o \in th[u].chain /\ o \in th[u].list)
        BY <3>1, Zenon DEF OnePlace, InCall
      <4> QED
        BY <1>2, <4>1, <4>2, Zenon
    <3> QED
      BY <1>1, <1>5, <1>6, <1>8, <3>1, <3>2, Zenon DEF OnePlace, UsedSlots
  <2> QED
    BY <2>1, Zenon DEF Places
<1>11. SpansAlone
  <2>1. \A u \in Thread : /\ th'[u].sp = th[u].sp
                          /\ th[u].sp # None => th'[u] = th[u]
    <3>1. r.sp = None /\ th[t].sp = None
      BY Zenon DEF Still
    <3> QED
      BY <1>2, <3>1, Zenon
  <2> QED
    BY <1>1, <1>8, <2>1, Zenon DEF SpansAlone
<1>12. SpanStates' /\ Counted'
  BY <1>11, SpansKept, Zenon
<1> QED
  BY <1>2, <1>3, <1>4, <1>9, <1>10, <1>12, Zenon

LEMMA SameCaches ==
  ASSUME CacheFits, UNCHANGED <<cache_size, tc_slots>>
  PROVE  CacheFits'
  BY Zenon DEF CacheFits, UsedSlots

-----------------------------------------------------------------------------
(* The calls as they go on.                                                *)

LEMMA IdleShape == CallShape(IdleCall)
<1>1. /\ IdleCall.pc = "idle" /\ IdleCall.sp = None /\ IdleCall.chain = {} /\ IdleCall.list = {}
      /\ LocksOf(IdleCall) = {}
  BY DEF IdleCall, LocksOf
<1>2. IdleCall \in CallRecord
  <2>1. 0 \in 0 .. Batch
    BY CentralAssumption, SMTT(30)
  <2> QED
    BY <2>1, SMTT(30) DEF IdleCall, CallRecord, PCs
<1> QED
  BY <1>1, <1>2, SMTT(30) DEF CallShape

LEMMA IdleFacts ==
  /\ IdleCall.pc = "idle" /\ IdleCall.sp = None /\ IdleCall.chain = {} /\ IdleCall.list = {}
  /\ LocksOf(IdleCall) = {}
  BY DEF IdleCall, LocksOf

LEMMA ReleaseChainShape ==
  ASSUME NEW r, CallShape(r), r.pc \in {"insert", "evict", "reinsert"}
  PROVE  /\ CallShape(ReleaseChain(r))
         /\ ReleaseChain(r).pc = "freeing" /\ ReleaseChain(r).v = r.c
         /\ ReleaseChain(r).c = r.c
         /\ ReleaseChain(r).list = r.chain /\ ReleaseChain(r).chain = {}
         /\ ReleaseChain(r).sp = None
<1> DEFINE q == ReleaseChain(r)
<1>1. /\ r \in CallRecord /\ r.c \in Class /\ r.n = 0 /\ r.sp = None
      /\ r.list = {} /\ r.chain \in SUBSET Object /\ r.chain # {}
  BY SMTT(30) DEF CallShape, CallRecord
<1>2. /\ q \in CallRecord /\ q.pc = "freeing" /\ q.v = r.c /\ q.c = r.c /\ q.list = r.chain
      /\ q.chain = {} /\ q.sp = r.sp /\ q.n = r.n
  <2>1. "freeing" \in PCs /\ {} \in SUBSET Object
    BY Zenon DEF PCs
  <2> QED
    BY <1>1, <2>1, Zenon DEF ReleaseChain, CallRecord
<1> HIDE DEF q
<1>3. CallShape(q)
  BY <1>1, <1>2, SMTT(30) DEF CallShape
<1> QED
  BY <1>1, <1>2, <1>3, Zenon DEF q

LEMMA RetriesShape ==
  ASSUME NEW r, CallShape(r), r.pc \in {"evict", "reinsert"}
  PROVE  LET q == [r EXCEPT !.pc = "evict", !.force = TRUE]
         IN  /\ CallShape(q) /\ q.pc = "evict" /\ q.c = r.c /\ q.v = r.v
             /\ q.list = r.list /\ q.chain = r.chain /\ q.sp = None
<1> DEFINE q == [r EXCEPT !.pc = "evict", !.force = TRUE]
<1>1. /\ r \in CallRecord /\ r.c \in Class /\ r.n = 0 /\ r.sp = None
      /\ r.list = {} /\ r.chain # {}
  BY SMTT(30) DEF CallShape, CallRecord
<1>2. /\ q \in CallRecord /\ q.pc = "evict" /\ q.v = r.v /\ q.c = r.c /\ q.list = r.list
      /\ q.chain = r.chain /\ q.sp = r.sp /\ q.n = r.n
  <2>1. "evict" \in PCs /\ TRUE \in BOOLEAN
    BY Zenon DEF PCs
  <2> QED
    BY <1>1, <2>1, Zenon DEF CallRecord
<1> HIDE DEF q
<1>3. CallShape(q)
  BY <1>1, <1>2, SMTT(30) DEF CallShape
<1> QED
  BY <1>1, <1>2, <1>3, Zenon DEF q

-----------------------------------------------------------------------------
(* Objects that move between calls, slots and callers.                     *)

\* What putting x into the next slot of class k does, and taking the last slot.
SlotPut(k, x) ==
  LET u == UsedSlots(k)
  IN  /\ tc_slots' \in [Class -> Seq(SUBSET Object)]
      /\ u \in Nat /\ UsedSlots(k)' = u + 1
      /\ \A c \in Class \ {k} : UsedSlots(c)' = UsedSlots(c)
      /\ \A c \in Class : \A o, i :
           InSlot(o, c, i)' <=> InSlot(o, c, i) \/ (c = k /\ i = u + 1 /\ o \in x)
      /\ \A o, i : InSlot(o, k, i) => i # u + 1
      /\ \A c \in Class : \A i \in 1 .. UsedSlots(c)' :
           \/ c = k /\ tc_slots'[c][i] = x
           \/ i \in 1 .. UsedSlots(c) /\ tc_slots'[c][i] = tc_slots[c][i]
SlotGot(k) ==
  LET u == UsedSlots(k)
      x == TopSlot(tc_slots[k])
  IN  /\ tc_slots' \in [Class -> Seq(SUBSET Object)]
      /\ u \in Nat /\ UsedSlots(k)' = u - 1
      /\ \A c \in Class \ {k} : UsedSlots(c)' = UsedSlots(c)
      /\ \A c \in Class : \A o, i : InSlot(o, c, i)' <=> InSlot(o, c, i) /\ ~ (c = k /\ i = u)
      /\ \A o : InSlot(o, k, u) <=> o \in x
      /\ \A c \in Class : \A i \in 1 .. UsedSlots(c)' :
           i \in 1 .. UsedSlots(c) /\ tc_slots'[c][i] = tc_slots[c][i]
      /\ x \in SUBSET Object /\ u \in 1 .. u /\ x = tc_slots[k][u]

LEMMA PutFacts ==
  ASSUME Typed, NEW k \in Class, NEW x \in SUBSET Object,
         tc_slots' = [tc_slots EXCEPT ![k] = Append(@, x)]
  PROVE  SlotPut(k, x)
<1> DEFINE q == tc_slots[k]
           u == UsedSlots(k)
<1>1. tc_slots \in [Class -> Seq(SUBSET Object)] /\ q \in Seq(SUBSET Object)
  BY Zenon DEF Typed
<1>2. /\ Append(q, x) \in Seq(SUBSET Object) /\ Len(Append(q, x)) = u + 1
      /\ \A i \in 1 .. u : Append(q, x)[i] = q[i]
      /\ Append(q, x)[u + 1] = x
      /\ u \in Nat
  BY <1>1, SlotAppended, Zenon DEF UsedSlots
<1>3. /\ tc_slots'[k] = Append(q, x) /\ \A c \in Class \ {k} : tc_slots'[c] = tc_slots[c]
      /\ tc_slots' \in [Class -> Seq(SUBSET Object)]
  BY <1>1, <1>2, Zenon
<1>4. UsedSlots(k)' = u + 1 /\ \A c \in Class \ {k} : UsedSlots(c)' = UsedSlots(c)
  BY <1>2, <1>3, Zenon DEF UsedSlots
<1> HIDE DEF u, q
<1>5. \A i : i \in 1 .. u + 1 <=> i \in 1 .. u \/ i = u + 1
  BY <1>2, SMTT(30)
<1>6. u + 1 \notin 1 .. u
  BY <1>2, SMTT(30)
<1>7. \A o, i : InSlot(o, k, i)' <=> InSlot(o, k, i) \/ (i = u + 1 /\ o \in x)
  BY <1>2, <1>3, <1>4, <1>5, <1>6, Zenon DEF InSlot, q, u
<1>8. \A c \in Class \ {k} : \A o, i : InSlot(o, c, i)' <=> InSlot(o, c, i)
  BY <1>3, <1>4, Zenon DEF InSlot
<1>9. \A o, i : InSlot(o, k, i) => i # u + 1
  BY <1>6, Zenon DEF InSlot, u
<1>10. \A c \in Class : \A i \in 1 .. UsedSlots(c)' :
           \/ c = k /\ tc_slots'[c][i] = x
           \/ i \in 1 .. UsedSlots(c) /\ tc_slots'[c][i] = tc_slots[c][i]
  BY <1>2, <1>3, <1>4, <1>5, Zenon DEF q, u
<1>11. \A c \in Class : \A o, i :
         InSlot(o, c, i)' <=> InSlot(o, c, i) \/ (c = k /\ i = u + 1 /\ o \in x)
  <2> TAKE c \in Class
  <2>1. CASE c = k
    <3>1. \A o, i : /\ InSlot(o, c, i)' <=> InSlot(o, k, i)'
                    /\ InSlot(o, c, i) <=> InSlot(o, k, i)
      BY <2>1, Zenon DEF InSlot, UsedSlots
    <3> TAKE o, i
    <3>2. InSlot(o, k, i)' <=> InSlot(o, k, i) \/ (i = u + 1 /\ o \in x)
      BY <1>7, Zenon
    <3> QED
      BY <2>1, <3>1, <3>2, Zenon
  <2>2. CASE c # k
    BY <1>8, <2>2, Zenon
  <2> QED
    BY <2>1, <2>2
<1> QED
  BY <1>2, <1>3, <1>4, <1>9, <1>10, <1>11, Zenon DEF SlotPut, u

LEMMA GotFacts ==
  ASSUME Typed, NEW k \in Class, UsedSlots(k) > 0,
         tc_slots' = [tc_slots EXCEPT ![k] = SlotsBelow(@)]
  PROVE  SlotGot(k)
<1> DEFINE q == tc_slots[k]
           u == UsedSlots(k)
           x == TopSlot(q)
<1>1. tc_slots \in [Class -> Seq(SUBSET Object)] /\ q \in Seq(SUBSET Object)
  BY Zenon DEF Typed
<1>2. /\ SlotsBelow(q) \in Seq(SUBSET Object) /\ Len(SlotsBelow(q)) = u - 1
      /\ \A i \in 1 .. u - 1 : SlotsBelow(q)[i] = q[i]
      /\ x = q[u] /\ x \in SUBSET Object
      /\ u \in Nat /\ u \in 1 .. u
  BY <1>1, SlotTaken, Zenon DEF UsedSlots
<1>3. /\ tc_slots'[k] = SlotsBelow(q) /\ \A c \in Class \ {k} : tc_slots'[c] = tc_slots[c]
      /\ tc_slots' \in [Class -> Seq(SUBSET Object)]
  BY <1>1, <1>2, Zenon
<1>4. UsedSlots(k)' = u - 1 /\ \A c \in Class \ {k} : UsedSlots(c)' = UsedSlots(c)
  BY <1>2, <1>3, Zenon DEF UsedSlots
<1> HIDE DEF u, q, x
<1>5. \A i : i \in 1 .. u - 1 <=> i \in 1 .. u /\ i # u
  BY <1>2, SMTT(30)
<1>7. \A o, i : InSlot(o, k, i)' <=> InSlot(o, k, i) /\ i # u
  BY <1>2, <1>3, <1>4, <1>5, Zenon DEF InSlot, q, u
<1>8. \A c \in Class \ {k} : \A o, i : InSlot(o, c, i)' <=> InSlot(o, c, i)
  BY <1>3, <1>4, Zenon DEF InSlot
<1>9. \A o : InSlot(o, k, u) <=> o \in x
  BY <1>2, Zenon DEF InSlot, u, q
<1>10. \A c \in Class : \A i \in 1 .. UsedSlots(c)' :
           i \in 1 .. UsedSlots(c) /\ tc_slots'[c][i] = tc_slots[c][i]
  BY <1>2, <1>3, <1>4, <1>5, Zenon DEF q, u
<1>11. \A c \in Class : \A o, i :
         InSlot(o, c, i)' <=> InSlot(o, c, i) /\ ~ (c = k /\ i = u)
  BY <1>7, <1>8, Zenon
<1> QED
  BY <1>2, <1>3, <1>4, <1>9, <1>10, <1>11, Zenon DEF SlotGot, u, x, q

\* A step of t that moves objects, but none out of a span or into one.
Shuffle(t, r) ==
  /\ Call(t, r) /\ CallShape(r) /\ LockStep(t, r)
  /\ r.sp = None /\ th[t].sp = None
  /\ UNCHANGED <<empty, nonempty, counter, objects, refcount, sizeclass>>
  /\ cache_size' \in [Class -> Nat]
  /\ tc_slots' \in [Class -> Seq(SUBSET Object)]
  /\ out' \subseteq Object
  /\ \A o \in Object : Alone(o)' /\ (Away(o)' <=> Away(o))
  /\ \A o \in r.chain : ClassOf(o) = r.c
  /\ \A o \in r.list : ClassOf(o) = r.v
  /\ \A c \in Class : \A i \in 1 .. UsedSlots(c)' :
       tc_slots'[c][i] # {} /\ \A o \in tc_slots'[c][i] : ClassOf(o) = c

LEMMA ShuffleKept ==
  ASSUME ObjectsInv, NEW t \in Thread, NEW r, Shuffle(t, r)
  PROVE  ObjectsInv'
<1> USE DEF ObjectsInv
<1>1. /\ UNCHANGED <<empty, nonempty, counter, objects, refcount, sizeclass>>
      /\ lock' \in [Class -> Thread \cup {None}] /\ cache_size' \in [Class -> Nat]
      /\ tc_slots' \in [Class -> Seq(SUBSET Object)] /\ out' \subseteq Object
  BY Zenon DEF Shuffle, LockStep
<1>2. /\ Calls' /\ DOMAIN th' = Thread /\ th'[t] = r
      /\ \A u \in Thread \ {t} : th'[u] = th[u]
  BY CallsKept, Zenon DEF Shuffle
<1>3. Typed'
  BY <1>1, <1>2, Zenon DEF Typed
<1>4. LocksHeld'
  BY <1>2, LocksKept, Zenon DEF Shuffle
<1>5. RightClass'
  <2>1. \A o : ClassOf(o)' = ClassOf(o)
    BY <1>1, Zenon DEF ClassOf
  <2>2. \A u \in Thread : /\ \A o \in th'[u].chain : ClassOf(o) = th'[u].c
                          /\ \A o \in th'[u].list : ClassOf(o) = th'[u].v
    <3> TAKE u \in Thread
    <3>1. CASE u = t
      BY <1>2, <3>1, Zenon DEF Shuffle
    <3>2. CASE u # t
      <4>1. th'[u] = th[u]
        BY <1>2, <3>2, Zenon
      <4> QED
        BY <4>1, Zenon DEF RightClass
    <3> QED
      BY <3>1, <3>2
  <2>3. \A c \in Class : \A i \in 1 .. UsedSlots(c)' :
          tc_slots'[c][i] # {} /\ \A o \in tc_slots'[c][i] : ClassOf(o) = c
    BY Zenon DEF Shuffle
  <2> QED
    BY <2>1, <2>2, <2>3, ZenonT(30) DEF RightClass
<1>6. Places'
  <2>1. ASSUME NEW o \in Object PROVE OnePlace(o)'
    <3>1. Alone(o)' /\ (Away(o)' => o \notin objects'[MapObjectToSpan(o)])
      BY <1>1, OnePlaceMeans, Zenon DEF Places, Shuffle
    <3>2. \A c \in Class : \A i : InSlot(o, c, i)' => i \in 1 .. UsedSlots(c)'
      BY Zenon DEF InSlot
    <3> QED
      BY <3>1, <3>2, Zenon DEF Alone, OnePlace
  <2> QED
    BY <2>1, Zenon DEF Places
<1>7. SpansAlone
  <2>1. \A u \in Thread : /\ th'[u].sp = th[u].sp
                          /\ th[u].sp # None => th'[u] = th[u]
    <3>1. r.sp = None /\ th[t].sp = None
      BY Zenon DEF Shuffle
    <3> QED
      BY <1>2, <3>1, Zenon
  <2> QED
    BY <1>1, <2>1, Zenon DEF SpansAlone, Shuffle
<1>8. SpanStates' /\ Counted'
  BY <1>7, SpansKept, Zenon
<1> QED
  BY <1>2, <1>3, <1>4, <1>5, <1>6, <1>8, Zenon

LEMMA InvMeans ==
  ObjectsInv => /\ Typed /\ Calls /\ LocksHeld /\ RightClass /\ Places /\ SpanStates /\ Counted
                /\ \A o \in Object : Alone(o) /\ (Away(o) => o \notin objects[MapObjectToSpan(o)])
                /\ \A t \in Thread : CallShape(th[t])
  BY OnePlaceMeans, Zenon DEF ObjectsInv, Places, Calls

\* The lock of class c is free, or t's own; the other locks of t are none.
LEMMA LockTaken ==
  ASSUME Typed, LocksHeld, NEW t \in Thread, NEW r, NEW c \in Class,
         lock[c] \in {None, t}, lock' = [lock EXCEPT ![c] = t],
         LocksOf(r) = {c}, \A d \in Class \ {c} : lock[d] # t
  PROVE  LockStep(t, r)
<1>1. lock' \in [Class -> Thread \cup {None}]
      /\ lock'[c] = t /\ \A d \in Class \ {c} : lock'[d] = lock[d]
  BY Zenon DEF Typed
<1> QED
  BY <1>1, Zenon DEF LockStep

LEMMA LockKept ==
  ASSUME Typed, LocksHeld, NEW t \in Thread, NEW r, lock' = lock,
         LocksOf(r) = LocksOf(th[t])
  PROVE  LockStep(t, r)
<1>1. lock' \in [Class -> Thread \cup {None}]
  BY Zenon DEF Typed
<1>2. \A c \in Class : lock[c] = t <=> c \in LocksOf(r)
  BY Zenon DEF LocksHeld
<1> QED
  BY <1>1, <1>2, Zenon DEF LockStep

LEMMA LockDropped ==
  ASSUME Typed, LocksHeld, NEW t \in Thread, NEW r, NEW c \in Class,
         lock' = [lock EXCEPT ![c] = None], LocksOf(th[t]) = {c}, LocksOf(r) = {}
  PROVE  LockStep(t, r)
<1>1. lock' \in [Class -> Thread \cup {None}]
      /\ lock'[c] = None /\ \A d \in Class \ {c} : lock'[d] = lock[d]
  BY Zenon DEF Typed
<1>2. \A d \in Class : lock[d] = t <=> d = c
  BY Zenon DEF LocksHeld
<1> QED
  BY <1>1, <1>2, Zenon DEF LockStep

LEMMA NoLocks ==
  ASSUME LocksHeld, NEW t \in Thread, th[t].pc \notin {"evict", "freeing"}
  PROVE  LocksOf(th[t]) = {} /\ \A d \in Class : lock[d] # t
<1>1. LocksOf(th[t]) = {}
  BY Zenon DEF LocksOf
<1> QED
  BY <1>1, Zenon DEF LocksHeld

-----------------------------------------------------------------------------
(* InsertRange.                                                            *)

LEMMA InsertRangeKept ==
  ASSUME CentralInv, NEW t \in Thread, NEW c \in Class, NEW S \in SUBSET out,
         InsertRange(t, c, S)
  PROVE  CentralInv'
<1> USE DEF CentralInv
<1> DEFINE r == [IdleCall EXCEPT !.pc = "insert", !.c = c, !.chain = S]
<1>0. /\ Typed /\ LocksHeld /\ RightClass
      /\ \A o \in Object : Alone(o)
      /\ CallShape(th[t])
  BY InvMeans, Zenon
<1>1. /\ th[t].pc = "idle" /\ S # {} /\ \A o \in S : ClassOf(o) = c
      /\ out' = out \ S /\ Call(t, r)
      /\ UNCHANGED <<lock, cache_size, tc_slots, empty, nonempty, counter, objects, refcount,
                     sizeclass>>
  BY Zenon DEF InsertRange, At, ClassOf, classVars, spanVars
<1>2. th[t] = IdleCall
  BY <1>0, <1>1, Zenon DEF CallShape
<1>3. S \subseteq Object /\ out \subseteq Object
  BY <1>0, Zenon DEF Typed
<1>4. /\ r \in CallRecord /\ r.pc = "insert" /\ r.c = c /\ r.chain = S /\ r.list = {}
      /\ r.n = 0 /\ r.sp = None
  <2>1. "insert" \in PCs /\ IdleCall \in CallRecord
    BY IdleShape, Zenon DEF PCs, CallShape
  <2>2. IdleCall.n = 0
    BY DEF IdleCall
  <2> QED
    BY <1>3, <2>1, <2>2, IdleFacts, Zenon DEF CallRecord
<1> HIDE DEF r
<1>5. CallShape(r)
  BY <1>1, <1>4, SMTT(30) DEF CallShape
<1>6. LockStep(t, r)
  <2>1. LocksOf(r) = {}
    BY <1>4, SMTT(30) DEF LocksOf
  <2> QED
    BY <1>0, <1>1, <1>2, <2>1, IdleFacts, LockKept, Zenon
<1>7. /\ th'[t] = r /\ \A u \in Thread \ {t} : th'[u] = th[u]
  BY <1>0, <1>1, <1>5, CallsKept, InvMeans, Zenon
<1>8. /\ \A o, u : u \in Thread \ {t} => (InCall(o, u)' <=> InCall(o, u))
      /\ \A o : InCall(o, t)' <=> o \in S
      /\ \A o : ~ InCall(o, t)
  BY <1>2, <1>4, <1>7, IdleFacts, Zenon DEF InCall
<1>9. \A o, d, i : InSlot(o, d, i)' <=> InSlot(o, d, i)
  BY <1>1, Zenon DEF InSlot, UsedSlots
<1>10. ASSUME NEW o \in Object PROVE Alone(o)' /\ (Away(o)' <=> Away(o))
  <2>1. Alone(o)
    BY <1>0, Zenon
  <2>2. Away(o)' <=> o \in out' \/ (\E u \in Thread : InCall(o, u)') \/ Cached(o)'
    BY Zenon DEF Away, Cached, InSlot
  <2>3. Cached(o)' <=> Cached(o)
    BY <1>9, Zenon DEF Cached
  <2>4. Away(o)' <=> Away(o)
    BY <1>1, <1>8, <2>2, <2>3, AwayMeans, Zenon
  <2>5. \A u \in Thread : ~ (o \in th'[u].chain /\ o \in th'[u].list)
    BY <1>4, <1>7, <2>1, Zenon DEF Alone, InCall
  <2>6. Alone(o)'
    BY <1>1, <1>8, <1>9, <2>1, <2>5, Zenon DEF Alone
  <2> QED
    BY <2>4, <2>6
<1>11. Shuffle(t, r)
  <2>1. \A d \in Class : \A i \in 1 .. UsedSlots(d)' :
          tc_slots'[d][i] # {} /\ \A o \in tc_slots'[d][i] : ClassOf(o) = d
    BY <1>0, <1>1, Zenon DEF RightClass, UsedSlots
  <2>2. th[t].sp = None
    BY <1>2, IdleFacts, Zenon
  <2> QED
    BY <1>0, <1>1, <1>3, <1>4, <1>5, <1>6, <1>10, <2>1, <2>2, Zenon DEF Shuffle, Typed
<1>12. ObjectsInv'
  BY <1>11, ShuffleKept, Zenon
<1>13. CacheFits'
  BY <1>1, SameCaches, Zenon
<1>14. EntriesConserved'
  <2>1. \A u \in Thread : Stolen(u)' => Stolen(u)
    <3>1. ~ Stolen(t)'
      BY <1>4, <1>7, SMTT(30) DEF Stolen
    <3> QED
      BY <1>7, <3>1, Zenon DEF Stolen
  <2> QED
    BY <1>1, <2>1, EntriesKept, Zenon
<1> QED
  BY <1>12, <1>13, <1>14

\* The chain goes to a slot, and the call is over.
LEMMA PutKept ==
  ASSUME ObjectsInv, NEW t \in Thread, th[t].pc \in {"insert", "reinsert"}, PutInSlot(t),
         NEW k, k = th[t].c, NEW x, x = th[t].chain,
         lock' = lock, cache_size' \in [Class -> Nat],
         UNCHANGED <<empty, nonempty, counter, objects, refcount, sizeclass, out>>
  PROVE  /\ ObjectsInv' /\ SlotPut(k, x)
         /\ th'[t] = IdleCall /\ \A u \in Thread \ {t} : th'[u] = th[u]
<1> DEFINE n == UsedSlots(k) + 1
<1>0. /\ Typed /\ LocksHeld /\ RightClass
      /\ \A o \in Object : Alone(o)
      /\ CallShape(th[t])
  BY InvMeans, Zenon
<1>1. /\ k \in Class /\ x \in SUBSET Object /\ x # {} /\ th[t].list = {} /\ th[t].sp = None
  BY <1>0, SMTT(30) DEF CallShape, CallRecord
<1>2. Call(t, IdleCall) /\ tc_slots' = [tc_slots EXCEPT ![k] = Append(@, x)]
  BY Zenon DEF PutInSlot
<1>3. SlotPut(k, x)
  BY <1>0, <1>1, <1>2, PutFacts, Zenon
<1>4. /\ th'[t] = IdleCall /\ \A u \in Thread \ {t} : th'[u] = th[u]
  BY <1>0, <1>2, CallsKept, IdleShape, InvMeans, Zenon
<1>5. LockStep(t, IdleCall)
  <2>1. LocksOf(th[t]) = {}
    BY SMTT(30) DEF LocksOf
  <2> QED
    BY <1>0, <2>1, IdleFacts, LockKept, Zenon
<1>6. /\ \A o, u : u \in Thread \ {t} => (InCall(o, u)' <=> InCall(o, u))
      /\ \A o : ~ InCall(o, t)'
      /\ \A o : InCall(o, t) <=> o \in x
  BY <1>1, <1>4, IdleFacts, Zenon DEF InCall
<1>7. /\ \A c \in Class : \A o, i :
           InSlot(o, c, i)' <=> InSlot(o, c, i) \/ (c = k /\ i = n /\ o \in x)
      /\ \A o, i : InSlot(o, k, i) => i # n
  BY <1>3, Zenon DEF SlotPut
<1> HIDE DEF n
<1>8. ASSUME NEW o \in Object PROVE Alone(o)' /\ (Away(o)' <=> Away(o))
  <2>1. Alone(o)
    BY <1>0, Zenon
  <2>2. Away(o)' <=> o \in out' \/ (\E u \in Thread : InCall(o, u)') \/ Cached(o)'
    BY Zenon DEF Away, Cached, InSlot
  <2>3. Cached(o)' <=> Cached(o) \/ o \in x
    <3>1. Cached(o)' <=> \E c \in Class : \E i : InSlot(o, c, i)'
      BY Zenon DEF Cached, InSlot, UsedSlots
    <3> QED
      BY <1>1, <1>7, <3>1, Zenon DEF Cached
  <2>4. Away(o)' <=> Away(o)
    BY <1>6, <2>2, <2>3, AwayMeans, Zenon
  <2>5. \A u \in Thread : ~ (o \in th'[u].chain /\ o \in th'[u].list)
    BY <1>4, <2>1, IdleFacts, Zenon DEF Alone, InCall
  <2>6. \A u \in Thread : InCall(o, u)' =>
           /\ o \notin out' /\ \A v \in Thread : InCall(o, v)' => u = v
    BY <1>6, <2>1, Zenon DEF Alone
  <2>7. ASSUME NEW c \in Class, NEW i, InSlot(o, c, i)'
        PROVE  /\ o \notin out' /\ \A u \in Thread : ~ InCall(o, u)'
               /\ \A d \in Class : \A j : InSlot(o, d, j)' => c = d /\ i = j
    <3>1. CASE o \in x
      <4>1. o \notin out /\ \A u \in Thread : InCall(o, u) => u = t
        BY <1>6, <2>1, <3>1, Zenon DEF Alone
      <4>2. \A d \in Class : \A j : ~ InSlot(o, d, j)
        BY <1>6, <2>1, <3>1, Zenon DEF Alone
      <4>3. o \notin out' /\ \A u \in Thread : ~ InCall(o, u)'
        <5> SUFFICES ASSUME NEW u \in Thread PROVE ~ InCall(o, u)'
          BY <4>1, Zenon
        <5>1. CASE u = t
          BY <1>6, <5>1, Zenon
        <5>2. CASE u # t
          BY <1>6, <4>1, <5>2, Zenon
        <5> QED
          BY <5>1, <5>2
      <4>4. \A d \in Class : \A j : InSlot(o, d, j)' => d = k /\ j = n
        BY <1>7, <4>2, Zenon
      <4>5. ASSUME NEW d \in Class, NEW j, InSlot(o, d, j)' PROVE c = d /\ i = j
        <5>1. c = k /\ i = n
          BY <2>7, <4>4, Zenon
        <5>2. d = k /\ j = n
          BY <4>4, <4>5, Zenon
        <5> QED
          BY <5>1, <5>2
      <4> QED
        BY <4>3, <4>5, Zenon
    <3>2. CASE o \notin x
      <4>1. InSlot(o, c, i) /\ \A d \in Class : \A j : InSlot(o, d, j)' => InSlot(o, d, j)
        BY <1>7, <2>7, <3>2, Zenon
      <4> QED
        BY <1>6, <2>1, <4>1, ZenonT(30) DEF Alone
    <3> QED
      BY <3>1, <3>2
  <2>8. Alone(o)'
    BY <2>5, <2>6, <2>7, Zenon DEF Alone
  <2> QED
    BY <2>4, <2>8
<1>9. Shuffle(t, IdleCall)
  <2>1. \A d \in Class : \A i \in 1 .. UsedSlots(d)' :
          tc_slots'[d][i] # {} /\ \A o \in tc_slots'[d][i] : ClassOf(o) = d
    <3>1. \A d \in Class : \A i \in 1 .. UsedSlots(d)' :
           \/ d = k /\ tc_slots'[d][i] = x
           \/ i \in 1 .. UsedSlots(d) /\ tc_slots'[d][i] = tc_slots[d][i]
      BY <1>3, Zenon DEF SlotPut
    <3>2. \A o \in x : ClassOf(o) = k
      BY <1>0, Zenon DEF RightClass
    <3>3. \A d \in Class : \A i \in 1 .. UsedSlots(d) :
            tc_slots[d][i] # {} /\ \A o \in tc_slots[d][i] : ClassOf(o) = d
      BY <1>0, Zenon DEF RightClass
    <3> SUFFICES ASSUME NEW d \in Class, NEW i \in 1 .. UsedSlots(d)'
                 PROVE  tc_slots'[d][i] # {} /\ \A o \in tc_slots'[d][i] : ClassOf(o) = d
      BY Zenon
    <3>4. CASE d = k /\ tc_slots'[d][i] = x
      BY <1>1, <3>2, <3>4, Zenon
    <3>5. CASE i \in 1 .. UsedSlots(d) /\ tc_slots'[d][i] = tc_slots[d][i]
      BY <3>3, <3>5, Zenon
    <3> QED
      BY <3>1, <3>4, <3>5, Zenon
  <2>2. tc_slots' \in [Class -> Seq(SUBSET Object)]
    BY <1>3, Zenon DEF SlotPut
  <2>3. out' \subseteq Object
    BY <1>0, Zenon DEF Typed
  <2> QED
    BY <1>0, <1>1, <1>2, <1>5, <1>8, <2>1, <2>2, <2>3, IdleFacts, IdleShape, Zenon DEF Shuffle
<1> QED
  BY <1>3, <1>4, <1>9, ShuffleKept, Zenon

\* The chain goes to the call's own list: ReleaseListToSpans begins.
LEMMA ReleaseChainStill ==
  ASSUME ObjectsInv, NEW t \in Thread, th[t].pc \in {"insert", "evict", "reinsert"},
         Call(t, ReleaseChain(th[t])), LockStep(t, ReleaseChain(th[t])),
         UNCHANGED <<cache_size, tc_slots, empty, nonempty, counter, objects, refcount,
                     sizeclass, out>>
  PROVE  Still(t, ReleaseChain(th[t])) /\ ~ Stolen(t)'
<1>0. Typed /\ RightClass /\ CallShape(th[t]) /\ Calls
  BY InvMeans, Zenon
<1> DEFINE q == ReleaseChain(th[t])
<1>1. /\ CallShape(q) /\ q.pc = "freeing" /\ q.v = th[t].c /\ q.c = th[t].c
      /\ q.list = th[t].chain /\ q.chain = {} /\ q.sp = None
  BY <1>0, ReleaseChainShape, Zenon
<1>2. th[t].sp = None /\ th[t].list = {}
  BY <1>0, SMTT(30) DEF CallShape
<1> HIDE DEF q
<1>3. \A o \in q.list : ClassOf(o) = q.v
  BY <1>0, <1>1, Zenon DEF RightClass
<1>4. th'[t] = q
  BY <1>0, <1>1, CallsKept, Zenon DEF q
<1>5. ~ Stolen(t)'
  BY <1>1, <1>4, SMTT(30) DEF Stolen
<1>6. cache_size' \in [Class -> Nat]
  BY <1>0, Zenon DEF Typed
<1> QED
  BY <1>1, <1>2, <1>3, <1>5, <1>6, Zenon DEF Still, q

\* A failed eviction: another one is forced, or the chain is released.
LEMMA FailedStill ==
  ASSUME ObjectsInv, NEW t \in Thread, th[t].pc \in {"evict", "reinsert"},
         Call(t, Failed(th[t])), LockStep(t, Failed(th[t])),
         UNCHANGED <<cache_size, tc_slots, empty, nonempty, counter, objects, refcount,
                     sizeclass, out>>
  PROVE  Still(t, Failed(th[t])) /\ ~ Stolen(t)'
<1> DEFINE r == th[t]
           q == [r EXCEPT !.pc = "evict", !.force = TRUE]
<1>0. Typed /\ RightClass /\ CallShape(th[t]) /\ Calls
  BY InvMeans, Zenon
<1>1. CASE r.force
  <2>1. Failed(r) = ReleaseChain(r)
    BY <1>1, Zenon DEF Failed
  <2>2. th[t].pc \in {"insert", "evict", "reinsert"}
    OBVIOUS
  <2> QED
    BY <2>1, <2>2, ReleaseChainStill, Zenon
<1>2. CASE ~ r.force
  <2>1. Failed(r) = q
    BY <1>2, Zenon DEF Failed
  <2>2. /\ CallShape(q) /\ q.pc = "evict" /\ q.c = r.c /\ q.v = r.v
        /\ q.list = r.list /\ q.chain = r.chain /\ q.sp = None
    BY <1>0, RetriesShape, Zenon
  <2>3. r.sp = None /\ r.list = {}
    BY <1>0, SMTT(30) DEF CallShape
  <2> HIDE DEF q
  <2>4. th'[t] = q
    BY <1>0, <2>1, <2>2, CallsKept, Zenon
  <2>5. ~ Stolen(t)'
    BY <2>2, <2>4, SMTT(30) DEF Stolen
  <2>6. cache_size' \in [Class -> Nat]
    BY <1>0, Zenon DEF Typed
  <2>7. \A o \in q.chain : ClassOf(o) = q.c
    BY <1>0, <2>2, Zenon DEF RightClass
  <2> QED
    BY <2>1, <2>2, <2>3, <2>5, <2>6, <2>7, Zenon DEF Still
<1> QED
  BY <1>1, <1>2

\* Steps that leave the caches alone and steal no entry.
LEMMA StillInv ==
  ASSUME CentralInv, NEW t \in Thread, NEW r, Still(t, r), cache_size' = cache_size,
         Stolen(t)' => Stolen(t)
  PROVE  CentralInv'
<1> USE DEF CentralInv
<1>1. ObjectsInv'
  BY StillKept, Zenon
<1>2. tc_slots' = tc_slots /\ Call(t, r) /\ CallShape(r)
  BY Zenon DEF Still
<1>3. CacheFits'
  BY <1>2, SameCaches, Zenon
<1>4. \A u \in Thread \ {t} : th'[u] = th[u]
  BY <1>2, CallsKept, InvMeans, Zenon
<1>5. \A u \in Thread : Stolen(u)' => Stolen(u)
  BY <1>4, Zenon DEF Stolen
<1>6. EntriesConserved'
  BY <1>5, EntriesKept, Zenon
<1> QED
  BY <1>1, <1>3, <1>6

\* The last chain of the slots of class k goes to the call's list or out.
Taken(t, q, k) ==
  LET x == TopSlot(tc_slots[k])
  IN  /\ tc_slots' = [tc_slots EXCEPT ![k] = SlotsBelow(@)]
      /\ Call(t, q) /\ CallShape(q) /\ LockStep(t, q)
      /\ q.sp = None /\ th[t].sp = None /\ q.chain = th[t].chain /\ th[t].list = {}
      /\ q.c = th[t].c \/ q.chain = {}
      /\ \/ q.list = x /\ q.v = k /\ out' = out
         \/ q.list = {} /\ out' = out \cup x
      /\ cache_size' \in [Class -> Nat]
      /\ UNCHANGED <<empty, nonempty, counter, objects, refcount, sizeclass>>

LEMMA TakenKept ==
  ASSUME ObjectsInv, NEW t \in Thread, NEW q, NEW k \in Class, UsedSlots(k) > 0, Taken(t, q, k)
  PROVE  /\ ObjectsInv' /\ SlotGot(k)
         /\ th'[t] = q /\ \A u \in Thread \ {t} : th'[u] = th[u]
<1> DEFINE x == TopSlot(tc_slots[k])
           n == UsedSlots(k)
<1>0. /\ Typed /\ LocksHeld /\ RightClass /\ Calls
      /\ \A o \in Object : Alone(o)
  BY InvMeans, Zenon
<1>1. /\ tc_slots' = [tc_slots EXCEPT ![k] = SlotsBelow(@)]
      /\ Call(t, q) /\ CallShape(q) /\ LockStep(t, q)
      /\ q.sp = None /\ th[t].sp = None /\ q.chain = th[t].chain /\ th[t].list = {}
      /\ q.c = th[t].c \/ q.chain = {}
      /\ \/ q.list = x /\ q.v = k /\ out' = out
         \/ q.list = {} /\ out' = out \cup x
      /\ cache_size' \in [Class -> Nat]
      /\ UNCHANGED <<empty, nonempty, counter, objects, refcount, sizeclass>>
  BY Zenon DEF Taken
<1>2. SlotGot(k)
  BY <1>0, <1>1, GotFacts, Zenon
<1>3. /\ th'[t] = q /\ \A u \in Thread \ {t} : th'[u] = th[u]
  BY <1>0, <1>1, CallsKept, Zenon
<1>4. /\ \A c \in Class : \A o, i :
           InSlot(o, c, i) <=> InSlot(o, c, i)' \/ (c = k /\ i = n /\ o \in x)
      /\ \A c \in Class : \A o, i : InSlot(o, c, i)' => ~ (c = k /\ i = n)
      /\ x \in SUBSET Object
  BY <1>2, Zenon DEF SlotGot
<1>5. /\ \A o, u : u \in Thread \ {t} => (InCall(o, u)' <=> InCall(o, u))
      /\ \A o : InCall(o, t)' <=> InCall(o, t) \/ o \in q.list
  BY <1>1, <1>3, Zenon DEF InCall
<1> HIDE DEF x, n
<1>6. ASSUME NEW o \in Object, o \in x
      PROVE  /\ o \notin out /\ \A u \in Thread : ~ InCall(o, u)
             /\ \A d \in Class : \A j : ~ InSlot(o, d, j)'
  <2>1. InSlot(o, k, n)
    BY <1>4, <1>6, Zenon
  <2>2. Alone(o)
    BY <1>0, Zenon
  <2>3. /\ o \notin out /\ \A u \in Thread : ~ InCall(o, u)
        /\ \A d \in Class : \A j : InSlot(o, d, j) => k = d /\ n = j
    BY <2>1, <2>2, Zenon DEF Alone
  <2>4. ASSUME NEW d \in Class, NEW j, InSlot(o, d, j)' PROVE FALSE
    <3>1. InSlot(o, d, j)
      BY <1>4, <2>4, Zenon
    <3>2. d = k /\ j = n
      BY <2>3, <3>1, Zenon
    <3> QED
      BY <1>4, <2>4, <3>2, Zenon
  <2> QED
    BY <2>3, <2>4, Zenon
<1>7. ASSUME NEW o \in Object PROVE Away(o)' <=> Away(o)
  <2>1. Away(o)' <=> o \in out' \/ (\E u \in Thread : InCall(o, u)') \/ Cached(o)'
    BY Zenon DEF Away, Cached, InSlot
  <2>2. Cached(o) <=> Cached(o)' \/ o \in x
    <3>1. Cached(o)' <=> \E c \in Class : \E i : InSlot(o, c, i)'
      BY Zenon DEF Cached, InSlot, UsedSlots
    <3> QED
      BY <1>4, <3>1, Zenon DEF Cached
  <2>3. (\E u \in Thread : InCall(o, u)') <=> (\E u \in Thread : InCall(o, u)) \/ o \in q.list
    BY <1>5, Zenon
  <2> QED
    BY <1>1, <2>1, <2>2, <2>3, AwayMeans, Zenon
<1>8. ASSUME NEW o \in Object PROVE Alone(o)'
  <2>1. Alone(o)
    BY <1>0, Zenon
  <2>2. CASE o \in x
    <3>1. /\ o \notin out /\ \A u \in Thread : ~ InCall(o, u)
          /\ \A d \in Class : \A j : ~ InSlot(o, d, j)'
      BY <1>6, <2>2, Zenon
    <3>2. \A u \in Thread \ {t} : ~ InCall(o, u)'
      BY <1>5, <3>1, Zenon
    <3>3. InCall(o, t)' => o \in q.list /\ o \notin out' /\ o \notin th'[t].chain
      BY <1>1, <1>3, <1>5, <3>1, Zenon DEF InCall
    <3> QED
      BY <3>1, <3>2, <3>3, Zenon DEF Alone
  <2>3. CASE o \notin x
    <3>1. o \notin q.list /\ (o \in out' <=> o \in out)
      BY <1>1, <2>3, Zenon
    <3>2. \A u \in Thread : InCall(o, u)' <=> InCall(o, u)
      BY <1>5, <3>1, Zenon
    <3>3. \A c \in Class : \A i : InSlot(o, c, i)' <=> InSlot(o, c, i)
      BY <1>4, <2>3, Zenon
    <3>4. \A u \in Thread : th'[u].chain = th[u].chain /\ (o \in th'[u].list => o \in th[u].list)
      BY <1>1, <1>3, <3>1, Zenon
    <3>5. ASSUME NEW u \in Thread, InCall(o, u)'
          PROVE  /\ o \notin out' /\ ~ (o \in th'[u].chain /\ o \in th'[u].list)
                 /\ \A v \in Thread : InCall(o, v)' => u = v
      <4>1. /\ o \notin out /\ ~ (o \in th[u].chain /\ o \in th[u].list)
            /\ \A v \in Thread : InCall(o, v) => u = v
        BY <2>1, <3>2, <3>5, Zenon DEF Alone
      <4> QED
        BY <3>1, <3>2, <3>4, <4>1, Zenon
    <3>6. ASSUME NEW c \in Class, NEW i, InSlot(o, c, i)'
          PROVE  /\ o \notin out' /\ \A u \in Thread : ~ InCall(o, u)'
                 /\ \A d \in Class : \A j : InSlot(o, d, j)' => c = d /\ i = j
      <4>1. /\ o \notin out /\ \A u \in Thread : ~ InCall(o, u)
            /\ \A d \in Class : \A j : InSlot(o, d, j) => c = d /\ i = j
        BY <2>1, <3>3, <3>6, Zenon DEF Alone
      <4> QED
        BY <3>1, <3>2, <3>3, <4>1, Zenon
    <3> QED
      BY <3>5, <3>6, Zenon DEF Alone
  <2> QED
    BY <2>2, <2>3
<1>9. Shuffle(t, q)
  <2>1. \A d \in Class : \A i \in 1 .. UsedSlots(d)' :
          tc_slots'[d][i] # {} /\ \A o \in tc_slots'[d][i] : ClassOf(o) = d
    <3>1. \A d \in Class : \A i \in 1 .. UsedSlots(d)' :
            i \in 1 .. UsedSlots(d) /\ tc_slots'[d][i] = tc_slots[d][i]
      BY <1>2, Zenon DEF SlotGot
    <3> SUFFICES ASSUME NEW d \in Class, NEW i \in 1 .. UsedSlots(d)'
                 PROVE  tc_slots'[d][i] # {} /\ \A o \in tc_slots'[d][i] : ClassOf(o) = d
      BY Zenon
    <3>2. i \in 1 .. UsedSlots(d) /\ tc_slots'[d][i] = tc_slots[d][i]
      BY <3>1, Zenon
    <3>3. tc_slots[d][i] # {} /\ \A o \in tc_slots[d][i] : ClassOf(o) = d
      BY <1>0, <3>2, Zenon DEF RightClass
    <3> QED
      BY <3>2, <3>3, Zenon
  <2>2. tc_slots' \in [Class -> Seq(SUBSET Object)]
    BY <1>2, Zenon DEF SlotGot
  <2>3. out' \subseteq Object
    BY <1>0, <1>1, <1>4, Zenon DEF Typed
  <2>4. \A o \in q.chain : ClassOf(o) = q.c
    BY <1>0, <1>1, Zenon DEF RightClass
  <2>5. \A o \in x : ClassOf(o) = k
    <3>1. n \in 1 .. UsedSlots(k) /\ x = tc_slots[k][n]
      BY <1>0, SlotTaken, Zenon DEF Typed, UsedSlots, n, x
    <3> QED
      BY <1>0, <3>1, Zenon DEF RightClass
  <2>6. \A o \in q.list : ClassOf(o) = q.v
    BY <1>1, <2>5, Zenon
  <2> QED
    BY <1>1, <1>7, <1>8, <2>1, <2>2, <2>3, <2>4, <2>6, Zenon DEF Shuffle
<1> QED
  BY <1>2, <1>3, <1>9, ShuffleKept, Zenon

LEMMA InsertLockedKept ==
  ASSUME CentralInv, NEW t \in Thread, InsertLocked(t)
  PROVE  CentralInv'
<1> USE DEF CentralInv
<1>k. PICK k : k = th[t].c
  OBVIOUS
<1> DEFINE r == th[t]
           q == [r EXCEPT !.pc = "evict"]
<1>0. /\ Typed /\ LocksHeld /\ RightClass /\ Calls /\ CallShape(th[t])
  BY InvMeans, Zenon
<1>1. /\ th[t].pc = "insert" /\ lock[k] = None
      /\ UNCHANGED <<empty, nonempty, counter, objects, refcount, sizeclass, out>>
  BY <1>k, Zenon DEF InsertLocked, At, CanLock, spanVars
<1>2. /\ k \in Class /\ r \in CallRecord /\ r.list = {} /\ r.sp = None /\ r.chain # {} /\ r.n = 0
  BY <1>k, <1>0, <1>1, SMTT(30) DEF CallShape, CallRecord
<1>3. \A d \in Class : lock[d] # t
  BY <1>0, <1>1, NoLocks, SMTT(30)
<1>4. ~ Stolen(t)
  BY <1>1, SMTT(30) DEF Stolen
<1>5. CASE UsedSlots(k) < cache_size[k] /\ PutInSlot(t) /\ UNCHANGED <<lock, cache_size>>
  <2>1. /\ th[t].pc \in {"insert", "reinsert"} /\ lock' = lock /\ cache_size' = cache_size
        /\ cache_size' \in [Class -> Nat]
    BY <1>0, <1>1, <1>5, Zenon DEF Typed
  <2>x. PICK x : x = r.chain
    OBVIOUS
  <2>2. /\ ObjectsInv' /\ SlotPut(k, x)
        /\ th'[t] = IdleCall /\ \A u \in Thread \ {t} : th'[u] = th[u]
    BY <1>k, <1>1, <1>5, <2>x, <2>1, PutKept, Zenon
  <2>3. CacheFits'
    <3>1. /\ UsedSlots(k) \in Nat /\ UsedSlots(k)' = UsedSlots(k) + 1
          /\ \A c \in Class \ {k} : UsedSlots(c)' = UsedSlots(c)
      BY <2>2, Zenon DEF SlotPut
    <3>2. cache_size \in [Class -> Nat]
      BY <1>0, Zenon DEF Typed
    <3>3. UsedSlots(k)' <= cache_size[k]
      BY <1>2, <1>5, <3>1, <3>2, SMTT(30)
    <3>4. ASSUME NEW c \in Class
          PROVE  UsedSlots(c)' <= cache_size[c] /\ cache_size[c] <= MaxCacheSize[c]
      <4>1. CASE c = k
        BY <3>3, <4>1, Zenon DEF CacheFits, UsedSlots
      <4>2. CASE c # k
        BY <3>1, <4>2, Zenon DEF CacheFits
      <4> QED
        BY <4>1, <4>2
    <3> QED
      BY <2>1, <3>4, Zenon DEF CacheFits
  <2>4. ~ Stolen(t)'
    BY <2>2, IdleFacts, SMTT(30) DEF Stolen
  <2>5. \A u \in Thread : Stolen(u)' => Stolen(u)
    BY <2>2, <2>4, Zenon DEF Stolen
  <2>6. EntriesConserved'
    BY <2>1, <2>5, EntriesKept, Zenon
  <2> QED
    BY <2>2, <2>3, <2>6
<1>6. CASE Holding(t, k, q) /\ UNCHANGED <<cache_size, tc_slots>>
  <2>1. "evict" \in PCs
    BY Zenon DEF PCs
  <2>2. /\ q \in CallRecord /\ q.pc = "evict" /\ q.c = r.c /\ q.v = r.v /\ q.list = r.list
        /\ q.chain = r.chain /\ q.sp = r.sp /\ q.n = r.n
    BY <1>2, <2>1, Zenon DEF CallRecord
  <2> HIDE DEF q
  <2>3. CallShape(q) /\ LocksOf(q) = {k}
    BY <1>2, <1>k, <2>2, SMTT(30) DEF CallShape, LocksOf
  <2>4. Call(t, q) /\ LockStep(t, q)
    BY <1>0, <1>1, <1>2, <1>3, <1>6, <2>3, LockTaken, Zenon DEF Holding
  <2>5. th'[t] = q
    BY <1>0, <2>3, <2>4, CallsKept, Zenon
  <2>6. ~ Stolen(t)'
    BY <2>2, <2>5, SMTT(30) DEF Stolen
  <2>7. \A o \in q.chain : ClassOf(o) = q.c
    BY <1>0, <2>2, Zenon DEF RightClass
  <2>8. Still(t, q)
    BY <1>0, <1>1, <1>2, <1>6, <2>2, <2>3, <2>4, <2>7, Zenon DEF Still, Typed
  <2> QED
    BY <1>6, <2>6, <2>8, StillInv, Zenon
<1>7. CASE Holding(t, k, ReleaseChain(r)) /\ UNCHANGED <<cache_size, tc_slots>>
  <2>0. th[t].pc \in {"insert", "evict", "reinsert"}
    BY <1>1
  <2>1. ReleaseChain(r).pc = "freeing" /\ ReleaseChain(r).v = k
    BY <1>k, <1>0, <2>0, ReleaseChainShape, Zenon
  <2>2. LocksOf(ReleaseChain(r)) = {k}
    BY <2>1, SMTT(30) DEF LocksOf
  <2>3. Call(t, ReleaseChain(r)) /\ LockStep(t, ReleaseChain(r))
    BY <1>0, <1>1, <1>2, <1>3, <1>7, <2>2, LockTaken, Zenon DEF Holding
  <2>4. Still(t, ReleaseChain(r)) /\ ~ Stolen(t)'
    BY <1>1, <1>7, <2>0, <2>3, ReleaseChainStill, Zenon
  <2> QED
    BY <1>7, <2>4, StillInv, Zenon
<1> QED
  BY <1>k, <1>5, <1>6, <1>7, Zenon DEF InsertLocked, classVars

LEMMA EvictKept ==
  ASSUME CentralInv, NEW t \in Thread, EvictRandomSizeClass(t)
  PROVE  CentralInv'
<1> USE DEF CentralInv
<1> DEFINE r == th[t]
           k == th[t].c
<1>0. /\ Typed /\ LocksHeld /\ RightClass /\ Calls /\ CallShape(th[t])
  BY InvMeans, Zenon
<1>1. /\ th[t].pc = "evict"
      /\ UNCHANGED <<cache_size, tc_slots, empty, nonempty, counter, objects, refcount,
                     sizeclass, out>>
  BY Zenon DEF EvictRandomSizeClass, At, spanVars, classVars
<1>2. /\ k \in Class /\ r \in CallRecord /\ r.list = {} /\ r.sp = None /\ r.chain # {} /\ r.n = 0
  BY <1>0, <1>1, SMTT(30) DEF CallShape, CallRecord
<1>3. LocksOf(r) = {k} /\ ~ Stolen(t)
  BY <1>1, SMTT(30) DEF LocksOf, Stolen
<1>4. PICK v \in Class :
        \/ Call(t, Failed(r)) /\ UNCHANGED lock
        \/ /\ lock' = [lock EXCEPT ![r.c] = None]
           /\ Call(t, [r EXCEPT !.pc = "shrink", !.v = v])
  BY Zenon DEF EvictRandomSizeClass
<1>5. CASE Call(t, Failed(r)) /\ UNCHANGED lock
  <2>1. th[t].pc \in {"evict", "reinsert"} /\ th[t].pc \in {"insert", "evict", "reinsert"}
    BY <1>1
  <2>2. LocksOf(Failed(r)) = {k}
    <3>1. CASE r.force
      <4>1. Failed(r).pc = "freeing" /\ Failed(r).v = k
        BY <1>0, <2>1, <3>1, ReleaseChainShape, Zenon DEF Failed
      <4> QED
        BY <4>1, SMTT(30) DEF LocksOf
    <3>2. CASE ~ r.force
      <4>1. Failed(r).pc = "evict" /\ Failed(r).c = k
        BY <1>0, <2>1, <3>2, RetriesShape, Zenon DEF Failed
      <4> QED
        BY <4>1, SMTT(30) DEF LocksOf
    <3> QED
      BY <3>1, <3>2
  <2>3. LockStep(t, Failed(r))
    BY <1>0, <1>3, <1>5, <2>2, LockKept, Zenon
  <2>4. Still(t, Failed(r)) /\ ~ Stolen(t)'
    BY <1>1, <1>5, <2>1, <2>3, FailedStill, Zenon
  <2> QED
    BY <1>1, <2>4, StillInv, Zenon
<1>6. CASE /\ lock' = [lock EXCEPT ![r.c] = None]
           /\ Call(t, [r EXCEPT !.pc = "shrink", !.v = v])
  <2> DEFINE q == [r EXCEPT !.pc = "shrink", !.v = v]
  <2>1. "shrink" \in PCs
    BY Zenon DEF PCs
  <2>2. /\ q \in CallRecord /\ q.pc = "shrink" /\ q.c = r.c /\ q.v = v /\ q.list = r.list
        /\ q.chain = r.chain /\ q.sp = r.sp /\ q.n = r.n
    BY <1>2, <2>1, Zenon DEF CallRecord
  <2> HIDE DEF q
  <2>3. CallShape(q) /\ LocksOf(q) = {}
    BY <1>2, <2>2, SMTT(30) DEF CallShape, LocksOf
  <2>4. Call(t, q) /\ LockStep(t, q)
    BY <1>0, <1>2, <1>3, <1>6, <2>3, LockDropped, Zenon DEF q
  <2>5. th'[t] = q
    BY <1>0, <2>3, <2>4, CallsKept, Zenon
  <2>6. ~ Stolen(t)'
    BY <2>2, <2>5, SMTT(30) DEF Stolen
  <2>7. \A o \in q.chain : ClassOf(o) = q.c
    <3>1. \A o \in r.chain : ClassOf(o) = r.c
      BY <1>0, Zenon DEF RightClass
    <3> QED
      BY <2>2, <3>1, Zenon
  <2>8. Still(t, q)
    BY <1>0, <1>1, <1>2, <2>2, <2>3, <2>4, <2>7, Zenon DEF Still, Typed
  <2> QED
    BY <1>1, <2>6, <2>8, StillInv, Zenon
<1> QED
  BY <1>4, <1>5, <1>6, Zenon

\* A class with one entry more: the sets of entries differ by that one.
LEMMA OneEntryMore ==
  ASSUME NEW f \in [Class -> Nat], NEW g \in [Class -> Nat], NEW c \in Class,
         f[c] = g[c] + 1, f[c] <= kMaxNumTransferEntries,
         \A d \in Class \ {c} : f[d] = g[d]
  PROVE  Cardinality(Entries(f)) = Cardinality(Entries(g)) + 1
<1> DEFINE e == <<c, f[c]>>
<1>1. g[c] \in Nat /\ f[c] \in Nat /\ f[c] \in 1 .. kMaxNumTransferEntries /\ ~ (f[c] <= g[c])
  BY CentralAssumption, SMTT(30)
<1>2. e \in Class \X (1 .. kMaxNumTransferEntries) /\ e[1] = c /\ e[2] = f[c]
  BY <1>1, SMTT(30)
<1>3. ASSUME NEW x \in Class \X (1 .. kMaxNumTransferEntries)
      PROVE  x[2] <= f[x[1]] <=> x[2] <= g[x[1]] \/ x = e
  <2>1. x[1] \in Class /\ x[2] \in Int /\ (x = e <=> x[1] = c /\ x[2] = f[c])
    BY CentralAssumption, SMTT(30)
  <2>2. CASE x[1] = c
    BY <1>1, <2>1, <2>2, SMTT(30)
  <2>3. CASE x[1] # c
    BY <2>1, <2>3, SMTT(30)
  <2> QED
    BY <2>2, <2>3
<1>4. ~ (e[2] <= g[e[1]])
  BY <1>1, <1>2, Zenon
<1> HIDE DEF e
<1>5. Entries(f) = Entries(g) \cup {e} /\ e \notin Entries(g)
  BY <1>2, <1>3, <1>4, Zenon DEF Entries
<1>6. IsFiniteSet(Entries(g)) /\ Cardinality(Entries(g)) \in Nat
  BY EntrySets, Zenon
<1> QED
  BY <1>5, <1>6, FS_AddElement, Zenon

\* One thread more, or less, has a stolen entry.
LEMMA OneThiefMore ==
  ASSUME NEW A \in SUBSET Thread, NEW B \in SUBSET Thread, NEW t \in Thread,
         t \notin A, t \in B, \A u \in Thread \ {t} : u \in B <=> u \in A
  PROVE  Cardinality(B) = Cardinality(A) + 1 /\ Cardinality(A) \in Nat
<1>1. B = A \cup {t}
  BY Zenon
<1>2. IsFiniteSet(A) /\ Cardinality(A) \in Nat
  BY ThreadSets, Zenon
<1> QED
  BY <1>1, <1>2, FS_AddElement, Zenon

LEMMA EntryTaken ==
  ASSUME Typed, CacheFits, EntriesConserved, NEW t \in Thread, NEW v \in Class,
         ~ Stolen(t), Stolen(t)', \A u \in Thread \ {t} : Stolen(u)' <=> Stolen(u),
         cache_size[v] # 0, cache_size' = [cache_size EXCEPT ![v] = @ - 1]
  PROVE  EntriesConserved' /\ cache_size' \in [Class -> Nat]
<1> DEFINE f == cache_size
           g == cache_size'
           A == {u \in Thread : Stolen(u)}
           B == {u \in Thread : Stolen(u)'}
<1>1. f \in [Class -> Nat] /\ f[v] \in Nat
  BY Zenon DEF Typed
<1>2. f[v] - 1 \in Nat /\ f[v] = f[v] - 1 + 1
  BY <1>1, SMTT(30)
<1>3. g \in [Class -> Nat] /\ g[v] = f[v] - 1 /\ \A d \in Class \ {v} : f[d] = g[d]
  BY <1>1, <1>2, Zenon
<1>4. f[v] <= kMaxNumTransferEntries
  <2>1. f[v] <= MaxCacheSize[v] /\ MaxCacheSize[v] \in 0 .. kMaxNumTransferEntries
    BY CentralAssumption, Zenon DEF CacheFits
  <2> QED
    BY <1>1, <2>1, CentralAssumption, SMTT(30)
<1>5. Cardinality(B) = Cardinality(A) + 1 /\ Cardinality(A) \in Nat
  <2>1. /\ A \in SUBSET Thread /\ B \in SUBSET Thread /\ t \notin A /\ t \in B
        /\ \A u \in Thread \ {t} : u \in B <=> u \in A
    BY Zenon
  <2> HIDE DEF A, B
  <2> QED
    BY <2>1, OneThiefMore, Zenon
<1>6. Cardinality(A) + Cardinality(Entries(f)) <= Cardinality(Entries(CacheSize))
  <2>1. /\ Cardinality(Entries(f)) + Cardinality(A) <= Cardinality(Entries(CacheSize))
        /\ Cardinality(Entries(f)) \in Nat
    BY EntrySets, Zenon DEF EntriesConserved
  <2> HIDE DEF A, f
  <2> QED
    BY <1>5, <2>1, SMTT(30)
<1> HIDE DEF f, g
<1>7. Cardinality(Entries(f)) = Cardinality(Entries(g)) + 1
  BY <1>1, <1>2, <1>3, <1>4, OneEntryMore, Zenon
<1>8. Cardinality(Entries(g)) \in Nat
  BY EntrySets, Zenon
<1>9. Cardinality(Entries(g)) + Cardinality(B) <= Cardinality(Entries(CacheSize))
  <2> HIDE DEF A, B
  <2> QED
    BY <1>5, <1>6, <1>7, <1>8, SMTT(30)
<1> QED
  BY <1>3, <1>9, Zenon DEF EntriesConserved, Entries, g

LEMMA EntryAdded ==
  ASSUME Typed, CacheFits, EntriesConserved, NEW t \in Thread, NEW c \in Class,
         Stolen(t), ~ Stolen(t)', \A u \in Thread \ {t} : Stolen(u)' <=> Stolen(u),
         cache_size[c] < MaxCacheSize[c], cache_size' = [cache_size EXCEPT ![c] = @ + 1]
  PROVE  EntriesConserved' /\ cache_size' \in [Class -> Nat]
<1> DEFINE f == cache_size
           g == cache_size'
           A == {u \in Thread : Stolen(u)}
           B == {u \in Thread : Stolen(u)'}
<1>1. f \in [Class -> Nat] /\ f[c] \in Nat
  BY Zenon DEF Typed
<1>2. f[c] + 1 \in Nat
  BY <1>1, SMTT(30)
<1>3. g \in [Class -> Nat] /\ g[c] = f[c] + 1 /\ \A d \in Class \ {c} : g[d] = f[d]
  BY <1>1, <1>2, Zenon
<1>4. g[c] <= kMaxNumTransferEntries
  <2>1. MaxCacheSize[c] \in 0 .. kMaxNumTransferEntries
    BY CentralAssumption, Zenon
  <2> QED
    BY <1>1, <1>3, <2>1, CentralAssumption, SMTT(30)
<1>5. Cardinality(A) = Cardinality(B) + 1 /\ Cardinality(B) \in Nat
  <2>1. /\ A \in SUBSET Thread /\ B \in SUBSET Thread /\ t \notin B /\ t \in A
        /\ \A u \in Thread \ {t} : u \in A <=> u \in B
    BY Zenon
  <2> HIDE DEF A, B
  <2> QED
    BY <2>1, OneThiefMore, Zenon
<1>6. /\ Cardinality(Entries(f)) + Cardinality(A) <= Cardinality(Entries(CacheSize))
      /\ Cardinality(Entries(f)) \in Nat
  BY EntrySets, Zenon DEF EntriesConserved
<1> HIDE DEF f, g
<1>7. Cardinality(Entries(g)) = Cardinality(Entries(f)) + 1
  BY <1>1, <1>3, <1>4, OneEntryMore, Zenon
<1>8. Cardinality(Entries(g)) + Cardinality(B) <= Cardinality(Entries(CacheSize))
  <2> HIDE DEF A, B
  <2> QED
    BY <1>5, <1>6, <1>7, SMTT(30)
<1> QED
  BY <1>3, <1>8, Zenon DEF EntriesConserved, Entries, g

LEMMA ShrinkCacheKept ==
  ASSUME CentralInv, NEW t \in Thread, ShrinkCache(t)
  PROVE  CentralInv'
<1> USE DEF CentralInv
<1>v. PICK v : v = th[t].v
  OBVIOUS
<1> DEFINE r == th[t]
           Back(ok) == [r EXCEPT !.pc = "reinsert", !.ok = ok]
           q == [r EXCEPT !.pc = "freeing", !.list = TopSlot(tc_slots[v])]
<1>0. /\ Typed /\ LocksHeld /\ RightClass /\ Calls /\ CallShape(th[t])
  BY InvMeans, Zenon
<1>1. /\ th[t].pc = "shrink" /\ lock[v] = None
      /\ UNCHANGED <<empty, nonempty, counter, objects, refcount, sizeclass, out>>
  BY <1>v, Zenon DEF ShrinkCache, At, CanLock, spanVars
<1>2. /\ v \in Class /\ r.c \in Class /\ r \in CallRecord /\ r.list = {} /\ r.sp = None
      /\ r.chain # {} /\ r.n = 0
  BY <1>v, <1>0, <1>1, SMTT(30) DEF CallShape, CallRecord
<1>3. LocksOf(r) = {} /\ \A d \in Class : lock[d] # t
  BY <1>0, <1>1, NoLocks, SMTT(30)
<1>4. ~ Stolen(t)
  BY <1>1, SMTT(30) DEF Stolen
<1>5. \A o \in r.chain : ClassOf(o) = r.c
  BY <1>0, Zenon DEF RightClass
<1>6. /\ cache_size \in [Class -> Nat] /\ cache_size[v] \in Nat
      /\ UsedSlots(v) <= cache_size[v] /\ UsedSlots(v) \in Nat
      /\ \A c \in Class : UsedSlots(c) <= cache_size[c] /\ cache_size[c] <= MaxCacheSize[c]
  <2>1. cache_size \in [Class -> Nat] /\ tc_slots[v] \in Seq(SUBSET Object)
    BY <1>0, <1>2, Zenon DEF Typed
  <2>2. UsedSlots(v) \in Nat
    BY <2>1 DEF UsedSlots
  <2> QED
    BY <1>2, <2>1, <2>2, Zenon DEF CacheFits
<1>7. ASSUME NEW ok \in BOOLEAN, Call(t, Back(ok)), lock' = lock,
             cache_size' \in [Class -> Nat], tc_slots' = tc_slots
      PROVE  /\ Still(t, Back(ok)) /\ (Stolen(t)' <=> ok)
             /\ \A u \in Thread \ {t} : Stolen(u)' <=> Stolen(u)
  <2> DEFINE p == Back(ok)
  <2>1. "reinsert" \in PCs
    BY Zenon DEF PCs
  <2>2. /\ p \in CallRecord /\ p.pc = "reinsert" /\ p.c = r.c /\ p.v = r.v /\ p.list = r.list
        /\ p.chain = r.chain /\ p.sp = r.sp /\ p.n = r.n /\ p.ok = ok
    BY <1>2, <1>7, <2>1, Zenon DEF CallRecord
  <2>3. Call(t, p)
    BY <1>7
  <2> HIDE DEF p
  <2>4. CallShape(p) /\ LocksOf(p) = {}
    BY <1>2, <2>2, SMTT(30) DEF CallShape, LocksOf
  <2>5. LockStep(t, p)
    BY <1>0, <1>3, <1>7, <2>4, LockKept, Zenon
  <2>6. th'[t] = p /\ \A u \in Thread \ {t} : th'[u] = th[u]
    BY <1>0, <2>3, <2>4, CallsKept, Zenon
  <2>7. Stolen(t)' <=> ok
    BY <2>2, <2>6, SMTT(30) DEF Stolen
  <2>8. Still(t, p)
    BY <1>1, <1>2, <1>5, <1>7, <2>2, <2>3, <2>4, <2>5, Zenon DEF Still
  <2> QED
    BY <2>6, <2>7, <2>8, Zenon DEF Stolen, p
<1>8. CASE Call(t, Back(FALSE)) /\ lock' = lock /\ UNCHANGED <<cache_size, tc_slots>>
  <2>1. Still(t, Back(FALSE)) /\ ~ Stolen(t)'
    BY <1>6, <1>7, <1>8, Zenon
  <2> QED
    BY <1>8, <2>1, StillInv, Zenon
<1>9. CASE /\ cache_size[v] # 0 /\ UsedSlots(v) # cache_size[v]
           /\ cache_size' = [cache_size EXCEPT ![v] = @ - 1]
           /\ Call(t, Back(TRUE)) /\ lock' = lock /\ tc_slots' = tc_slots
  <2>1. /\ cache_size[v] - 1 \in Nat /\ UsedSlots(v) <= cache_size[v] - 1
        /\ (cache_size[v] <= MaxCacheSize[v] => cache_size[v] - 1 <= MaxCacheSize[v])
    <3>1. MaxCacheSize[v] \in 0 .. kMaxNumTransferEntries
      BY <1>2, CentralAssumption, Zenon
    <3> QED
      BY <1>6, <1>9, <3>1, CentralAssumption, SMTT(30)
  <2>2. /\ cache_size' \in [Class -> Nat] /\ cache_size'[v] = cache_size[v] - 1
        /\ \A c \in Class \ {v} : cache_size'[c] = cache_size[c]
    BY <1>2, <1>6, <1>9, <2>1, Zenon
  <2>3. /\ Still(t, Back(TRUE)) /\ Stolen(t)'
        /\ \A u \in Thread \ {t} : Stolen(u)' <=> Stolen(u)
    BY <1>7, <1>9, <2>2, Zenon
  <2>4. ObjectsInv'
    BY <2>3, StillKept, Zenon
  <2>5. ASSUME NEW c \in Class
        PROVE  UsedSlots(c)' <= cache_size'[c] /\ cache_size'[c] <= MaxCacheSize[c]
    <3>1. UsedSlots(c)' = UsedSlots(c)
      BY <1>9, Zenon DEF UsedSlots
    <3>2. CASE c = v
      BY <1>6, <2>1, <2>2, <3>1, <3>2, Zenon
    <3>3. CASE c # v
      BY <1>6, <2>2, <3>1, <3>3, Zenon
    <3> QED
      BY <3>2, <3>3
  <2>6. CacheFits'
    BY <2>5, Zenon DEF CacheFits
  <2>7. EntriesConserved'
    BY <1>0, <1>2, <1>4, <1>9, <2>3, EntryTaken, Zenon
  <2> QED
    BY <2>4, <2>6, <2>7
<1>10. CASE /\ cache_size[v] # 0 /\ UsedSlots(v) = cache_size[v]
            /\ cache_size' = [cache_size EXCEPT ![v] = @ - 1]
            /\ tc_slots' = [tc_slots EXCEPT ![v] = SlotsBelow(@)]
            /\ Holding(t, v, q)
  <2>1. /\ cache_size[v] - 1 \in Nat /\ UsedSlots(v) > 0
        /\ (cache_size[v] <= MaxCacheSize[v] => cache_size[v] - 1 <= MaxCacheSize[v])
        /\ cache_size[v] - 1 <= cache_size[v] - 1
    <3>1. MaxCacheSize[v] \in 0 .. kMaxNumTransferEntries
      BY <1>2, CentralAssumption, Zenon
    <3> QED
      BY <1>6, <1>10, <3>1, CentralAssumption, SMTT(30)
  <2>2. /\ cache_size' \in [Class -> Nat] /\ cache_size'[v] = cache_size[v] - 1
        /\ \A c \in Class \ {v} : cache_size'[c] = cache_size[c]
    BY <1>2, <1>6, <1>10, <2>1, Zenon
  <2>3. "freeing" \in PCs /\ TopSlot(tc_slots[v]) \in SUBSET Object
    <3>1. tc_slots[v] \in Seq(SUBSET Object) /\ Len(tc_slots[v]) > 0
      BY <1>0, <1>2, <2>1, Zenon DEF Typed, UsedSlots
    <3> QED
      BY <3>1, SlotTaken, Zenon DEF PCs
  <2>4. /\ q \in CallRecord /\ q.pc = "freeing" /\ q.c = r.c /\ q.v = r.v
        /\ q.list = TopSlot(tc_slots[v]) /\ q.chain = r.chain /\ q.sp = r.sp /\ q.n = r.n
    BY <1>2, <2>3, Zenon DEF CallRecord
  <2>5. lock' = [lock EXCEPT ![v] = t] /\ Call(t, q)
    BY <1>10, Zenon DEF Holding
  <2> HIDE DEF q
  <2>6. CallShape(q) /\ LocksOf(q) = {v}
    BY <1>v, <1>2, <2>4, SMTT(30) DEF CallShape, LocksOf
  <2>7. LockStep(t, q)
    BY <1>0, <1>1, <1>2, <1>3, <2>5, <2>6, LockTaken, Zenon
  <2>8. Taken(t, q, v)
    BY <1>v, <1>1, <1>2, <1>10, <2>2, <2>4, <2>5, <2>6, <2>7, Zenon DEF Taken
  <2>9. /\ ObjectsInv' /\ SlotGot(v)
        /\ th'[t] = q /\ \A u \in Thread \ {t} : th'[u] = th[u]
    BY <1>2, <2>1, <2>8, TakenKept, Zenon
  <2>10. Stolen(t)' /\ \A u \in Thread \ {t} : Stolen(u)' <=> Stolen(u)
    <3>1. Stolen(t)'
      BY <1>2, <2>4, <2>9, SMTT(30) DEF Stolen
    <3> QED
      BY <2>9, <3>1, Zenon DEF Stolen
  <2>11. EntriesConserved'
    BY <1>0, <1>2, <1>4, <1>10, <2>10, EntryTaken, Zenon
  <2>12. ASSUME NEW c \in Class
         PROVE  UsedSlots(c)' <= cache_size'[c] /\ cache_size'[c] <= MaxCacheSize[c]
    <3>1. UsedSlots(v)' = UsedSlots(v) - 1 /\ \A d \in Class \ {v} : UsedSlots(d)' = UsedSlots(d)
      BY <2>9, Zenon DEF SlotGot
    <3>2. CASE c = v
      <4>1. UsedSlots(c)' = UsedSlots(v)'
        BY <3>2, Zenon DEF UsedSlots
      <4> QED
        BY <1>6, <1>10, <2>1, <2>2, <3>1, <3>2, <4>1, Zenon
    <3>3. CASE c # v
      BY <1>6, <2>2, <3>1, <3>3, Zenon
    <3> QED
      BY <3>2, <3>3
  <2>13. CacheFits'
    BY <2>12, Zenon DEF CacheFits
  <2> QED
    BY <2>9, <2>11, <2>13
<1> QED
  BY <1>v, <1>8, <1>9, <1>10, Zenon DEF ShrinkCache, classVars

LEMMA ReinsertKept ==
  ASSUME CentralInv, NEW t \in Thread, Reinsert(t)
  PROVE  CentralInv'
<1> USE DEF CentralInv
<1>k. PICK k : k = th[t].c
  OBVIOUS
<1> DEFINE r == th[t]
<1>0. /\ Typed /\ LocksHeld /\ RightClass /\ Calls /\ CallShape(th[t])
  BY InvMeans, Zenon
<1>1. /\ th[t].pc = "reinsert" /\ lock[k] = None
      /\ UNCHANGED <<empty, nonempty, counter, objects, refcount, sizeclass, out>>
  BY <1>k, Zenon DEF Reinsert, At, CanLock, spanVars
<1>2. k \in Class
  BY <1>k, <1>0, <1>1, SMTT(30) DEF CallShape
<1>3. \A d \in Class : lock[d] # t
  BY <1>0, <1>1, NoLocks, SMTT(30)
<1>4. CASE /\ r.ok /\ cache_size[k] < MaxCacheSize[k]
           /\ cache_size' = [cache_size EXCEPT ![k] = @ + 1]
           /\ PutInSlot(t) /\ lock' = lock
  <2>x. PICK x : x = r.chain
    OBVIOUS
  <2>0. /\ cache_size \in [Class -> Nat] /\ cache_size[k] \in Nat
        /\ \A c \in Class : UsedSlots(c) <= cache_size[c] /\ cache_size[c] <= MaxCacheSize[c]
    BY <1>0, <1>2, Zenon DEF Typed, CacheFits
  <2>1. cache_size[k] + 1 \in Nat /\ cache_size[k] + 1 <= MaxCacheSize[k]
    <3>1. MaxCacheSize[k] \in 0 .. kMaxNumTransferEntries
      BY <1>2, CentralAssumption, Zenon
    <3> QED
      BY <1>4, <2>0, <3>1, CentralAssumption, SMTT(30)
  <2>2. /\ cache_size' \in [Class -> Nat] /\ cache_size'[k] = cache_size[k] + 1
        /\ \A c \in Class \ {k} : cache_size'[c] = cache_size[c]
    BY <1>2, <1>4, <2>0, <2>1, Zenon
  <2>3. /\ ObjectsInv' /\ SlotPut(k, x)
        /\ th'[t] = IdleCall /\ \A u \in Thread \ {t} : th'[u] = th[u]
    <3>1. th[t].pc \in {"insert", "reinsert"}
      BY <1>1
    <3> QED
      BY <1>k, <1>1, <1>4, <2>x, <2>2, <3>1, PutKept, Zenon
  <2>4. ASSUME NEW c \in Class
        PROVE  UsedSlots(c)' <= cache_size'[c] /\ cache_size'[c] <= MaxCacheSize[c]
    <3>1. /\ UsedSlots(k) \in Nat /\ UsedSlots(k)' = UsedSlots(k) + 1
          /\ \A d \in Class \ {k} : UsedSlots(d)' = UsedSlots(d)
      BY <2>3, Zenon DEF SlotPut
    <3>2. UsedSlots(k) + 1 <= cache_size[k] + 1
      <4>1. UsedSlots(k) <= cache_size[k]
        BY <1>2, <2>0, Zenon
      <4> QED
        BY <2>0, <3>1, <4>1, SMTT(30)
    <3>3. CASE c = k
      <4>1. UsedSlots(c)' = UsedSlots(k)'
        BY <3>3, Zenon DEF UsedSlots
      <4> QED
        BY <2>1, <2>2, <3>1, <3>2, <3>3, <4>1, Zenon
    <3>4. CASE c # k
      BY <2>0, <2>2, <3>1, <3>4, Zenon
    <3> QED
      BY <3>3, <3>4
  <2>5. CacheFits'
    BY <2>4, Zenon DEF CacheFits
  <2>6. Stolen(t) /\ ~ Stolen(t)'
    BY <1>1, <1>4, <2>3, IdleFacts, SMTT(30) DEF Stolen
  <2>7. \A u \in Thread \ {t} : Stolen(u)' <=> Stolen(u)
    BY <2>3, Zenon DEF Stolen
  <2>8. EntriesConserved'
    BY <1>0, <1>2, <1>4, <2>6, <2>7, EntryAdded, Zenon
  <2> QED
    BY <2>3, <2>5, <2>8
<1>5. CASE Holding(t, k, ReleaseChain(r)) /\ UNCHANGED <<cache_size, tc_slots>>
  <2>0. th[t].pc \in {"insert", "evict", "reinsert"}
    BY <1>1
  <2>1. ReleaseChain(r).pc = "freeing" /\ ReleaseChain(r).v = k
    BY <1>k, <1>0, <2>0, ReleaseChainShape, Zenon
  <2>2. LocksOf(ReleaseChain(r)) = {k}
    BY <2>1, SMTT(30) DEF LocksOf
  <2>3. Call(t, ReleaseChain(r)) /\ LockStep(t, ReleaseChain(r))
    BY <1>0, <1>1, <1>2, <1>3, <1>5, <2>2, LockTaken, Zenon DEF Holding
  <2>4. Still(t, ReleaseChain(r)) /\ ~ Stolen(t)'
    BY <1>1, <1>5, <2>0, <2>3, ReleaseChainStill, Zenon
  <2> QED
    BY <1>5, <2>4, StillInv, Zenon
<1>6. CASE Holding(t, k, Failed(r)) /\ UNCHANGED <<cache_size, tc_slots>>
  <2>1. th[t].pc \in {"evict", "reinsert"} /\ th[t].pc \in {"insert", "evict", "reinsert"}
    BY <1>1
  <2>2. LocksOf(Failed(r)) = {k}
    <3>1. CASE r.force
      <4>1. Failed(r).pc = "freeing" /\ Failed(r).v = k
        BY <1>k, <1>0, <2>1, <3>1, ReleaseChainShape, Zenon DEF Failed
      <4> QED
        BY <4>1, SMTT(30) DEF LocksOf
    <3>2. CASE ~ r.force
      <4>1. Failed(r).pc = "evict" /\ Failed(r).c = k
        BY <1>k, <1>0, <2>1, <3>2, RetriesShape, ZenonT(30) DEF Failed
      <4> QED
        BY <4>1, SMTT(30) DEF LocksOf
    <3> QED
      BY <3>1, <3>2
  <2>3. Call(t, Failed(r)) /\ LockStep(t, Failed(r))
    BY <1>0, <1>1, <1>2, <1>3, <1>6, <2>2, LockTaken, Zenon DEF Holding
  <2>4. Still(t, Failed(r)) /\ ~ Stolen(t)'
    BY <1>1, <1>6, <2>1, <2>3, FailedStill, Zenon
  <2> QED
    BY <1>6, <2>4, StillInv, Zenon
<1> QED
  BY <1>k, <1>4, <1>5, <1>6, Zenon DEF Reinsert, classVars

-----------------------------------------------------------------------------
(* The steps that only move a call on.                                     *)

LEMMA RelockKept ==
  ASSUME CentralInv, NEW t \in Thread, Relock(t)
  PROVE  CentralInv'
<1> USE DEF CentralInv
<1> DEFINE r == th[t]
           q == [r EXCEPT !.pc = "freeing"]
<1>0. /\ Typed /\ LocksHeld /\ RightClass /\ Calls /\ CallShape(th[t])
      /\ \A o \in Object : Alone(o)
  BY InvMeans, Zenon
<1>1. /\ r.pc = "relock" /\ lock[r.v] = None
      /\ lock' = [lock EXCEPT ![r.v] = t] /\ Call(t, q)
      /\ UNCHANGED <<cache_size, tc_slots, empty, nonempty, counter, objects, refcount,
                     sizeclass, out>>
  BY Zenon DEF Relock, At, CanLock, Holding, spanVars, classVars
<1>2. r.v \in Class /\ r.c \in Class /\ r \in CallRecord /\ r.sp = None /\ r.n = 0
  BY <1>0, <1>1, SMTT(30) DEF CallShape
<1>3. "freeing" \in PCs
  BY Zenon DEF PCs
<1>4. /\ q \in CallRecord /\ q.pc = "freeing" /\ q.c = r.c /\ q.v = r.v /\ q.list = r.list
      /\ q.chain = r.chain /\ q.sp = r.sp /\ q.n = r.n
  BY <1>2, <1>3, Zenon DEF CallRecord
<1> HIDE DEF q
<1>5. CallShape(q) /\ LocksOf(q) = {r.v}
  BY <1>2, <1>4, SMTT(30) DEF CallShape, LocksOf
<1>6. LockStep(t, q)
  <2>1. \A d \in Class : lock[d] # t
    BY <1>0, <1>1, NoLocks, SMTT(30)
  <2> QED
    BY <1>0, <1>1, <1>2, <1>5, <2>1, LockTaken, Zenon
<1>7. th'[t] = q
  BY <1>0, <1>1, <1>5, CallsKept, Zenon
<1>8. Stolen(t)' => Stolen(t)
  BY <1>1, <1>4, <1>7, SMTT(30) DEF Stolen
<1>9. r.chain \cap r.list = {}
  <2>1. r.chain \in SUBSET Object
    BY <1>2, SMTT(30) DEF CallRecord
  <2> QED
    BY <1>0, <2>1, Zenon DEF Alone, InCall
<1>10. /\ \A o \in r.chain : ClassOf(o) = r.c
       /\ \A o \in r.list : ClassOf(o) = r.v
  BY <1>0, Zenon DEF RightClass
<1>11. Still(t, q)
  BY <1>0, <1>1, <1>2, <1>4, <1>5, <1>6, <1>9, <1>10, Zenon DEF Still, Typed
<1> QED
  BY <1>1, <1>8, <1>11, StillInv, Zenon

LEMMA ReleaseDoneKept ==
  ASSUME CentralInv, NEW t \in Thread, ReleaseDone(t)
  PROVE  CentralInv'
<1> USE DEF CentralInv
<1> DEFINE r == th[t]
           q == [r EXCEPT !.pc = "reinsert", !.ok = TRUE]
<1>0. /\ Typed /\ LocksHeld /\ RightClass /\ Calls /\ CallShape(th[t])
  BY InvMeans, Zenon
<1>1. /\ r.pc = "freeing" /\ r.list = {}
      /\ lock' = [lock EXCEPT ![r.v] = None]
      /\ Call(t, IF r.chain = {} THEN IdleCall ELSE q)
      /\ UNCHANGED <<cache_size, tc_slots, empty, nonempty, counter, objects, refcount,
                     sizeclass, out>>
  BY Zenon DEF ReleaseDone, At, spanVars, classVars
<1>2. r.v \in Class /\ r.c \in Class /\ r \in CallRecord /\ r.sp = None /\ r.n = 0
  BY <1>0, <1>1, SMTT(30) DEF CallShape
<1>3. LocksOf(r) = {r.v}
  BY <1>1, SMTT(30) DEF LocksOf
<1>4. cache_size' \in [Class -> Nat]
  BY <1>0, <1>1, Zenon DEF Typed
<1>5. CASE r.chain = {}
  <2>1. Call(t, IdleCall)
    BY <1>1, <1>5, Zenon
  <2>2. LockStep(t, IdleCall)
    BY <1>0, <1>1, <1>2, <1>3, IdleFacts, LockDropped, Zenon
  <2>3. th'[t] = IdleCall
    BY <1>0, <2>1, IdleShape, CallsKept, Zenon
  <2>4. ~ Stolen(t)'
    BY <2>3, IdleFacts, SMTT(30) DEF Stolen
  <2>5. Still(t, IdleCall)
    BY <1>1, <1>2, <1>4, <1>5, <2>1, <2>2, IdleFacts, IdleShape, Zenon DEF Still
  <2> QED
    BY <1>1, <2>4, <2>5, StillInv, Zenon
<1>6. CASE r.chain # {}
  <2>1. Call(t, q)
    BY <1>1, <1>6, Zenon
  <2>2. "reinsert" \in PCs
    BY Zenon DEF PCs
  <2>3. /\ q \in CallRecord /\ q.pc = "reinsert" /\ q.c = r.c /\ q.v = r.v /\ q.list = r.list
        /\ q.chain = r.chain /\ q.sp = r.sp /\ q.n = r.n
    BY <1>2, <2>2, Zenon DEF CallRecord
  <2> HIDE DEF q
  <2>4. CallShape(q) /\ LocksOf(q) = {}
    BY <1>1, <1>2, <1>6, <2>3, SMTT(30) DEF CallShape, LocksOf
  <2>5. LockStep(t, q)
    BY <1>0, <1>1, <1>2, <1>3, <2>4, LockDropped, Zenon
  <2>6. Stolen(t)
    BY <1>1, <1>6, SMTT(30) DEF Stolen
  <2>7. \A o \in r.chain : ClassOf(o) = r.c
    BY <1>0, Zenon DEF RightClass
  <2>8. Still(t, q)
    BY <1>1, <1>2, <1>4, <2>1, <2>3, <2>4, <2>5, <2>7, Zenon DEF Still
  <2> QED
    BY <1>1, <2>6, <2>8, StillInv, Zenon
<1> QED
  BY <1>5, <1>6

LEMMA RemoveRangeKept ==
  ASSUME CentralInv, NEW t \in Thread, NEW c \in Class, NEW n \in 1 .. Batch,
         RemoveRange(t, c, n)
  PROVE  CentralInv'
<1> USE DEF CentralInv
<1> DEFINE q == [IdleCall EXCEPT !.pc = "remove", !.c = c, !.n = n]
<1>0. /\ Typed /\ LocksHeld /\ RightClass /\ Calls /\ CallShape(th[t])
  BY InvMeans, Zenon
<1>1. /\ th[t].pc = "idle" /\ Call(t, q)
      /\ UNCHANGED <<lock, cache_size, tc_slots, empty, nonempty, counter, objects, refcount,
                     sizeclass, out>>
  BY Zenon DEF RemoveRange, At, spanVars, classVars
<1>2. th[t] = IdleCall
  BY <1>0, <1>1, Zenon DEF CallShape
<1>3. n \in 0 .. Batch /\ n # 0
  BY CentralAssumption, SMTT(30)
<1>4. /\ q \in CallRecord /\ q.pc = "remove" /\ q.c = c /\ q.list = {} /\ q.chain = {}
      /\ q.sp = None /\ q.n = n
  <2>1. IdleCall \in CallRecord /\ "remove" \in PCs
    BY IdleShape, Zenon DEF CallShape, PCs
  <2>2. /\ q \in CallRecord /\ q.pc = "remove" /\ q.c = c /\ q.list = IdleCall.list
        /\ q.chain = IdleCall.chain /\ q.sp = IdleCall.sp /\ q.n = n
    BY <1>3, <2>1, Zenon DEF CallRecord
  <2> QED
    BY <2>2, IdleFacts, Zenon
<1> HIDE DEF q
<1>5. CallShape(q) /\ LocksOf(q) = {}
  BY <1>3, <1>4, SMTT(30) DEF CallShape, LocksOf
<1>6. LockStep(t, q)
  BY <1>0, <1>1, <1>2, <1>5, IdleFacts, LockKept, Zenon
<1>7. th'[t] = q
  BY <1>0, <1>1, <1>5, CallsKept, Zenon
<1>8. ~ Stolen(t)'
  BY <1>4, <1>7, SMTT(30) DEF Stolen
<1>9. Still(t, q)
  BY <1>0, <1>1, <1>2, <1>4, <1>5, <1>6, IdleFacts, Zenon DEF Still, Typed
<1> QED
  BY <1>1, <1>8, <1>9, StillInv, Zenon

\* RemoveRange needs Populate, and Populate that got no span.
LEMMA RemoveGoesOn ==
  ASSUME CentralInv, NEW t \in Thread, th[t].pc \in {"remove", "populate"},
         NEW pc \in {"populate", "populated"}, Call(t, [th[t] EXCEPT !.pc = pc]),
         UNCHANGED <<lock, cache_size, tc_slots, empty, nonempty, counter, objects, refcount,
                     sizeclass, out>>
  PROVE  CentralInv'
<1> USE DEF CentralInv
<1> DEFINE r == th[t]
           q == [r EXCEPT !.pc = pc]
<1>0. /\ Typed /\ LocksHeld /\ RightClass /\ Calls /\ CallShape(th[t])
  BY InvMeans, Zenon
<1>1. /\ r \in CallRecord /\ r.c \in Class /\ r.sp = None /\ r.n # 0
      /\ r.chain = {} /\ r.list = {}
  BY <1>0, SMTT(30) DEF CallShape
<1>2. pc \in PCs
  BY SMTT(30) DEF PCs
<1>3. /\ q \in CallRecord /\ q.pc = pc /\ q.c = r.c /\ q.v = r.v /\ q.list = r.list
      /\ q.chain = r.chain /\ q.sp = r.sp /\ q.n = r.n
  BY <1>1, <1>2, Zenon DEF CallRecord
<1>4. Call(t, q)
  OBVIOUS
<1> HIDE DEF q
<1>5. CallShape(q) /\ LocksOf(q) = {} /\ LocksOf(r) = {}
  BY <1>1, <1>3, SMTT(30) DEF CallShape, LocksOf
<1>6. LockStep(t, q)
  BY <1>0, <1>5, LockKept, Zenon
<1>7. th'[t] = q
  BY <1>0, <1>4, <1>5, CallsKept, Zenon
<1>8. ~ Stolen(t)'
  BY <1>3, <1>7, SMTT(30) DEF Stolen
<1>9. Still(t, q)
  BY <1>0, <1>1, <1>3, <1>4, <1>5, <1>6, Zenon DEF Still, Typed
<1> QED
  BY <1>8, <1>9, StillInv, Zenon

\* RemoveRange takes a batch from the transfer cache.
LEMMA CachedKept ==
  ASSUME CentralInv, NEW t \in Thread, th[t].pc = "remove",
         NEW k, k = th[t].c, UsedSlots(k) > 0,
         out' = out \cup TopSlot(tc_slots[k]), tc_slots' = [tc_slots EXCEPT ![k] = SlotsBelow(@)],
         Call(t, IdleCall),
         UNCHANGED <<lock, cache_size, empty, nonempty, counter, objects, refcount, sizeclass>>
  PROVE  CentralInv'
<1> USE DEF CentralInv
<1> DEFINE r == th[t]
<1>0. /\ Typed /\ LocksHeld /\ RightClass /\ Calls /\ CallShape(th[t])
  BY InvMeans, Zenon
<1>1. /\ k \in Class /\ r.sp = None /\ r.chain = {} /\ r.list = {}
  BY <1>0, SMTT(30) DEF CallShape
<1>2. LocksOf(r) = {}
  BY SMTT(30) DEF LocksOf
<1>3. LockStep(t, IdleCall)
  BY <1>0, <1>2, IdleFacts, LockKept, Zenon
<1>4. Taken(t, IdleCall, k)
  BY <1>0, <1>1, <1>3, IdleFacts, IdleShape, Zenon DEF Taken, Typed
<1>5. /\ ObjectsInv' /\ SlotGot(k)
      /\ th'[t] = IdleCall /\ \A u \in Thread \ {t} : th'[u] = th[u]
  BY <1>1, <1>4, TakenKept, Zenon
<1>6. ~ Stolen(t)'
  BY <1>5, IdleFacts, SMTT(30) DEF Stolen
<1>7. \A u \in Thread : Stolen(u)' => Stolen(u)
  BY <1>5, <1>6, Zenon DEF Stolen
<1>8. EntriesConserved'
  BY <1>7, EntriesKept, Zenon
<1>9. ASSUME NEW c \in Class
      PROVE  UsedSlots(c)' <= cache_size[c] /\ cache_size[c] <= MaxCacheSize[c]
  <2>1. /\ UsedSlots(k) \in Nat /\ UsedSlots(k)' = UsedSlots(k) - 1
        /\ \A d \in Class \ {k} : UsedSlots(d)' = UsedSlots(d)
    BY <1>5, Zenon DEF SlotGot
  <2>2. /\ cache_size[k] \in Nat /\ UsedSlots(k) <= cache_size[k]
        /\ UsedSlots(c) <= cache_size[c] /\ cache_size[c] <= MaxCacheSize[c]
    BY <1>0, <1>1, Zenon DEF Typed, CacheFits
  <2>3. UsedSlots(k)' <= cache_size[k]
    BY <2>1, <2>2, SMTT(30)
  <2>4. CASE c = k
    <3>1. UsedSlots(c)' = UsedSlots(k)'
      BY <2>4, Zenon DEF UsedSlots
    <3> QED
      BY <2>2, <2>3, <2>4, <3>1, Zenon
  <2>5. CASE c # k
    BY <2>1, <2>2, <2>5, Zenon
  <2> QED
    BY <2>4, <2>5
<1>10. CacheFits'
  BY <1>9, Zenon DEF CacheFits
<1> QED
  BY <1>5, <1>8, <1>10

=============================================================================
