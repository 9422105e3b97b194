------------------------------ MODULE HookProofs ------------------------------
(***************************************************************************)
(* The hooks, for any number of threads.  The hook lists, for any number   *)
(* of hooks and slots: a traversal without the lock meets every hook that  *)
(* is registered all the while and no other, and the initializers run      *)
(* once.  The hooks on mmap, munmap, mremap and sbrk, for any number of    *)
(* pages: when no call works on a page, the page has the sentinel exactly  *)
(* when it is mapped.                                                      *)
(***************************************************************************)
EXTENDS MallocHook, MmapHooks, TLAPS

(* The inductive invariant.                                                *)

Value == Hooks \cup {InitialHook}
Cell == Value \cup {NoHook}

\* Where a thread can be, and what it has there.
Ats == {"idle", "add_end", "fixup", "set_replacement", "traverse", "call",
        "remove_new", "remove_premmap", "initializers"}
CallRec == [at : Ats, l : Lists, hooks : Seq(Value)]
TraverseRec ==
  [at : {"traverse"}, l : Lists, i : Nat, end : 0 .. MaxValues + 1, out : Seq(Value),
   after : Seq(Value), must : SUBSET Value, may : SUBSET Cell]
PcShape(pc) ==
  /\ pc.at \in Ats
  /\ pc.at = "add_end" => pc.l \in Lists /\ pc.i \in Slots
  /\ pc.at = "fixup" =>
       /\ pc.l \in Lists /\ pc.next.at \in {"idle", "remove_premmap", "initializers"}
       /\ pc.next.at # "idle" => pc.next \in CallRec
  /\ pc.at = "set_replacement" => pc.l \in Lists /\ pc.h \in Hooks
  /\ pc.at = "traverse" => pc \in TraverseRec
  /\ pc.at \in {"call", "remove_new", "remove_premmap", "initializers"} => pc \in CallRec

HookList == [end : 0 .. MaxValues + 1, data : [Slots -> Cell]]
Data(l, j) == hookList[l].data[j]
End(l) == hookList[l].end

HookTyped ==
  /\ hookList \in [Lists -> HookList]
  /\ DOMAIN hookPc = HookThreads
  /\ \A t \in HookThreads : PcShape(hookPc[t])

\* A thread between its two stores holds the lock.
Writing(pc) == pc.at \in {"add_end", "fixup"}
Writers == \A t \in HookThreads : Writing(hookPc[t]) => hookLock = t

\* A hook is below the end, or its Add is not complete.
AddingAt(t, l, j) == hookPc[t].at = "add_end" /\ hookPc[t].l = l /\ hookPc[t].i = j
EndsRight ==
  /\ \A l \in Lists, j \in Slots :
       Data(l, j) # NoHook => j < End(l) \/ \E t \in HookThreads : AddingAt(t, l, j)
  /\ \A t \in HookThreads, l \in Lists, j \in Slots : AddingAt(t, l, j) => Data(l, j) \in Hooks

\* A traversal has met what it must meet, or has it still ahead.
Meets(pc) ==
  /\ Range(pc.out) \subseteq pc.may
  /\ \A j \in Slots : Data(pc.l, j) # NoHook => Data(pc.l, j) \in pc.may
  /\ \A h \in pc.must :
       \/ h \in Range(pc.out)
       \/ \E j \in Slots : pc.i <= j /\ j < pc.end /\ Data(pc.l, j) = h
Traversals == \A t \in HookThreads : hookPc[t].at = "traverse" => Meets(hookPc[t])

\* The one thread that runs the initializers, and how far it is.
Phase(pc) == IF pc.at = "fixup" THEN pc.next.at ELSE pc.at
Running(pc) == Phase(pc) \in {"remove_new", "remove_premmap", "initializers"}
Initial(l) == Data(l, 0) = InitialHook
Once ==
  /\ hookOnce \in {"init", "running", "done"}
  /\ initializersRun = IF hookOnce = "done" THEN 1 ELSE 0
  /\ \A t \in HookThreads : Running(hookPc[t]) =>
       /\ hookOnce = "running"
       /\ \A u \in HookThreads : Running(hookPc[u]) => t = u
  /\ \A l \in Lists, j \in Slots : Data(l, j) = InitialHook => j = 0 /\ hookOnce # "done"
  /\ hookOnce = "init" => Initial("new") /\ Initial("premmap")
  /\ \A t \in HookThreads :
       /\ Phase(hookPc[t]) = "remove_new" => Initial("new") /\ Initial("premmap")
       /\ Phase(hookPc[t]) = "remove_premmap" => ~ Initial("new") /\ Initial("premmap")
       /\ Phase(hookPc[t]) = "initializers" => ~ Initial("new") /\ ~ Initial("premmap")
  /\ \A l \in Replacements : ~ Initial(l)

HookInv == HookTyped /\ Writers /\ EndsRight /\ Traversals /\ Once

-----------------------------------------------------------------------------
(* One store in a list.                                                    *)

\* Slot i of list l now has x.
Stored(l, i, x) ==
  /\ hookList' \in [Lists -> HookList]
  /\ \A k \in Lists : End(k)' = End(k)
  /\ \A k \in Lists, j \in Slots : k # l \/ j # i => Data(k, j)' = Data(k, j)
  /\ Data(l, i)' = x

LEMMA StoreSlot ==
  ASSUME HookTyped, NEW l \in Lists, NEW i \in Slots, NEW x \in Cell,
         hookList' = [hookList EXCEPT ![l].data[i] = x]
  PROVE  Stored(l, i, x)
<1>1. hookList \in [Lists -> HookList] /\ hookList[l] \in HookList
  BY DEF HookTyped
<1>2. hookList'[l] = [hookList[l] EXCEPT !.data[i] = x] /\ DOMAIN hookList' = Lists
      /\ \A k \in Lists \ {l} : hookList'[k] = hookList[k]
  BY <1>1
<1>3. /\ hookList'[l] \in HookList /\ hookList'[l].end = hookList[l].end
      /\ hookList'[l].data[i] = x
      /\ \A j \in Slots \ {i} : hookList'[l].data[j] = hookList[l].data[j]
  BY <1>1, <1>2 DEF HookList
<1>4. hookList' \in [Lists -> HookList]
  BY <1>1, <1>2, <1>3
<1> QED
  BY <1>2, <1>3, <1>4, ZenonT(30) DEF Stored, End, Data

\* The end of list l is now n.
EndSet(l, n) ==
  /\ hookList' \in [Lists -> HookList]
  /\ \A k \in Lists \ {l} : End(k)' = End(k)
  /\ End(l)' = n
  /\ \A k \in Lists, j \in Slots : Data(k, j)' = Data(k, j)

LEMMA StoreEnd ==
  ASSUME HookTyped, NEW l \in Lists, NEW n \in 0 .. MaxValues + 1,
         hookList' = [hookList EXCEPT ![l].end = n]
  PROVE  EndSet(l, n)
<1>1. hookList \in [Lists -> HookList] /\ hookList[l] \in HookList
  BY DEF HookTyped
<1>2. hookList'[l] = [hookList[l] EXCEPT !.end = n] /\ DOMAIN hookList' = Lists
      /\ \A k \in Lists \ {l} : hookList'[k] = hookList[k]
  BY <1>1
<1>3. hookList'[l] \in HookList /\ hookList'[l].end = n /\ hookList'[l].data = hookList[l].data
  BY <1>1, <1>2 DEF HookList
<1>4. hookList' \in [Lists -> HookList]
  BY <1>1, <1>2, <1>3
<1> QED
  BY <1>2, <1>3, <1>4, Zenon DEF EndSet, End, Data

\* Only t's place in its program changes.
Moved(t, pc) ==
  /\ DOMAIN hookPc' = HookThreads /\ hookPc'[t] = pc
  /\ \A u \in HookThreads \ {t} : hookPc'[u] = hookPc[u]

LEMMA GotoMoves ==
  ASSUME HookTyped, NEW t \in HookThreads, NEW pc, Goto(t, pc)
  PROVE  Moved(t, pc)
  BY DEF HookTyped, Goto, Moved

-----------------------------------------------------------------------------
(* The initializers do not notice a step of another thread.                *)

\* No initial hook comes or goes, and nobody starts or goes on initializing.
NotInitializing ==
  /\ UNCHANGED <<hookOnce, initializersRun>>
  /\ \A l \in Lists, j \in Slots : Data(l, j)' = InitialHook <=> Data(l, j) = InitialHook
  /\ \A u \in HookThreads : \/ Phase(hookPc'[u]) = Phase(hookPc[u])
                            \/ ~ Running(hookPc[u]) /\ ~ Running(hookPc'[u])

LEMMA SlotZero == 0 \in Slots /\ "new" \in Lists /\ "premmap" \in Lists /\ Replacements \subseteq Lists
                  /\ NotifyLists = {"new", "premmap"} /\ NotifyLists \subseteq Lists
  BY HookAssumption DEF Slots, Lists, NotifyLists, Replacements

LEMMA OnceKept ==
  ASSUME Once, NotInitializing
  PROVE  Once'
<1>1. hookOnce' = hookOnce /\ initializersRun' = initializersRun
  BY Zenon DEF NotInitializing
<1>2. \A l \in Lists : Initial(l)' <=> Initial(l)
  BY SlotZero, Zenon DEF NotInitializing, Initial
<1>3. \A u \in HookThreads : \/ Phase(hookPc'[u]) = Phase(hookPc[u])
                             \/ ~ Running(hookPc[u]) /\ ~ Running(hookPc'[u])
  BY Zenon DEF NotInitializing
<1>4. \A u \in HookThreads : Running(hookPc'[u]) => Running(hookPc[u])
                              /\ Phase(hookPc'[u]) = Phase(hookPc[u])
  BY <1>3, Zenon DEF Running
<1>5. \A t \in HookThreads : Running(hookPc'[t]) =>
        /\ hookOnce' = "running"
        /\ \A u \in HookThreads : Running(hookPc'[u]) => t = u
  BY <1>1, <1>4, Zenon DEF Once
<1>6. \A t \in HookThreads :
       /\ Phase(hookPc'[t]) = "remove_new" => Initial("new")' /\ Initial("premmap")'
       /\ Phase(hookPc'[t]) = "remove_premmap" => ~ Initial("new")' /\ Initial("premmap")'
       /\ Phase(hookPc'[t]) = "initializers" => ~ Initial("new")' /\ ~ Initial("premmap")'
  <2> TAKE t \in HookThreads
  <2>1. Phase(hookPc'[t]) \in {"remove_new", "remove_premmap", "initializers"}
          => Phase(hookPc[t]) = Phase(hookPc'[t])
    BY <1>4, Zenon DEF Running
  <2>2. /\ Phase(hookPc[t]) = "remove_new" => Initial("new") /\ Initial("premmap")
        /\ Phase(hookPc[t]) = "remove_premmap" => ~ Initial("new") /\ Initial("premmap")
        /\ Phase(hookPc[t]) = "initializers" => ~ Initial("new") /\ ~ Initial("premmap")
    BY Zenon DEF Once
  <2> QED
    BY <1>2, <2>1, <2>2, SlotZero, Zenon
<1>7. \A l \in Lists, j \in Slots : Data(l, j)' = InitialHook => j = 0 /\ hookOnce' # "done"
  BY <1>1, Zenon DEF NotInitializing, Once
<1>8. /\ hookOnce' \in {"init", "running", "done"}
      /\ initializersRun' = IF hookOnce' = "done" THEN 1 ELSE 0
  BY <1>1, Zenon DEF Once
<1>9. /\ hookOnce' = "init" => Initial("new")' /\ Initial("premmap")'
      /\ \A l \in Replacements : ~ Initial(l)'
  BY <1>1, <1>2, SlotZero, Zenon DEF Once
<1> QED
  BY <1>5, <1>6, <1>7, <1>8, <1>9, Zenon DEF Once

-----------------------------------------------------------------------------
(* The three kinds of steps.                                               *)

\* A step of a thread that does not write.
Quiet(t, pc) ==
  /\ UNCHANGED <<hookList, hookLock>>
  /\ Moved(t, pc) /\ PcShape(pc)
  /\ ~ Writing(hookPc[t]) /\ ~ Writing(pc)
  /\ pc.at = "traverse" => Meets(pc)

LEMMA QuietKept ==
  ASSUME HookInv, NEW t \in HookThreads, NEW pc, Quiet(t, pc), Once'
  PROVE  HookInv'
<1>0. HookTyped /\ Writers /\ EndsRight /\ Traversals
  BY Zenon DEF HookInv
<1>1. /\ hookList' = hookList /\ hookLock' = hookLock /\ DOMAIN hookPc' = HookThreads
      /\ hookPc'[t] = pc /\ \A u \in HookThreads \ {t} : hookPc'[u] = hookPc[u]
  BY Zenon DEF Quiet, Moved
<1>2. PcShape(pc) /\ ~ Writing(hookPc[t]) /\ ~ Writing(pc) /\ (pc.at = "traverse" => Meets(pc))
  BY Zenon DEF Quiet
<1>3. \A l, j : Data(l, j)' = Data(l, j) /\ End(l)' = End(l)
  BY <1>1, Zenon DEF Data, End
<1>4. \A q : Meets(q) => /\ Range(q.out) \subseteq q.may
                         /\ \A j \in Slots : Data(q.l, j)' # NoHook => Data(q.l, j)' \in q.may
                         /\ \A h \in q.must :
                              \/ h \in Range(q.out)
                              \/ \E j \in Slots : q.i <= j /\ j < q.end /\ Data(q.l, j)' = h
  BY <1>3, Zenon DEF Meets
<1>5. HookTyped'
  BY <1>0, <1>1, <1>2, Zenon DEF HookTyped
<1>6. Writers'
  BY <1>0, <1>1, <1>2, Zenon DEF Writers
<1>7. \A u \in HookThreads, l \in Lists, j \in Slots : AddingAt(u, l, j)' <=> AddingAt(u, l, j)
  BY <1>1, <1>2, Zenon DEF AddingAt, Writing
<1>8. EndsRight'
  BY <1>0, <1>3, <1>7, Zenon DEF EndsRight
<1>9. Traversals'
  <2> SUFFICES ASSUME NEW u \in HookThreads, hookPc'[u].at = "traverse" PROVE Meets(hookPc[u])'
    BY Zenon DEF Traversals
  <2>1. PICK q : q = hookPc'[u]
    OBVIOUS
  <2>2. Meets(q)
    BY <1>0, <1>1, <1>2, <2>1, Zenon DEF Traversals
  <2> QED
    BY <1>4, <2>1, <2>2, Zenon DEF Meets
<1> QED
  BY <1>5, <1>6, <1>8, <1>9, Zenon DEF HookInv

\* What a store of x over `old' in list l does to the traversals of l, by a
\* thread t that goes to pc.
Noted(t, l, x, old, pc) ==
  /\ DOMAIN hookPc' = HookThreads /\ hookPc'[t] = pc
  /\ \A u \in HookThreads \ {t} : ~ Traversing(l, u) => hookPc'[u] = hookPc[u]
  /\ \A u \in HookThreads \ {t} : Traversing(l, u) =>
       /\ hookPc'[u] \in TraverseRec
       /\ hookPc'[u].l = hookPc[u].l /\ hookPc'[u].i = hookPc[u].i
       /\ hookPc'[u].end = hookPc[u].end /\ hookPc'[u].out = hookPc[u].out
       /\ hookPc[u].may \subseteq hookPc'[u].may
       /\ x # NoHook => x \in hookPc'[u].may
       /\ hookPc'[u].must \subseteq hookPc[u].must \ {old}

LEMMA NullNoValue == NoHook \notin Value /\ NoHook \notin HookThreads /\ NoHook \in Cell
                     /\ Hooks \subseteq Value /\ Value \subseteq Cell /\ InitialHook \in Value
                     /\ InitialHook # NoHook /\ NoHook \notin Hooks /\ InitialHook \notin Hooks
  BY HookAssumption, Zenon DEF Value, Cell

LEMMA StoreNoted ==
  ASSUME HookTyped, NEW t \in HookThreads, hookPc[t].at # "traverse",
         NEW l \in Lists, NEW x \in Cell, NEW pc,
         hookPc' = NoteStore(l, x, [hookPc EXCEPT ![t] = pc])
  PROVE  Noted(t, l, x, NoHook, pc)
<1>1. ~ Traversing(l, t)
  BY Zenon DEF Traversing
<1>2. DOMAIN hookPc' = HookThreads /\ hookPc'[t] = pc
  BY <1>1 DEF NoteStore, HookTyped
<1>3. \A u \in HookThreads \ {t} : ~ Traversing(l, u) => hookPc'[u] = hookPc[u]
  BY DEF NoteStore, HookTyped
<1>4. ASSUME NEW u \in HookThreads \ {t}, Traversing(l, u)
      PROVE  hookPc'[u] = [hookPc[u] EXCEPT !.may = @ \cup {x}] /\ hookPc[u] \in TraverseRec
  <2>1. hookPc'[u] = [hookPc[u] EXCEPT !.may = @ \cup {x}]
    BY <1>4 DEF NoteStore, HookTyped
  <2> QED
    BY <1>4, <2>1, Zenon DEF HookTyped, PcShape, Traversing
<1>5. ASSUME NEW p \in TraverseRec, NEW q, q = [p EXCEPT !.may = @ \cup {x}]
      PROVE  /\ q \in TraverseRec /\ q.l = p.l /\ q.i = p.i /\ q.end = p.end /\ q.out = p.out
             /\ q.may = p.may \cup {x} /\ q.must = p.must /\ NoHook \notin p.must
  BY <1>5, NullNoValue, Zenon DEF TraverseRec
<1>6. ASSUME NEW u \in HookThreads \ {t}, Traversing(l, u)
      PROVE  /\ hookPc'[u] \in TraverseRec
             /\ hookPc'[u].l = hookPc[u].l /\ hookPc'[u].i = hookPc[u].i
             /\ hookPc'[u].end = hookPc[u].end /\ hookPc'[u].out = hookPc[u].out
             /\ hookPc'[u].may = hookPc[u].may \cup {x}
             /\ hookPc'[u].must = hookPc[u].must /\ NoHook \notin hookPc[u].must
  BY <1>4, <1>5, <1>6, ZenonT(30)
<1>7. ASSUME NEW u \in HookThreads \ {t}, Traversing(l, u)
      PROVE  /\ hookPc[u].may \subseteq hookPc'[u].may
             /\ x # NoHook => x \in hookPc'[u].may
             /\ hookPc'[u].must \subseteq hookPc[u].must \ {NoHook}
  BY <1>6, <1>7, Zenon
<1> QED
  BY <1>2, <1>3, <1>6, <1>7, ZenonT(60) DEF Noted

LEMMA RemoveNoted ==
  ASSUME HookTyped, NEW t \in HookThreads, hookPc[t].at # "traverse",
         NEW l \in Lists, NEW old, NEW pc,
         hookPc' = NoteRemove(l, old, [hookPc EXCEPT ![t] = pc])
  PROVE  Noted(t, l, NoHook, old, pc)
<1>1. ~ Traversing(l, t)
  BY Zenon DEF Traversing
<1>2. DOMAIN hookPc' = HookThreads /\ hookPc'[t] = pc
  BY <1>1 DEF NoteRemove, HookTyped
<1>3. \A u \in HookThreads \ {t} : ~ Traversing(l, u) => hookPc'[u] = hookPc[u]
  BY DEF NoteRemove, HookTyped
<1>4. ASSUME NEW u \in HookThreads \ {t}, Traversing(l, u)
      PROVE  hookPc'[u] = [hookPc[u] EXCEPT !.must = @ \ {old}] /\ hookPc[u] \in TraverseRec
  <2>1. hookPc'[u] = [hookPc[u] EXCEPT !.must = @ \ {old}]
    BY <1>4 DEF NoteRemove, HookTyped
  <2> QED
    BY <1>4, <2>1, Zenon DEF HookTyped, PcShape, Traversing
<1>5. ASSUME NEW p \in TraverseRec, NEW q, q = [p EXCEPT !.must = @ \ {old}]
      PROVE  /\ q \in TraverseRec /\ q.l = p.l /\ q.i = p.i /\ q.end = p.end /\ q.out = p.out
             /\ q.may = p.may /\ q.must = p.must \ {old}
  BY <1>5, Zenon DEF TraverseRec
<1>6. ASSUME NEW u \in HookThreads \ {t}, Traversing(l, u)
      PROVE  /\ hookPc'[u] \in TraverseRec
             /\ hookPc'[u].l = hookPc[u].l /\ hookPc'[u].i = hookPc[u].i
             /\ hookPc'[u].end = hookPc[u].end /\ hookPc'[u].out = hookPc[u].out
             /\ hookPc'[u].may = hookPc[u].may
             /\ hookPc'[u].must = hookPc[u].must \ {old}
  BY <1>4, <1>5, <1>6, ZenonT(30)
<1>7. ASSUME NEW u \in HookThreads \ {t}, Traversing(l, u)
      PROVE  /\ hookPc[u].may \subseteq hookPc'[u].may
             /\ NoHook # NoHook => NoHook \in hookPc'[u].may
             /\ hookPc'[u].must \subseteq hookPc[u].must \ {old}
  BY <1>6, <1>7, Zenon
<1> QED
  BY <1>2, <1>3, <1>6, <1>7, ZenonT(60) DEF Noted

LEMMA ExchangeNoted ==
  ASSUME HookTyped, NEW t \in HookThreads, hookPc[t].at # "traverse",
         NEW l \in Lists, NEW x \in Cell, NEW old, NEW pc,
         hookPc' = NoteStore(l, x, NoteRemove(l, old, [hookPc EXCEPT ![t] = pc]))
  PROVE  Noted(t, l, x, old, pc)
<1>1. ~ Traversing(l, t)
  BY Zenon DEF Traversing
<1>2. DOMAIN hookPc' = HookThreads /\ hookPc'[t] = pc
  BY <1>1, Zenon DEF NoteStore, NoteRemove, HookTyped
<1>3. \A u \in HookThreads \ {t} : ~ Traversing(l, u) => hookPc'[u] = hookPc[u]
  BY Zenon DEF NoteStore, NoteRemove, HookTyped
<1>4. ASSUME NEW u \in HookThreads \ {t}, Traversing(l, u)
      PROVE  /\ hookPc'[u] = [[hookPc[u] EXCEPT !.must = @ \ {old}] EXCEPT !.may = @ \cup {x}]
             /\ hookPc[u] \in TraverseRec
  <2>1. hookPc'[u] = [[hookPc[u] EXCEPT !.must = @ \ {old}] EXCEPT !.may = @ \cup {x}]
    BY <1>4, Zenon DEF NoteStore, NoteRemove, HookTyped
  <2> QED
    BY <1>4, <2>1, Zenon DEF HookTyped, PcShape, Traversing
<1>5. ASSUME NEW p \in TraverseRec, NEW q,
             q = [[p EXCEPT !.must = @ \ {old}] EXCEPT !.may = @ \cup {x}]
      PROVE  /\ q \in TraverseRec /\ q.l = p.l /\ q.i = p.i /\ q.end = p.end /\ q.out = p.out
             /\ q.may = p.may \cup {x} /\ q.must = p.must \ {old}
  BY <1>5, Zenon DEF TraverseRec
<1>6. ASSUME NEW u \in HookThreads \ {t}, Traversing(l, u)
      PROVE  /\ hookPc'[u] \in TraverseRec
             /\ hookPc'[u].l = hookPc[u].l /\ hookPc'[u].i = hookPc[u].i
             /\ hookPc'[u].end = hookPc[u].end /\ hookPc'[u].out = hookPc[u].out
             /\ hookPc'[u].may = hookPc[u].may \cup {x}
             /\ hookPc'[u].must = hookPc[u].must \ {old}
  BY <1>4, <1>5, <1>6, ZenonT(30)
<1>7. ASSUME NEW u \in HookThreads \ {t}, Traversing(l, u)
      PROVE  /\ hookPc[u].may \subseteq hookPc'[u].may
             /\ x # NoHook => x \in hookPc'[u].may
             /\ hookPc'[u].must \subseteq hookPc[u].must \ {old}
  BY <1>6, <1>7, Zenon
<1> QED
  BY <1>2, <1>3, <1>6, <1>7, ZenonT(60) DEF Noted

\* A step that stores x in slot i of list l and takes the lock.
Write(t, l, i, x, old, pc) ==
  /\ hookLock = NoHook /\ hookLock' = t
  /\ Data(l, i) = old /\ Stored(l, i, x)
  /\ Noted(t, l, x, old, pc) /\ PcShape(pc)
  /\ \/ pc.at = "fixup" /\ x = NoHook
     \/ pc.at = "add_end" /\ pc.l = l /\ pc.i = i /\ x \in Hooks

\* Where the other threads are, and what they are at.
LEMMA OthersStay ==
  ASSUME HookTyped, NEW t \in HookThreads, NEW l, NEW x, NEW old, NEW pc,
         Noted(t, l, x, old, pc), NEW u \in HookThreads \ {t}
  PROVE  /\ PcShape(hookPc'[u]) /\ hookPc'[u].at = hookPc[u].at
         /\ Writing(hookPc'[u]) => hookPc'[u] = hookPc[u]
         /\ Phase(hookPc'[u]) = Phase(hookPc[u])
<1>1. CASE ~ Traversing(l, u)
  BY <1>1, Zenon DEF Noted, HookTyped
<1>2. CASE Traversing(l, u)
  <2>1. hookPc'[u] \in TraverseRec /\ hookPc[u].at = "traverse"
    BY <1>2, Zenon DEF Noted, Traversing
  <2>2. hookPc'[u].at = "traverse"
    BY <2>1 DEF TraverseRec
  <2>3. PcShape(hookPc'[u])
    BY <2>1, <2>2 DEF PcShape, Ats
  <2>4. ~ Writing(hookPc'[u]) /\ Phase(hookPc'[u]) = "traverse" /\ Phase(hookPc[u]) = "traverse"
    BY <2>1, <2>2 DEF Writing, Phase
  <2> QED
    BY <2>1, <2>2, <2>3, <2>4, Zenon
<1> QED
  BY <1>1, <1>2

LEMMA WriteKept ==
  ASSUME HookInv, NEW t \in HookThreads, NEW l \in Lists, NEW i \in Slots, NEW x \in Cell,
         NEW old, NEW pc, Write(t, l, i, x, old, pc), Once'
  PROVE  HookInv'
<1>0. HookTyped /\ Writers /\ EndsRight /\ Traversals
  BY Zenon DEF HookInv
<1>1. /\ hookLock = NoHook /\ hookLock' = t /\ Data(l, i) = old /\ Stored(l, i, x)
      /\ Noted(t, l, x, old, pc) /\ PcShape(pc)
  BY Zenon DEF Write
<1>2. \/ pc.at = "fixup" /\ x = NoHook
      \/ pc.at = "add_end" /\ pc.l = l /\ pc.i = i /\ x \in Hooks
  BY Zenon DEF Write
<1>3. DOMAIN hookPc' = HookThreads /\ hookPc'[t] = pc
  BY <1>1, Zenon DEF Noted
<1>4. \A u \in HookThreads \ {t} : /\ PcShape(hookPc'[u]) /\ hookPc'[u].at = hookPc[u].at
                                   /\ Writing(hookPc'[u]) => hookPc'[u] = hookPc[u]
  BY <1>0, <1>1, OthersStay, Zenon
<1>5. \A u \in HookThreads : ~ Writing(hookPc[u])
  BY <1>0, <1>1, NullNoValue, Zenon DEF Writers
<1>6. \A u \in HookThreads \ {t} : ~ Writing(hookPc'[u])
  BY <1>4, <1>5, Zenon
<1>7. HookTyped'
  BY <1>1, <1>3, <1>4, Zenon DEF HookTyped, Stored
<1>8. Writers'
  BY <1>1, <1>6, Zenon DEF Writers
<1>9. /\ \A u \in HookThreads, k \in Lists, j \in Slots : ~ AddingAt(u, k, j)
      /\ \A u \in HookThreads, k \in Lists, j \in Slots : AddingAt(u, k, j)' =>
           u = t /\ pc.at = "add_end" /\ k = l /\ j = i /\ x \in Hooks
  <2>1. \A u \in HookThreads, k \in Lists, j \in Slots : ~ AddingAt(u, k, j)
    BY <1>5, Zenon DEF AddingAt, Writing
  <2>2. \A u \in HookThreads \ {t} : hookPc'[u].at # "add_end"
    BY <1>6, Zenon DEF Writing
  <2>3. pc.at = "add_end" => pc.l = l /\ pc.i = i /\ x \in Hooks
    BY <1>2
  <2> QED
    BY <1>3, <2>1, <2>2, <2>3, Zenon DEF AddingAt
<1>10. pc.at = "add_end" => AddingAt(t, l, i)'
  BY <1>2, <1>3 DEF AddingAt
<1>11. EndsRight'
  <2>1. ASSUME NEW k \in Lists, NEW j \in Slots, Data(k, j)' # NoHook
        PROVE  j < End(k)' \/ \E u \in HookThreads : AddingAt(u, k, j)'
    <3>1. CASE k = l /\ j = i
      <4>1. Data(l, i)' = x
        BY <1>1, Zenon DEF Stored
      <4>2. pc.at = "add_end"
        BY <1>2, <2>1, <3>1, <4>1
      <4> QED
        BY <1>10, <3>1, <4>2, Zenon
    <3>2. CASE k # l \/ j # i
      <4>1. Data(k, j)' = Data(k, j) /\ End(k)' = End(k)
        BY <1>1, <3>2, Zenon DEF Stored
      <4>2. j < End(k)
        BY <1>0, <1>9, <2>1, <4>1, Zenon DEF EndsRight
      <4> QED
        BY <4>1, <4>2, Zenon
    <3> QED
      BY <3>1, <3>2
  <2>2. ASSUME NEW u \in HookThreads, NEW k \in Lists, NEW j \in Slots, AddingAt(u, k, j)'
        PROVE  Data(k, j)' \in Hooks
    <3>1. k = l /\ j = i /\ x \in Hooks
      BY <1>9, <2>2, Zenon
    <3>2. Data(l, i)' = x
      BY <1>1, Zenon DEF Stored
    <3> QED
      BY <3>1, <3>2, Zenon
  <2> QED
    BY <2>1, <2>2, Zenon DEF EndsRight
<1>12. Traversals'
  <2> SUFFICES ASSUME NEW u \in HookThreads, hookPc'[u].at = "traverse" PROVE Meets(hookPc[u])'
    BY Zenon DEF Traversals
  <2>1. u # t /\ hookPc[u].at = "traverse"
    BY <1>2, <1>3, <1>4
  <2>2. Meets(hookPc[u]) /\ hookPc[u] \in TraverseRec
    BY <1>0, <2>1, Zenon DEF Traversals, HookTyped, PcShape
  <2>3. PICK p : p = hookPc[u]
    OBVIOUS
  <2>4. PICK q : q = hookPc'[u]
    OBVIOUS
  <2>5. p.l \in Lists
    BY <2>2, <2>3 DEF TraverseRec
  <2>6. CASE p.l # l
    <3>1. q = p
      BY <1>1, <2>1, <2>3, <2>4, <2>6, Zenon DEF Noted, Traversing
    <3>2. \A j \in Slots : Data(p.l, j)' = Data(p.l, j)
      BY <1>1, <2>5, <2>6, Zenon DEF Stored
    <3>3. /\ Range(p.out) \subseteq p.may
          /\ \A j \in Slots : Data(p.l, j)' # NoHook => Data(p.l, j)' \in p.may
          /\ \A h \in p.must :
               \/ h \in Range(p.out)
               \/ \E j \in Slots : p.i <= j /\ j < p.end /\ Data(p.l, j)' = h
      BY <2>2, <2>3, <3>2, Zenon DEF Meets
    <3> QED
      BY <2>4, <3>1, <3>3, Zenon DEF Meets
  <2>7. CASE p.l = l
    <3>1. /\ q.l = l /\ q.i = p.i /\ q.end = p.end /\ q.out = p.out /\ p.may \subseteq q.may
          /\ x # NoHook => x \in q.may
          /\ q.must \subseteq p.must \ {old}
      BY <1>1, <2>1, <2>3, <2>4, <2>7, Zenon DEF Noted, Traversing
    <3>2. Meets(p)
      BY <2>2, <2>3, Zenon
    <3>3. Range(q.out) \subseteq q.may
      BY <3>1, <3>2, Zenon DEF Meets
    <3>4. Data(l, i)' = x /\ \A j \in Slots \ {i} : Data(l, j)' = Data(l, j)
      BY <1>1, Zenon DEF Stored
    <3>5. ASSUME NEW j \in Slots, Data(l, j)' # NoHook PROVE Data(l, j)' \in q.may
      <4>1. CASE j = i
        BY <3>1, <3>4, <3>5, <4>1, Zenon
      <4>2. CASE j # i
        <5>1. Data(l, j) # NoHook /\ Data(l, j)' = Data(l, j)
          BY <3>4, <3>5, <4>2, Zenon
        <5>2. Data(l, j) \in p.may
          BY <2>7, <3>2, <5>1, Zenon DEF Meets
        <5> QED
          BY <3>1, <5>1, <5>2, Zenon
      <4> QED
        BY <4>1, <4>2
    <3>6. ASSUME NEW h \in q.must
          PROVE  \/ h \in Range(q.out)
                 \/ \E j \in Slots : q.i <= j /\ j < q.end /\ Data(l, j)' = h
      <4>1. h \in p.must /\ h # old
        BY <3>1, <3>6, Zenon
      <4>2. CASE h \in Range(p.out)
        BY <3>1, <4>2, Zenon
      <4>3. CASE \E j \in Slots : p.i <= j /\ j < p.end /\ Data(l, j) = h
        <5>1. PICK j \in Slots : p.i <= j /\ j < p.end /\ Data(l, j) = h
          BY <4>3
        <5>2. j # i
          BY <1>1, <4>1, <5>1, Zenon
        <5> QED
          BY <3>1, <3>4, <5>1, <5>2, Zenon
      <4> QED
        BY <2>7, <3>2, <4>1, <4>2, <4>3, Zenon DEF Meets
    <3> QED
      BY <2>4, <3>1, <3>3, <3>5, <3>6, Zenon DEF Meets
  <2> QED
    BY <2>6, <2>7
<1> QED
  BY <1>7, <1>8, <1>11, <1>12, Zenon DEF HookInv

\* A step that moves the end of list l to n and gives the lock back.
EndMoved(t, l, n, pc) ==
  /\ Writing(hookPc[t]) /\ hookPc[t].l = l
  /\ hookLock' = NoHook
  /\ EndSet(l, n) /\ \A j \in Slots : Data(l, j) # NoHook => j < n
  /\ Moved(t, pc) /\ PcShape(pc) /\ ~ Writing(pc) /\ pc.at # "traverse"

LEMMA EndKept ==
  ASSUME HookInv, NEW t \in HookThreads, NEW l \in Lists, NEW n, NEW pc,
         EndMoved(t, l, n, pc), Once'
  PROVE  HookInv'
<1>0. HookTyped /\ Writers /\ EndsRight /\ Traversals
  BY Zenon DEF HookInv
<1>1. /\ Writing(hookPc[t]) /\ hookPc[t].l = l /\ hookLock' = NoHook /\ EndSet(l, n)
      /\ PcShape(pc) /\ ~ Writing(pc) /\ pc.at # "traverse"
  BY Zenon DEF EndMoved
<1>2. /\ DOMAIN hookPc' = HookThreads /\ hookPc'[t] = pc
      /\ \A u \in HookThreads \ {t} : hookPc'[u] = hookPc[u]
  BY Zenon DEF EndMoved, Moved
<1>3. \A k \in Lists, j \in Slots : Data(k, j)' = Data(k, j)
  BY <1>1, Zenon DEF EndSet
<1>4. \A u \in HookThreads \ {t} : ~ Writing(hookPc[u])
  BY <1>0, <1>1, Zenon DEF Writers
<1>5. \A u \in HookThreads : ~ Writing(hookPc'[u])
  BY <1>1, <1>2, <1>4, Zenon
<1>6. HookTyped'
  BY <1>0, <1>1, <1>2, Zenon DEF HookTyped, EndSet
<1>7. Writers'
  BY <1>5, Zenon DEF Writers
<1>8. EndsRight'
  <2>1. \A u \in HookThreads, k \in Lists, j \in Slots : ~ AddingAt(u, k, j)'
    BY <1>5, Zenon DEF AddingAt, Writing
  <2>2. ASSUME NEW k \in Lists, NEW j \in Slots, Data(k, j)' # NoHook PROVE j < End(k)'
    <3>1. Data(k, j) # NoHook
      BY <1>3, <2>2, Zenon
    <3>2. CASE k = l
      BY <1>1, <3>1, <3>2, Zenon DEF EndSet, EndMoved
    <3>3. CASE k # l
      <4>1. \A u \in HookThreads : ~ AddingAt(u, k, j)
        BY <1>1, <1>4, <3>3, Zenon DEF AddingAt, Writing
      <4>2. j < End(k) /\ End(k)' = End(k)
        BY <1>0, <1>1, <3>1, <3>3, <4>1, Zenon DEF EndsRight, EndSet
      <4> QED
        BY <4>2, Zenon
    <3> QED
      BY <3>2, <3>3
  <2> QED
    BY <2>1, <2>2, Zenon DEF EndsRight
<1>9. Traversals'
  <2> SUFFICES ASSUME NEW u \in HookThreads, hookPc'[u].at = "traverse" PROVE Meets(hookPc[u])'
    BY Zenon DEF Traversals
  <2>1. hookPc'[u] = hookPc[u]
    BY <1>1, <1>2, Zenon
  <2>2. PICK p : p = hookPc[u]
    OBVIOUS
  <2>3. Meets(p) /\ p \in TraverseRec
    BY <1>0, <2>1, <2>2, Zenon DEF Traversals, HookTyped, PcShape
  <2>4. p.l \in Lists
    BY <2>3 DEF TraverseRec
  <2>5. \A j \in Slots : Data(p.l, j)' = Data(p.l, j)
    BY <1>3, <2>4, Zenon
  <2>6. /\ Range(p.out) \subseteq p.may
        /\ \A j \in Slots : Data(p.l, j)' # NoHook => Data(p.l, j)' \in p.may
        /\ \A h \in p.must :
             \/ h \in Range(p.out)
             \/ \E j \in Slots : p.i <= j /\ j < p.end /\ Data(p.l, j)' = h
    BY <2>3, <2>5, Zenon DEF Meets
  <2> QED
    BY <2>1, <2>2, <2>6, Zenon DEF Meets
<1> QED
  BY <1>6, <1>7, <1>8, <1>9, Zenon DEF HookInv

-----------------------------------------------------------------------------
(* Adding, removing and exchanging hooks.                                  *)

LEMMA WriteSilent ==
  ASSUME HookTyped, NEW t \in HookThreads, NEW l \in Lists, NEW i \in Slots, NEW x, NEW old, NEW pc,
         Write(t, l, i, x, old, pc), UNCHANGED <<hookOnce, initializersRun>>,
         ~ Running(hookPc[t]), ~ Running(pc), x # InitialHook, old # InitialHook
  PROVE  NotInitializing
<1>1. Noted(t, l, x, old, pc) /\ Stored(l, i, x) /\ Data(l, i) = old
  BY Zenon DEF Write
<1>2. \A u \in HookThreads \ {t} : Phase(hookPc'[u]) = Phase(hookPc[u])
  BY <1>1, OthersStay, Zenon
<1>3. hookPc'[t] = pc
  BY <1>1, Zenon DEF Noted
<1>4. \A k \in Lists, j \in Slots : Data(k, j)' = InitialHook <=> Data(k, j) = InitialHook
  BY <1>1, Zenon DEF Stored
<1> QED
  BY <1>2, <1>3, <1>4, Zenon DEF NotInitializing

LEMMA MoveSilent ==
  ASSUME NEW t \in HookThreads, NEW pc, Moved(t, pc), UNCHANGED <<hookOnce, initializersRun>>,
         \A k \in Lists, j \in Slots : Data(k, j)' = Data(k, j),
         \/ ~ Running(hookPc[t]) /\ ~ Running(pc)
         \/ Phase(pc) = Phase(hookPc[t])
  PROVE  NotInitializing
  BY Zenon DEF NotInitializing, Moved

\* Nobody initializes at the other places.
LEMMA PhaseAt ==
  ASSUME NEW pc
  PROVE  /\ pc.at \in {"idle", "add_end", "set_replacement", "traverse", "call"} => ~ Running(pc)
         /\ pc.at = "fixup" /\ pc.next.at = "idle" => ~ Running(pc)
         /\ pc.at # "fixup" => Phase(pc) = pc.at
         /\ pc.at = "fixup" => Phase(pc) = pc.next.at
  BY DEF Running, Phase

LEMMA IdleShape == PcShape(HookIdle) /\ HookIdle.at = "idle" /\ ~ Writing(HookIdle) /\ ~ Running(HookIdle)
  BY DEF PcShape, HookIdle, Ats, Writing, Running, Phase

LEMMA AddShape ==
  ASSUME NEW l \in Lists, NEW i \in Slots, NEW h \in Hooks, NEW pc,
         pc = [at |-> "add_end", l |-> l, i |-> i, h |-> h]
  PROVE  PcShape(pc) /\ pc.at = "add_end" /\ pc.l = l /\ pc.i = i /\ ~ Running(pc)
  BY DEF PcShape, Ats, Running, Phase

LEMMA FixupShape ==
  ASSUME NEW l \in Lists, NEW next, NEW pc, pc = [at |-> "fixup", l |-> l, next |-> next],
         \/ next = HookIdle
         \/ next \in CallRec /\ next.at \in {"remove_premmap", "initializers"}
  PROVE  PcShape(pc) /\ pc.at = "fixup" /\ pc.l = l /\ pc.next = next /\ Phase(pc) = next.at
<1>1. pc.at = "fixup" /\ pc.l = l /\ pc.next = next
  OBVIOUS
<1>2. next.at \in {"idle", "remove_premmap", "initializers"} /\ (next.at # "idle" => next \in CallRec)
  BY IdleShape
<1> QED
  BY <1>1, <1>2 DEF PcShape, Ats, Phase

LEMMA AddKept ==
  ASSUME HookInv, NEW t \in HookThreads, NEW l \in Lists, NEW h \in Hooks, Add(t, l, h),
         hookPc[t].at \in {"idle", "set_replacement"}, UNCHANGED <<hookOnce, initializersRun>>
  PROVE  HookInv'
<1>0. HookTyped /\ Once /\ ~ Running(hookPc[t]) /\ ~ Writing(hookPc[t]) /\ hookPc[t].at # "traverse"
  BY PhaseAt DEF HookInv, Writing
<1>1. CASE FreeSlots(l) = {} /\ Goto(t, HookIdle) /\ UNCHANGED <<hookList, hookLock>>
  <2>1. Quiet(t, HookIdle)
    BY <1>0, <1>1, GotoMoves, IdleShape, Zenon DEF Quiet
  <2>2. \A k, j : Data(k, j)' = Data(k, j)
    BY <1>1, Zenon DEF Data
  <2>3. Once'
    BY <1>0, <2>1, <2>2, MoveSilent, OnceKept, IdleShape, Zenon DEF Quiet
  <2> QED
    BY <2>1, <2>3, QuietKept, Zenon
<1>2. CASE \E i \in Slots :
             /\ First(FreeSlots(l), i)
             /\ hookList' = [hookList EXCEPT ![l].data[i] = h]
             /\ hookLock' = t
             /\ hookPc' = NoteStore(l, h, [hookPc EXCEPT ![t] =
                            [at |-> "add_end", l |-> l, i |-> i, h |-> h]])
  <2>1. PICK i \in Slots :
             /\ First(FreeSlots(l), i)
             /\ hookList' = [hookList EXCEPT ![l].data[i] = h]
             /\ hookLock' = t
             /\ hookPc' = NoteStore(l, h, [hookPc EXCEPT ![t] =
                            [at |-> "add_end", l |-> l, i |-> i, h |-> h]])
    BY <1>2, Zenon
  <2>2. PICK pc : pc = [at |-> "add_end", l |-> l, i |-> i, h |-> h]
    BY Zenon
  <2>3. PcShape(pc) /\ pc.at = "add_end" /\ pc.l = l /\ pc.i = i /\ ~ Running(pc)
    BY <2>2, AddShape
  <2>4. h \in Cell
    BY NullNoValue, Zenon
  <2>5. Stored(l, i, h)
    BY <1>0, <2>1, <2>4, StoreSlot, Zenon
  <2>6. hookPc' = NoteStore(l, h, [hookPc EXCEPT ![t] = pc])
    BY <2>1, <2>2, Zenon
  <2>7. Noted(t, l, h, NoHook, pc)
    BY <1>0, <2>4, <2>6, StoreNoted, Zenon
  <2>8. Data(l, i) = NoHook /\ hookLock = NoHook
    BY <2>1, Zenon DEF First, FreeSlots, Data, Add
  <2>9. Write(t, l, i, h, NoHook, pc)
    BY <2>1, <2>3, <2>5, <2>7, <2>8, Zenon DEF Write
  <2>10. Once'
    BY <1>0, <2>3, <2>9, WriteSilent, OnceKept, NullNoValue, Zenon
  <2> QED
    BY <2>4, <2>9, <2>10, WriteKept, Zenon
<1> QED
  BY <1>1, <1>2, Zenon DEF Add

\* What RemoveFromList does, for the slot it finds.
Removes(t, l, h, phase) ==
  \E i \in Slots : \E pc : /\ Write(t, l, i, NoHook, h, pc)
                          /\ pc.at = "fixup" /\ Phase(pc) = phase

LEMMA RemoveWrites ==
  ASSUME HookTyped, NEW t \in HookThreads, hookPc[t].at # "traverse", NEW l \in Lists,
         NEW h, NEW next, RemoveFromList(t, l, h, next),
         \/ next = HookIdle
         \/ next \in CallRec /\ next.at \in {"remove_premmap", "initializers"}
  PROVE  Removes(t, l, h, next.at)
<1>1. PICK i \in Slots : /\ First(Found(l, h), i)
                         /\ hookList' = [hookList EXCEPT ![l].data[i] = NoHook]
  BY Zenon DEF RemoveFromList
<1>2. PICK pc : pc = [at |-> "fixup", l |-> l, next |-> next]
  BY Zenon
<1>3. PcShape(pc) /\ pc.at = "fixup" /\ Phase(pc) = next.at
  BY <1>2, FixupShape
<1>4. /\ hookLock = NoHook /\ hookLock' = t
      /\ hookPc' = NoteRemove(l, h, [hookPc EXCEPT ![t] = pc])
  BY <1>2, Zenon DEF RemoveFromList
<1>5. Stored(l, i, NoHook)
  BY <1>1, NullNoValue, StoreSlot, Zenon
<1>6. Noted(t, l, NoHook, h, pc)
  BY <1>4, RemoveNoted, Zenon
<1>7. Data(l, i) = h
  BY <1>1, Zenon DEF First, Found, Data
<1>8. Write(t, l, i, NoHook, h, pc)
  BY <1>3, <1>4, <1>5, <1>6, <1>7, Zenon DEF Write
<1> QED
  BY <1>3, <1>8, Zenon DEF Removes

LEMMA RemoveKept ==
  ASSUME HookInv, NEW t \in HookThreads, NEW h \in Hooks, RemoveHook(t, h)
  PROVE  HookInv'
<1>0. /\ HookTyped /\ Once /\ hookPc[t].at = "idle" /\ ~ Running(hookPc[t])
      /\ ~ Writing(hookPc[t]) /\ hookPc[t].at # "traverse" /\ PcShape(hookPc[t])
  BY PhaseAt DEF HookInv, HookTyped, Writing, RemoveHook, Start
<1>1. PICK l \in Lists : /\ \/ RemoveFromList(t, l, h, HookIdle)
                            \/ UNCHANGED <<hookList, hookLock, hookPc>>
                         /\ UNCHANGED <<hookOnce, initializersRun>>
  BY Zenon DEF RemoveHook
<1>2. CASE UNCHANGED <<hookList, hookLock, hookPc>>
  <2>1. Moved(t, hookPc[t])
    BY <1>0, <1>2, Zenon DEF Moved, HookTyped
  <2>2. PICK pc : pc = hookPc[t]
    OBVIOUS
  <2>3. Quiet(t, pc)
    BY <1>0, <1>2, <2>1, <2>2, Zenon DEF Quiet
  <2>4. \A k, j : Data(k, j)' = Data(k, j)
    BY <1>2, Zenon DEF Data
  <2>5. Once'
    BY <1>0, <1>1, <2>2, <2>3, <2>4, MoveSilent, OnceKept, Zenon DEF Quiet
  <2> QED
    BY <2>3, <2>5, QuietKept, Zenon
<1>3. CASE RemoveFromList(t, l, h, HookIdle)
  <2>0. Removes(t, l, h, HookIdle.at)
    BY <1>0, <1>3, RemoveWrites, Zenon
  <2>1. PICK i \in Slots : \E pc : /\ Write(t, l, i, NoHook, h, pc)
                                   /\ pc.at = "fixup" /\ Phase(pc) = HookIdle.at
    BY <2>0, Zenon DEF Removes
  <2>9. PICK pc : Write(t, l, i, NoHook, h, pc) /\ pc.at = "fixup" /\ Phase(pc) = HookIdle.at
    BY <2>1
  <2>2. ~ Running(pc)
    BY <2>9, IdleShape DEF Running
  <2>3. Once'
    BY <1>0, <1>1, <2>9, <2>2, WriteSilent, OnceKept, NullNoValue, Zenon
  <2> QED
    BY <2>9, <2>3, WriteKept, NullNoValue, Zenon
<1> QED
  BY <1>1, <1>2, <1>3

LEMMA SetHookKept ==
  ASSUME HookInv, NEW t \in HookThreads, NEW h \in Hooks \cup {NoHook}, SetHook(t, h)
  PROVE  HookInv'
<1>0. HookTyped /\ Once /\ hookPc[t].at = "idle" /\ ~ Running(hookPc[t]) /\ hookPc[t].at # "traverse"
  BY PhaseAt DEF HookInv, HookTyped, SetHook, Start
<1>1. PICK l \in Lists : ExchangeSingular(t, l, h) /\ UNCHANGED <<hookOnce, initializersRun>>
  BY SlotZero, Zenon DEF SetHook
<1>2. PICK pc : pc = IF h # NoHook THEN [at |-> "add_end", l |-> l, i |-> SingularIdx, h |-> h]
                     ELSE [at |-> "fixup", l |-> l, next |-> HookIdle]
  BY Zenon
<1>3. SingularIdx \in Slots /\ SingularIdx # 0
  BY HookAssumption DEF SingularIdx, Slots
<1>4. /\ PcShape(pc) /\ ~ Running(pc)
      /\ \/ pc.at = "fixup" /\ h = NoHook
         \/ pc.at = "add_end" /\ pc.l = l /\ pc.i = SingularIdx /\ h \in Hooks
  <2>1. CASE h = NoHook
    <3>1. pc = [at |-> "fixup", l |-> l, next |-> HookIdle]
      BY <1>2, <2>1
    <3>2. PcShape(pc) /\ pc.at = "fixup" /\ Phase(pc) = HookIdle.at
      BY <3>1, FixupShape
    <3>3. ~ Running(pc)
      BY <3>2, IdleShape DEF Running
    <3> QED
      BY <2>1, <3>2, <3>3
  <2>2. CASE h # NoHook
    <3>1. pc = [at |-> "add_end", l |-> l, i |-> SingularIdx, h |-> h] /\ h \in Hooks
      BY <1>2, <2>2
    <3> QED
      BY <1>3, <3>1, AddShape, ZenonT(30)
  <2> QED
    BY <2>1, <2>2
<1>5. PICK old : old = Data(l, SingularIdx)
  OBVIOUS
<1>6. /\ hookLock = NoHook /\ hookLock' = t
      /\ hookList' = [hookList EXCEPT ![l].data[SingularIdx] = h]
      /\ hookPc' = NoteStore(l, h, NoteRemove(l, old, [hookPc EXCEPT ![t] = pc]))
  BY <1>1, <1>2, <1>5, Zenon DEF ExchangeSingular, Data
<1>7. h \in Cell /\ h # InitialHook
  BY NullNoValue, Zenon
<1>8. Stored(l, SingularIdx, h)
  BY <1>0, <1>3, <1>6, <1>7, StoreSlot, Zenon
<1>9. Noted(t, l, h, old, pc)
  BY <1>0, <1>6, <1>7, ExchangeNoted, Zenon
<1>10. Write(t, l, SingularIdx, h, old, pc)
  BY <1>4, <1>5, <1>6, <1>8, <1>9, Zenon DEF Write
<1>11. old # InitialHook
  BY <1>0, <1>3, <1>5, Zenon DEF Once
<1>12. Once'
  BY <1>0, <1>1, <1>3, <1>4, <1>7, <1>10, <1>11, WriteSilent, OnceKept, Zenon
<1> QED
  BY <1>3, <1>7, <1>10, <1>12, WriteKept, Zenon

\* The lock is given back: the end covers every hook of the list.
LEMMA AddEndKept ==
  ASSUME HookInv, NEW t \in HookThreads, AddEnd(t)
  PROVE  HookInv'
<1>0. HookTyped /\ Once /\ Writers /\ EndsRight /\ hookPc[t].at = "add_end" /\ PcShape(hookPc[t])
  BY Zenon DEF HookInv, HookTyped, AddEnd
<1>1. PICK l \in Lists : l = hookPc[t].l
  BY <1>0 DEF PcShape
<1>2. PICK i \in Slots : i = hookPc[t].i
  BY <1>0 DEF PcShape
<1>3. End(l) \in 0 .. MaxValues + 1 /\ hookList[l].end = End(l)
  BY <1>0 DEF HookTyped, HookList, End
<1>4. PICK n : n = IF End(l) <= i THEN i + 1 ELSE End(l)
  OBVIOUS
<1>5. n \in 0 .. MaxValues + 1 /\ i < n /\ End(l) <= n
  BY <1>3, <1>4, HookAssumption DEF Slots
<1>6. hookList' = [hookList EXCEPT ![l].end = n]
  BY <1>1, <1>2, <1>4 DEF AddEnd, End
<1>7. EndSet(l, n)
  BY <1>0, <1>5, <1>6, StoreEnd, Zenon
<1>8. Writing(hookPc[t]) /\ ~ Running(hookPc[t])
  BY <1>0, PhaseAt DEF Writing
<1>9. \A u \in HookThreads, j \in Slots : AddingAt(u, l, j) => j = i
  <2>1. \A u \in HookThreads : Writing(hookPc[u]) => u = t
    BY <1>0, <1>8, Zenon DEF Writers
  <2> QED
    BY <1>2, <2>1, Zenon DEF AddingAt, Writing
<1>10. ASSUME NEW j \in Slots, Data(l, j) # NoHook PROVE j < n
  <2>1. j < End(l) \/ j = i
    BY <1>0, <1>9, <1>10, Zenon DEF EndsRight
  <2> QED
    BY <1>3, <1>5, <2>1 DEF Slots
<1>11. Moved(t, HookIdle) /\ UNCHANGED <<hookOnce, initializersRun>> /\ hookLock' = NoHook
  BY <1>0, GotoMoves, Zenon DEF AddEnd
<1>12. EndMoved(t, l, n, HookIdle)
  BY <1>1, <1>7, <1>8, <1>10, <1>11, IdleShape DEF EndMoved
<1>13. Once'
  BY <1>0, <1>7, <1>8, <1>11, MoveSilent, OnceKept, IdleShape, Zenon DEF EndSet
<1> QED
  BY <1>12, <1>13, EndKept, Zenon

LEMMA RemoveFixupKept ==
  ASSUME HookInv, NEW t \in HookThreads, RemoveFixup(t)
  PROVE  HookInv'
<1>0. HookTyped /\ Once /\ Writers /\ EndsRight /\ hookPc[t].at = "fixup" /\ PcShape(hookPc[t])
  BY Zenon DEF HookInv, HookTyped, RemoveFixup
<1>1. PICK l \in Lists : l = hookPc[t].l
  BY <1>0 DEF PcShape
<1>2. PICK pc : pc = hookPc[t].next
  OBVIOUS
<1>3. End(l) \in 0 .. MaxValues + 1 /\ hookList[l].end = End(l)
  BY <1>0 DEF HookTyped, HookList, End
<1>4. PICK n \in 0 .. End(l) : Fixup(hookList[l].data, End(l), n)
                               /\ hookList' = [hookList EXCEPT ![l].end = n]
  BY <1>1, <1>3, Zenon DEF RemoveFixup
<1>5. EndSet(l, n)
  <2>1. n \in 0 .. MaxValues + 1
    BY <1>3, <1>4, HookAssumption
  <2> QED
    BY <1>0, <1>4, <2>1, StoreEnd, Zenon
<1>6. Writing(hookPc[t]) /\ Phase(hookPc[t]) = pc.at
  BY <1>0, <1>2, PhaseAt DEF Writing
<1>7. \A u \in HookThreads, j \in Slots : ~ AddingAt(u, l, j)
  <2>1. \A u \in HookThreads : Writing(hookPc[u]) => u = t
    BY <1>0, <1>6, Zenon DEF Writers
  <2>2. \A u \in HookThreads : hookPc[u].at # "add_end"
    BY <1>0, <2>1 DEF Writing
  <2> QED
    BY <2>2, Zenon DEF AddingAt
<1>8. ASSUME NEW j \in Slots, Data(l, j) # NoHook PROVE j < n
  <2>1. j < End(l)
    BY <1>0, <1>7, <1>8, Zenon DEF EndsRight
  <2> QED
    BY <1>3, <1>4, <1>8, <2>1 DEF Slots, Data, Fixup
<1>9. /\ pc.at \in {"idle", "remove_premmap", "initializers"}
      /\ PcShape(pc) /\ ~ Writing(pc) /\ Phase(pc) = pc.at
  <2>1. pc.at \in {"idle", "remove_premmap", "initializers"} /\ (pc.at # "idle" => pc \in CallRec)
    BY <1>0, <1>2 DEF PcShape
  <2> QED
    BY <2>1 DEF PcShape, Ats, Writing, Phase
<1>10. Moved(t, pc) /\ UNCHANGED <<hookOnce, initializersRun>> /\ hookLock' = NoHook
  BY <1>0, <1>2, GotoMoves, Zenon DEF RemoveFixup
<1>11. EndMoved(t, l, n, pc)
  <2>1. pc.at # "traverse"
    BY <1>9
  <2> QED
    BY <1>1, <1>5, <1>6, <1>8, <1>9, <1>10, <2>1, Zenon DEF EndMoved
<1>12. Once'
  BY <1>0, <1>5, <1>6, <1>9, <1>10, MoveSilent, OnceKept, Zenon DEF EndSet
<1> QED
  BY <1>11, <1>12, EndKept, Zenon

-----------------------------------------------------------------------------
(* Traversals and calls.                                                   *)

\* A step that only moves t, with no part in the initialization.
LEMMA StrollKept ==
  ASSUME HookInv, NEW t \in HookThreads, NEW pc, Goto(t, pc), PcShape(pc),
         UNCHANGED <<hookList, hookLock, hookOnce, initializersRun>>,
         ~ Writing(hookPc[t]), ~ Writing(pc), ~ Running(hookPc[t]), ~ Running(pc),
         pc.at = "traverse" => Meets(pc)
  PROVE  HookInv'
<1>1. HookTyped /\ Once
  BY Zenon DEF HookInv
<1>2. Quiet(t, pc)
  BY <1>1, GotoMoves, Zenon DEF Quiet
<1>3. \A k, j : Data(k, j)' = Data(k, j)
  BY Zenon DEF Data
<1>4. Once'
  BY <1>1, <1>2, <1>3, MoveSilent, OnceKept, Zenon DEF Quiet
<1> QED
  BY <1>2, <1>4, QuietKept, Zenon

\* A traversal begins: every hook in the list may be met, every registered
\* one is ahead of it.
LEMMA TraverseBegins ==
  ASSUME HookTyped, EndsRight, NEW l \in Lists, NEW after \in Seq(Value), NEW pc,
         pc = Traverse(l, after)
  PROVE  PcShape(pc) /\ pc.at = "traverse" /\ ~ Writing(pc) /\ ~ Running(pc) /\ Meets(pc)
<1>1. hookList[l] \in HookList
  BY Zenon DEF HookTyped
<1>2. /\ End(l) \in 0 .. MaxValues + 1 /\ hookList[l].end = End(l)
      /\ hookList[l].data \in [Slots -> Cell] /\ \A j \in Slots : Data(l, j) = hookList[l].data[j]
  BY <1>1 DEF HookList, End, Data
<1>3. /\ Range(hookList[l].data) \subseteq Cell
      /\ \A j \in Slots : Data(l, j) \in Range(hookList[l].data)
  BY <1>2 DEF Range
<1>4. \A h \in Registered(l) : /\ h \in Cell /\ h # NoHook
                               /\ \E j \in Slots : Data(l, j) = h /\ j < End(l)
  <2> TAKE h \in Registered(l)
  <2>1. h # NoHook
    BY Zenon DEF Registered
  <2>2. PICK j \in Slots : hookList[l].data[j] = h /\ ~ \E u \in HookThreads : AddingAt(u, l, j)
    BY Zenon DEF Registered, AddingAt
  <2>3. Data(l, j) = h /\ h \in Cell
    BY <1>2, <2>2
  <2>4. j < End(l)
    BY <2>1, <2>2, <2>3, Zenon DEF EndsRight
  <2> QED
    BY <2>1, <2>3, <2>4, Zenon
<1>5. Registered(l) \subseteq Value
  BY <1>4, Zenon DEF Cell
<1>6. /\ pc.at = "traverse" /\ pc.l = l /\ pc.i = 0 /\ pc.end = End(l) /\ pc.out = <<>>
      /\ pc.must = Registered(l) /\ pc.may = Range(hookList[l].data)
  BY <1>2, Zenon DEF Traverse
<1>7. pc \in TraverseRec
  <2>1. <<>> \in Seq(Value) /\ 0 \in Nat
    OBVIOUS
  <2>2. Registered(l) \in SUBSET Value /\ Range(hookList[l].data) \in SUBSET Cell
    BY <1>3, <1>5
  <2> HIDE DEF Registered
  <2> QED
    BY <1>2, <2>1, <2>2 DEF Traverse, TraverseRec
<1>8. PcShape(pc) /\ ~ Writing(pc) /\ ~ Running(pc)
  BY <1>6, <1>7, PhaseAt DEF PcShape, Ats, Writing
<1>9. Range(pc.out) = {}
  BY <1>6 DEF Range
<1>10. ASSUME NEW h \in pc.must
       PROVE  \E j \in Slots : pc.i <= j /\ j < pc.end /\ Data(pc.l, j) = h
  <2>1. PICK j \in Slots : Data(l, j) = h /\ j < End(l)
    BY <1>4, <1>6, <1>10, Zenon
  <2>2. 0 <= j
    BY DEF Slots
  <2> QED
    BY <1>6, <2>1, <2>2, Zenon
<1>11. \A j \in Slots : Data(pc.l, j) \in pc.may
  BY <1>3, <1>6, Zenon
<1>12. Meets(pc)
  BY <1>9, <1>10, <1>11, Zenon DEF Meets
<1> QED
  BY <1>6, <1>8, <1>12, Zenon

LEMMA InvokeKept ==
  ASSUME HookInv, NEW t \in HookThreads, NEW l \in Lists, NEW k,
         Start(t), Goto(t, IF hookList[k].end = 0 THEN HookIdle ELSE Traverse(l, <<>>)),
         UNCHANGED <<hookList, hookLock, hookOnce, initializersRun>>
  PROVE  HookInv'
<1>1. HookTyped /\ EndsRight /\ ~ Writing(hookPc[t]) /\ ~ Running(hookPc[t])
  BY PhaseAt DEF HookInv, Start, Writing
<1>2. CASE hookList[k].end = 0
  <2>1. Goto(t, HookIdle)
    BY <1>2
  <2>2. HookIdle.at # "traverse"
    BY IdleShape
  <2> QED
    BY <1>1, <2>1, <2>2, IdleShape, StrollKept, Zenon
<1>3. CASE hookList[k].end # 0
  <2>1. PICK pc : pc = Traverse(l, <<>>)
    OBVIOUS
  <2>2. Goto(t, pc) /\ <<>> \in Seq(Value)
    BY <1>3, <2>1
  <2>3. PcShape(pc) /\ pc.at = "traverse" /\ ~ Writing(pc) /\ ~ Running(pc) /\ Meets(pc)
    BY <1>1, <2>1, <2>2, TraverseBegins, Zenon
  <2> QED
    BY <1>1, <2>2, <2>3, StrollKept, Zenon
<1> QED
  BY <1>2, <1>3

LEMMA RangeAppend ==
  ASSUME NEW S, NEW s \in Seq(S), NEW x \in S
  PROVE  Range(Append(s, x)) = Range(s) \cup {x} /\ Append(s, x) \in Seq(S)
<1>1. /\ Append(s, x) \in Seq(S) /\ DOMAIN s = 1 .. Len(s)
      /\ DOMAIN Append(s, x) = 1 .. Len(s) + 1 /\ Len(s) \in Nat
  OBVIOUS
<1>2. Append(s, x)[Len(s) + 1] = x /\ \A j \in 1 .. Len(s) : Append(s, x)[j] = s[j]
  OBVIOUS
<1>3. 1 .. Len(s) + 1 = (1 .. Len(s)) \cup {Len(s) + 1}
  BY <1>1
<1>4. \A y : y \in Range(Append(s, x)) <=> \E j \in 1 .. Len(s) + 1 : Append(s, x)[j] = y
  BY <1>1, Zenon DEF Range
<1>5. \A y : y \in Range(s) <=> \E j \in 1 .. Len(s) : s[j] = y
  BY <1>1, Zenon DEF Range
<1>6. \A y : y \in Range(Append(s, x)) <=> y \in Range(s) \cup {x}
  BY <1>2, <1>3, <1>4, <1>5, Zenon
<1> QED
  BY <1>1, <1>6, Zenon

\* A traversal reads the next slot: what was ahead is met or is still ahead.
LEMMA TraverseSlotKept ==
  ASSUME HookInv, NEW t \in HookThreads, TraverseSlot(t)
  PROVE  HookInv'
<1>0. /\ HookTyped /\ hookPc[t].at = "traverse" /\ hookPc[t] \in TraverseRec /\ Meets(hookPc[t])
      /\ ~ TraverseDone(hookPc[t])
  BY Zenon DEF HookInv, HookTyped, PcShape, Traversals, TraverseSlot
<1>1. PICK p \in TraverseRec : p = hookPc[t]
  BY <1>0
<1>2. /\ p.at = "traverse" /\ p.l \in Lists /\ p.i \in Nat /\ p.end \in 0 .. MaxValues + 1
      /\ p.out \in Seq(Value) /\ p.must \subseteq Value /\ ~ (p.i >= p.end) /\ Meets(p)
  <2>1. /\ p.at = "traverse" /\ p.l \in Lists /\ p.i \in Nat /\ p.end \in 0 .. MaxValues + 1
        /\ p.out \in Seq(Value) /\ p.must \subseteq Value
    BY DEF TraverseRec
  <2> QED
    BY <1>0, <1>1, <2>1, Zenon DEF TraverseDone
<1>3. p.i \in Slots /\ p.i + 1 \in Nat
  BY <1>2, HookAssumption DEF Slots
<1>4. PICK d : d = Data(p.l, p.i)
  OBVIOUS
<1>5. d \in Cell
  BY <1>0, <1>2, <1>3, <1>4 DEF HookTyped, HookList, Data
<1>6. PICK out : out = IF d = NoHook THEN p.out ELSE Append(p.out, d)
  BY Zenon
<1>7. /\ out \in Seq(Value)
      /\ Range(out) = Range(p.out) \cup {x \in {d} : x # NoHook}
  <2>1. CASE d = NoHook
    BY <1>2, <1>6, <2>1
  <2>2. CASE d # NoHook
    <3>1. out = Append(p.out, d) /\ d \in Value
      BY <1>5, <1>6, <2>2 DEF Cell
    <3>2. Range(out) = Range(p.out) \cup {d} /\ out \in Seq(Value)
      BY <1>2, <3>1, RangeAppend, ZenonT(30)
    <3> QED
      BY <2>2, <3>2
  <2> QED
    BY <2>1, <2>2
<1>8. PICK pc : pc = [p EXCEPT !.i = @ + 1, !.out = out]
  OBVIOUS
<1>9. /\ pc \in TraverseRec /\ pc.at = "traverse" /\ pc.l = p.l /\ pc.i = p.i + 1
      /\ pc.end = p.end /\ pc.out = out /\ pc.must = p.must /\ pc.may = p.may
  BY <1>2, <1>3, <1>7, <1>8, Zenon DEF TraverseRec
<1>10. Goto(t, pc)
  BY <1>1, <1>4, <1>6, <1>8, Zenon DEF TraverseSlot, Data
<1>11. Meets(pc)
  <2>1. Range(pc.out) \subseteq pc.may
    BY <1>2, <1>3, <1>4, <1>7, <1>9, Zenon DEF Meets
  <2>2. \A j \in Slots : Data(pc.l, j) # NoHook => Data(pc.l, j) \in pc.may
    BY <1>2, <1>9, Zenon DEF Meets
  <2>3. ASSUME NEW h \in pc.must
        PROVE  \/ h \in Range(pc.out)
               \/ \E j \in Slots : pc.i <= j /\ j < pc.end /\ Data(pc.l, j) = h
    <3>1. h \in p.must /\ h # NoHook
      BY <1>2, <1>9, <2>3, NullNoValue, Zenon
    <3>2. CASE h \in Range(p.out)
      BY <1>7, <1>9, <3>2, Zenon
    <3>3. CASE \E j \in Slots : p.i <= j /\ j < p.end /\ Data(p.l, j) = h
      <4>1. PICK j \in Slots : p.i <= j /\ j < p.end /\ Data(p.l, j) = h
        BY <3>3
      <4>2. CASE j = p.i
        BY <1>4, <1>7, <1>9, <3>1, <4>1, <4>2, Zenon
      <4>3. CASE j # p.i
        <5>1. p.i + 1 <= j
          BY <1>2, <4>1, <4>3 DEF Slots
        <5> QED
          BY <1>9, <4>1, <5>1, Zenon
      <4> QED
        BY <4>2, <4>3
    <3> QED
      BY <1>2, <3>1, <3>2, <3>3, Zenon DEF Meets
  <2> QED
    BY <2>1, <2>2, <2>3, Zenon DEF Meets
<1>12. PcShape(pc) /\ ~ Writing(pc) /\ ~ Running(pc) /\ ~ Writing(hookPc[t]) /\ ~ Running(hookPc[t])
  BY <1>0, <1>9, PhaseAt DEF PcShape, Ats, Writing
<1>13. UNCHANGED <<hookList, hookLock, hookOnce, initializersRun>>
  BY Zenon DEF TraverseSlot
<1> QED
  BY <1>10, <1>11, <1>12, <1>13, StrollKept, Zenon

LEMMA CallShape ==
  ASSUME NEW l \in Lists, NEW hooks \in Seq(Value), NEW pc,
         pc = [at |-> "call", l |-> l, hooks |-> hooks]
  PROVE  PcShape(pc) /\ ~ Writing(pc) /\ ~ Running(pc) /\ pc.at = "call" /\ pc \in CallRec
<1>1. pc \in CallRec /\ pc.at = "call"
  BY DEF CallRec, Ats
<1> QED
  BY <1>1, PhaseAt DEF PcShape, Ats, Writing

LEMMA CallHooksKept ==
  ASSUME HookInv, NEW t \in HookThreads, CallHooks(t)
  PROVE  HookInv'
<1>0. HookTyped /\ hookPc[t].at = "traverse" /\ hookPc[t] \in TraverseRec
  BY Zenon DEF HookInv, HookTyped, PcShape, CallHooks
<1>1. PICK p \in TraverseRec : p = hookPc[t]
  BY <1>0
<1>2. p.l \in Lists /\ p.out \in Seq(Value) /\ p.after \in Seq(Value)
  BY DEF TraverseRec
<1>3. PICK hooks : hooks = IF p.l \in Replacements
                           THEN SubSeq(p.out, 1, IF p.out = <<>> THEN 0 ELSE 1)
                           ELSE p.out \o p.after
  BY Zenon
<1>4. hooks \in Seq(Value)
  <2>1. p.out \o p.after \in Seq(Value)
    BY <1>2
  <2>2. SubSeq(p.out, 1, IF p.out = <<>> THEN 0 ELSE 1) \in Seq(Value)
    BY <1>2
  <2> QED
    BY <1>3, <2>1, <2>2
<1>5. PICK pc : pc = [at |-> "call", l |-> p.l, hooks |-> hooks]
  BY Zenon
<1>6. PcShape(pc) /\ ~ Writing(pc) /\ ~ Running(pc) /\ pc.at = "call"
  BY <1>2, <1>4, <1>5, CallShape
<1>7. Goto(t, pc)
  BY <1>1, <1>3, <1>5 DEF CallHooks
<1>8. ~ Writing(hookPc[t]) /\ ~ Running(hookPc[t]) /\ pc.at # "traverse"
  BY <1>0, <1>6, PhaseAt DEF Writing
<1>9. UNCHANGED <<hookList, hookLock, hookOnce, initializersRun>>
  BY Zenon DEF CallHooks
<1> QED
  BY <1>6, <1>7, <1>8, <1>9, StrollKept, Zenon

LEMMA CallHookKept ==
  ASSUME HookInv, NEW t \in HookThreads, CallHook(t)
  PROVE  HookInv'
<1>0. /\ HookTyped /\ Once /\ EndsRight /\ hookPc[t].at = "call" /\ hookPc[t] \in CallRec
      /\ UNCHANGED <<hookList, hookLock, initializersRun>>
  BY DEF HookInv, HookTyped, PcShape, CallHook
<1>1. PICK p \in CallRec : p = hookPc[t]
  BY <1>0
<1>2. p.l \in Lists /\ p.hooks \in Seq(Value) /\ ~ Writing(hookPc[t]) /\ ~ Running(hookPc[t])
  BY <1>0, PhaseAt DEF CallRec, Writing
<1>3. CASE Goto(t, HookIdle) /\ UNCHANGED hookOnce
  <2>1. HookIdle.at # "traverse"
    BY IdleShape
  <2> QED
    BY <1>0, <1>2, <1>3, <2>1, IdleShape, StrollKept, Zenon
<1>4. CASE p.hooks # <<>> /\ Goto(t, [p EXCEPT !.hooks = Tail(@)]) /\ UNCHANGED hookOnce
  <2>1. PICK pc : pc = [p EXCEPT !.hooks = Tail(@)]
    BY Zenon
  <2>2. Tail(p.hooks) \in Seq(Value)
    BY <1>2, <1>4
  <2>3. pc \in CallRec /\ pc.at = "call"
    BY <1>0, <1>1, <2>1, <2>2, Zenon DEF CallRec
  <2>4. PcShape(pc) /\ ~ Writing(pc) /\ ~ Running(pc) /\ pc.at # "traverse"
    BY <2>3, PhaseAt DEF PcShape, Ats, Writing
  <2> QED
    BY <1>0, <1>2, <1>4, <2>1, <2>4, StrollKept, Zenon
<1>5. CASE /\ hookOnce = "init" /\ hookOnce' = "running"
           /\ Goto(t, [at |-> "remove_new", l |-> p.l, hooks |-> p.hooks])
  <2>1. PICK pc : pc = [at |-> "remove_new", l |-> p.l, hooks |-> p.hooks]
    BY Zenon
  <2>2. pc \in CallRec /\ pc.at = "remove_new"
    BY <1>2, <2>1 DEF CallRec, Ats
  <2>3. PcShape(pc) /\ ~ Writing(pc) /\ Phase(pc) = "remove_new" /\ pc.at # "traverse"
    BY <2>2, PhaseAt DEF PcShape, Ats, Writing
  <2>4. Moved(t, pc)
    BY <1>0, <1>5, <2>1, GotoMoves, Zenon
  <2>5. Quiet(t, pc)
    BY <1>0, <1>2, <2>3, <2>4, Zenon DEF Quiet
  <2>6. \A u \in HookThreads \ {t} : ~ Running(hookPc'[u]) /\ hookPc'[u] = hookPc[u]
    <3>1. hookOnce # "running"
      BY <1>5
    <3> QED
      BY <1>0, <2>4, <3>1, Zenon DEF Once, Moved
  <2>7. \A l, j : Data(l, j)' = Data(l, j) /\ Initial(l)' = Initial(l)
    BY <1>0, Zenon DEF Data, Initial
  <2>8. Once'
    <3>1. hookPc'[t] = pc
      BY <2>4, Zenon DEF Moved
    <3>2. \A u \in HookThreads : Running(hookPc'[u]) =>
            /\ hookOnce' = "running"
            /\ \A v \in HookThreads : Running(hookPc'[v]) => u = v
      BY <1>5, <2>6, Zenon
    <3>3. hookOnce' # "done" /\ hookOnce # "done" /\ hookOnce' # "init"
      BY <1>5
    <3>4. hookOnce' \in {"init", "running", "done"}
      BY <1>5
    <3>5. initializersRun' = IF hookOnce' = "done" THEN 1 ELSE 0
      BY <1>0, <3>3 DEF Once
    <3>6. Initial("new")' /\ Initial("premmap")'
      BY <1>0, <1>5, <2>7, Zenon DEF Once
    <3>7. \A u \in HookThreads \ {t} :
            Phase(hookPc'[u]) \notin {"remove_new", "remove_premmap", "initializers"}
      BY <2>6, Zenon DEF Running
    <3>8. \A u \in HookThreads :
            /\ Phase(hookPc'[u]) = "remove_new" => Initial("new")' /\ Initial("premmap")'
            /\ Phase(hookPc'[u]) = "remove_premmap" => ~ Initial("new")' /\ Initial("premmap")'
            /\ Phase(hookPc'[u]) = "initializers" => ~ Initial("new")' /\ ~ Initial("premmap")'
      <4> TAKE u \in HookThreads
      <4>1. CASE u = t
        <5>1. Phase(hookPc'[u]) = "remove_new"
          BY <2>3, <3>1, <4>1
        <5>2. Phase(hookPc'[u]) # "remove_premmap" /\ Phase(hookPc'[u]) # "initializers"
          BY <5>1
        <5> QED
          BY <3>6, <5>2, Zenon
      <4>2. CASE u # t
        BY <3>7, <4>2, Zenon
      <4> QED
        BY <4>1, <4>2
    <3>9. \A l \in Lists, j \in Slots : Data(l, j)' = InitialHook => j = 0 /\ hookOnce' # "done"
      BY <1>0, <2>7, <3>3, Zenon DEF Once
    <3>10. \A l \in Replacements : ~ Initial(l)'
      BY <1>0, <2>7, Zenon DEF Once
    <3> QED
      BY <3>2, <3>3, <3>4, <3>5, <3>8, <3>9, <3>10, Zenon DEF Once
  <2> QED
    BY <2>5, <2>8, QuietKept, Zenon
<1>6. CASE p.hooks # <<>> /\ Goto(t, Traverse(p.l, Tail(p.hooks))) /\ UNCHANGED hookOnce
  <2>1. PICK after : after = Tail(p.hooks)
    BY Zenon
  <2>2. after \in Seq(Value)
    BY <1>2, <1>6, <2>1
  <2>3. PICK pc : pc = Traverse(p.l, after)
    OBVIOUS
  <2>4. PcShape(pc) /\ pc.at = "traverse" /\ ~ Writing(pc) /\ ~ Running(pc) /\ Meets(pc)
    BY <1>0, <1>2, <2>2, <2>3, TraverseBegins, Zenon
  <2> QED
    BY <1>0, <1>2, <1>6, <2>1, <2>3, <2>4, StrollKept, Zenon
<1> QED
  BY <1>1, <1>3, <1>4, <1>5, <1>6, Zenon DEF CallHook

-----------------------------------------------------------------------------
(* RemoveInitialHooksAndCallInitializers                                   *)

\* The initial hook of list l goes, by the one thread that initializes.
LEMMA InitialHookGoes ==
  ASSUME HookInv, NEW t \in HookThreads, NEW l \in NotifyLists, NEW next \in CallRec,
         RemoveFromList(t, l, InitialHook, next), UNCHANGED <<hookOnce, initializersRun>>,
         \/ hookPc[t].at = "remove_new" /\ l = "new" /\ next.at = "remove_premmap"
         \/ hookPc[t].at = "remove_premmap" /\ l = "premmap" /\ next.at = "initializers"
  PROVE  HookInv'
<1>0. HookTyped /\ Once /\ l \in Lists /\ hookPc[t].at # "traverse"
      /\ next.at \in {"remove_premmap", "initializers"}
  BY SlotZero DEF HookInv
<1>1. Removes(t, l, InitialHook, next.at)
  BY <1>0, RemoveWrites, Zenon
<1>2. PICK i \in Slots : \E pc : /\ Write(t, l, i, NoHook, InitialHook, pc)
                                 /\ pc.at = "fixup" /\ Phase(pc) = next.at
  BY <1>1, Zenon DEF Removes
<1>3. PICK pc : Write(t, l, i, NoHook, InitialHook, pc) /\ pc.at = "fixup" /\ Phase(pc) = next.at
  BY <1>2
<1>4. /\ Stored(l, i, NoHook) /\ Data(l, i) = InitialHook
      /\ Noted(t, l, NoHook, InitialHook, pc) /\ hookPc'[t] = pc
  BY <1>3, Zenon DEF Write, Noted
<1>5. i = 0
  BY <1>0, <1>4, Zenon DEF Once
<1>6. /\ ~ Initial(l)' /\ \A k \in Lists \ {l} : Initial(k)' <=> Initial(k)
      /\ \A k \in Lists, j \in Slots : Data(k, j)' = InitialHook => Data(k, j) = InitialHook
  BY <1>4, <1>5, SlotZero, NullNoValue, Zenon DEF Stored, Initial
<1>7. Phase(hookPc[t]) = hookPc[t].at /\ Running(hookPc[t])
  BY PhaseAt DEF Running
<1>8. hookOnce = "running" /\ \A u \in HookThreads : Running(hookPc[u]) => u = t
  BY <1>0, <1>7, Zenon DEF Once
<1>9. \A u \in HookThreads \ {t} : ~ Running(hookPc'[u])
  BY <1>0, <1>4, <1>8, OthersStay, Zenon DEF Running
<1>10. Once'
  <2>1. \A u \in HookThreads : Running(hookPc'[u]) =>
          /\ hookOnce' = "running"
          /\ \A v \in HookThreads : Running(hookPc'[v]) => u = v
    BY <1>8, <1>9, Zenon
  <2>2. hookOnce' \in {"init", "running", "done"} /\ hookOnce' # "init"
        /\ initializersRun' = IF hookOnce' = "done" THEN 1 ELSE 0
    BY <1>0, <1>8 DEF Once
  <2>3. \A k \in Lists, j \in Slots : Data(k, j)' = InitialHook => j = 0 /\ hookOnce' # "done"
    BY <1>0, <1>6, Zenon DEF Once
  <2>4. \A k \in Replacements : ~ Initial(k)'
    BY <1>0, <1>6, SlotZero, Zenon DEF Once, Initial
  <2>5. ASSUME NEW u \in HookThreads
        PROVE  /\ Phase(hookPc'[u]) = "remove_new" => Initial("new")' /\ Initial("premmap")'
               /\ Phase(hookPc'[u]) = "remove_premmap" => ~ Initial("new")' /\ Initial("premmap")'
               /\ Phase(hookPc'[u]) = "initializers" => ~ Initial("new")' /\ ~ Initial("premmap")'
    <3>1. CASE u # t
      BY <1>9, <3>1, Zenon DEF Running
    <3>2. CASE u = t /\ hookPc[t].at = "remove_new"
      <4>1. l = "new" /\ Phase(hookPc'[u]) = "remove_premmap"
        BY <1>3, <1>4, <3>2
      <4>2. Initial("premmap")
        BY <1>0, <1>7, <3>2, Zenon DEF Once
      <4>3. ~ Initial("new")' /\ Initial("premmap")'
        <5>1. "premmap" \in Lists \ {l}
          BY <4>1, SlotZero
        <5> QED
          BY <1>6, <4>1, <4>2, <5>1, Zenon
      <4>4. Phase(hookPc'[u]) # "remove_new" /\ Phase(hookPc'[u]) # "initializers"
        BY <4>1
      <4> QED
        BY <4>3, <4>4, Zenon
    <3>3. CASE u = t /\ hookPc[t].at = "remove_premmap"
      <4>1. l = "premmap" /\ Phase(hookPc'[u]) = "initializers"
        BY <1>3, <1>4, <3>3
      <4>2. ~ Initial("new")
        BY <1>0, <1>7, <3>3, Zenon DEF Once
      <4>3. ~ Initial("new")' /\ ~ Initial("premmap")'
        <5>1. "new" \in Lists \ {l}
          BY <4>1, SlotZero
        <5> QED
          BY <1>6, <4>1, <4>2, <5>1, Zenon
      <4>4. Phase(hookPc'[u]) # "remove_new" /\ Phase(hookPc'[u]) # "remove_premmap"
        BY <4>1
      <4> QED
        BY <4>3, <4>4, Zenon
    <3> QED
      BY <3>1, <3>2, <3>3, Zenon
  <2> QED
    BY <2>1, <2>2, <2>3, <2>4, <2>5, Zenon DEF Once
<1> QED
  BY <1>0, <1>3, <1>10, NullNoValue, WriteKept, Zenon

LEMMA InitializersKept ==
  ASSUME HookInv, NEW t \in HookThreads, NEW p \in CallRec, p = hookPc[t], p.at = "initializers",
         initializersRun' = initializersRun + 1, hookOnce' = "done",
         Goto(t, [at |-> "call", l |-> p.l, hooks |-> p.hooks]), UNCHANGED <<hookList, hookLock>>
  PROVE  HookInv'
<1>0. HookTyped /\ Once
  BY Zenon DEF HookInv
<1>1. PICK pc : pc = [at |-> "call", l |-> p.l, hooks |-> p.hooks]
  OBVIOUS
<1>2. p.l \in Lists /\ p.hooks \in Seq(Value)
  BY DEF CallRec
<1>3. PcShape(pc) /\ ~ Writing(pc) /\ ~ Running(pc) /\ pc.at # "traverse"
  BY <1>1, <1>2, CallShape
<1>4. Moved(t, pc)
  BY <1>0, <1>1, GotoMoves, Zenon
<1>5. ~ Writing(hookPc[t]) /\ Running(hookPc[t]) /\ Phase(hookPc[t]) = "initializers"
  BY PhaseAt DEF Writing, Running
<1>6. Quiet(t, pc)
  BY <1>3, <1>4, <1>5, Zenon DEF Quiet
<1>7. \A u \in HookThreads : ~ Running(hookPc'[u])
  BY <1>0, <1>3, <1>4, <1>5, Zenon DEF Once, Moved
<1>8. \A l, j : Data(l, j)' = Data(l, j) /\ Initial(l)' = Initial(l)
  BY Zenon DEF Data, Initial
<1>9. \A l \in Lists, j \in Slots : Data(l, j) # InitialHook
  <2>1. ~ Initial("new") /\ ~ Initial("premmap") /\ \A l \in Replacements : ~ Initial(l)
    BY <1>0, <1>5, Zenon DEF Once
  <2>2. \A l \in Lists : ~ Initial(l)
    BY <2>1 DEF Lists, NotifyLists
  <2> QED
    BY <1>0, <2>2, Zenon DEF Once, Initial
<1>10. hookOnce = "running" /\ initializersRun = 0
  BY <1>0, <1>5 DEF Once
<1>11. Once'
  <2>1. hookOnce' \in {"init", "running", "done"} /\ hookOnce' # "init"
        /\ initializersRun' = IF hookOnce' = "done" THEN 1 ELSE 0
    BY <1>10
  <2>2. \A u \in HookThreads :
          Phase(hookPc'[u]) \notin {"remove_new", "remove_premmap", "initializers"}
    BY <1>7, Zenon DEF Running
  <2>3. \A l \in Replacements : ~ Initial(l)'
    BY <1>0, <1>8, Zenon DEF Once
  <2> QED
    BY <1>7, <1>8, <1>9, <2>1, <2>2, <2>3, Zenon DEF Once
<1> QED
  BY <1>6, <1>11, QuietKept, Zenon

LEMMA RemoveInitialHooksKept ==
  ASSUME HookInv, NEW t \in HookThreads, RemoveInitialHooks(t)
  PROVE  HookInv'
<1>0. HookTyped /\ PcShape(hookPc[t])
  BY Zenon DEF HookInv, HookTyped
<1>1. hookPc[t].at \in {"remove_new", "remove_premmap", "initializers"}
  BY Zenon DEF RemoveInitialHooks
<1>2. PICK p \in CallRec : p = hookPc[t]
  BY <1>0, <1>1 DEF PcShape
<1>3. CASE /\ p.at = "remove_new"
           /\ RemoveFromList(t, "new", InitialHook, [p EXCEPT !.at = "remove_premmap"])
           /\ UNCHANGED <<hookOnce, initializersRun>>
  <2>1. PICK next : next = [p EXCEPT !.at = "remove_premmap"]
    BY Zenon
  <2>2. next \in CallRec /\ next.at = "remove_premmap"
    BY <2>1 DEF CallRec, Ats
  <2> QED
    BY <1>2, <1>3, <2>1, <2>2, SlotZero, InitialHookGoes, Zenon DEF NotifyLists
<1>4. CASE /\ p.at = "remove_premmap"
           /\ RemoveFromList(t, "premmap", InitialHook, [p EXCEPT !.at = "initializers"])
           /\ UNCHANGED <<hookOnce, initializersRun>>
  <2>1. PICK next : next = [p EXCEPT !.at = "initializers"]
    BY Zenon
  <2>2. next \in CallRec /\ next.at = "initializers"
    BY <2>1 DEF CallRec, Ats
  <2> QED
    BY <1>2, <1>4, <2>1, <2>2, SlotZero, InitialHookGoes, Zenon DEF NotifyLists
<1>5. CASE /\ p.at = "initializers" /\ initializersRun' = initializersRun + 1 /\ hookOnce' = "done"
           /\ Goto(t, [at |-> "call", l |-> p.l, hooks |-> p.hooks])
           /\ UNCHANGED <<hookList, hookLock>>
  BY <1>2, <1>5, InitializersKept
<1> QED
  BY <1>2, <1>3, <1>4, <1>5, Zenon DEF RemoveInitialHooks

-----------------------------------------------------------------------------
(* The invariant is inductive, and gives the property.                     *)

LEMMA HookInitial == HookInit => HookInv
<1> SUFFICES ASSUME HookInit PROVE HookInv
  OBVIOUS
<1>1. \A t \in HookThreads : hookPc[t] = HookIdle
  BY DEF HookInit
<1>2. \A t \in HookThreads : /\ PcShape(hookPc[t]) /\ ~ Writing(hookPc[t]) /\ ~ Running(hookPc[t])
                             /\ hookPc[t].at # "traverse" /\ hookPc[t].at # "add_end"
  <2>1. HookIdle.at # "traverse" /\ HookIdle.at # "add_end"
    BY IdleShape
  <2> QED
    BY <1>1, <2>1, IdleShape, Zenon
<1>3. ASSUME NEW l \in NotifyLists
      PROVE  /\ hookList[l] \in HookList /\ End(l) = 1
             /\ \A j \in Slots : Data(l, j) = IF j = 0 THEN InitialHook ELSE NoHook
  <2>1. hookList[l] = [end |-> 1, data |-> [i \in Slots |-> IF i = 0 THEN InitialHook ELSE NoHook]]
    BY <1>3, SlotZero DEF HookInit
  <2>2. 1 \in 0 .. MaxValues + 1
    BY HookAssumption
  <2>3. [i \in Slots |-> IF i = 0 THEN InitialHook ELSE NoHook] \in [Slots -> Cell]
    BY NullNoValue
  <2> QED
    BY <2>1, <2>2, <2>3 DEF HookList, End, Data
<1>4. ASSUME NEW l \in Replacements
      PROVE  hookList[l] \in HookList /\ \A j \in Slots : Data(l, j) = NoHook
  <2>1. l \notin NotifyLists /\ l \in Lists
    BY DEF NotifyLists, Replacements, Lists
  <2>2. hookList[l] = [end |-> 0, data |-> [i \in Slots |-> NoHook]]
    BY <2>1 DEF HookInit
  <2>3. 0 \in 0 .. MaxValues + 1
    BY HookAssumption
  <2>4. [i \in Slots |-> NoHook] \in [Slots -> Cell]
    BY NullNoValue
  <2> QED
    BY <2>2, <2>3, <2>4 DEF HookList, Data
<1>5. hookList \in [Lists -> HookList]
  <2>1. hookList = [l \in Lists |-> hookList[l]]
    BY DEF HookInit
  <2>2. \A l \in Lists : hookList[l] \in HookList
    BY <1>3, <1>4, Zenon DEF Lists
  <2> QED
    BY <2>1, <2>2, Zenon
<1>6. HookTyped
  BY <1>2, <1>5 DEF HookTyped, HookInit
<1>7. Writers /\ Traversals
  BY <1>2, Zenon DEF Writers, Traversals
<1>8. EndsRight
  <2>1. \A t \in HookThreads, l \in Lists, j \in Slots : ~ AddingAt(t, l, j)
    BY <1>2, Zenon DEF AddingAt
  <2>2. ASSUME NEW l \in Lists, NEW j \in Slots, Data(l, j) # NoHook PROVE j < End(l)
    <3>1. l \in NotifyLists
      BY <1>4, <2>2, Zenon DEF Lists
    <3>2. j = 0 /\ End(l) = 1
      BY <1>3, <2>2, <3>1
    <3> QED
      BY <3>2
  <2> QED
    BY <2>1, <2>2, Zenon DEF EndsRight
<1>9. Once
  <2>1. hookOnce = "init" /\ initializersRun = 0
    BY Zenon DEF HookInit
  <2>2. Initial("new") /\ Initial("premmap")
    BY <1>3, SlotZero DEF Initial
  <2>3. \A l \in Lists, j \in Slots : Data(l, j) = InitialHook => j = 0
    <3> TAKE l \in Lists, j \in Slots
    <3>1. CASE l \in NotifyLists
      BY <1>3, <3>1, NullNoValue
    <3>2. CASE l \in Replacements
      BY <1>4, <3>2, NullNoValue, Zenon
    <3> QED
      BY <3>1, <3>2, Zenon DEF Lists
  <2>4. \A l \in Replacements : ~ Initial(l)
    BY <1>4, SlotZero, NullNoValue, Zenon DEF Initial
  <2>5. \A t \in HookThreads :
          Phase(hookPc[t]) \notin {"remove_new", "remove_premmap", "initializers"}
    BY <1>2, Zenon DEF Running
  <2>6. hookOnce # "done" /\ hookOnce \in {"init", "running", "done"}
        /\ initializersRun = IF hookOnce = "done" THEN 1 ELSE 0
    BY <2>1
  <2> QED
    BY <1>2, <2>2, <2>3, <2>4, <2>5, <2>6, Zenon DEF Once
<1> QED
  BY <1>6, <1>7, <1>8, <1>9, Zenon DEF HookInv

LEMMA HookStutter == HookInv /\ UNCHANGED hookVars => HookInv'
<1> SUFFICES ASSUME HookInv, UNCHANGED hookVars PROVE HookInv'
  OBVIOUS
<1>1. /\ hookList' = hookList /\ hookLock' = hookLock /\ hookPc' = hookPc
      /\ hookOnce' = hookOnce /\ initializersRun' = initializersRun
  BY DEF hookVars
<1>2. HookTyped' /\ Writers'
  BY <1>1, Zenon DEF HookInv, HookTyped, Writers
<1>3. EndsRight'
  <2>1. /\ \A t, l, j : AddingAt(t, l, j)' <=> AddingAt(t, l, j)
        /\ \A l, j : Data(l, j)' = Data(l, j) /\ End(l)' = End(l)
    BY <1>1, Zenon DEF AddingAt, Data, End
  <2> QED
    BY <2>1, Zenon DEF HookInv, EndsRight
<1>4. Traversals'
  BY <1>1, Zenon DEF HookInv, Traversals, Meets, Data
<1>5. Once'
  BY <1>1, Zenon DEF HookInv, Once, Initial, Data
<1> QED
  BY <1>2, <1>3, <1>4, <1>5, Zenon DEF HookInv

LEMMA HookInductive == HookInv /\ [HookNext]_hookVars => HookInv'
<1> SUFFICES ASSUME HookInv, [HookNext]_hookVars PROVE HookInv'
  OBVIOUS
<1>1. CASE UNCHANGED hookVars
  BY <1>1, HookStutter
<1>2. ASSUME NEW t \in HookThreads, NEW h \in Hooks, AddHook(t, h) PROVE HookInv'
  <2>1. PICK l \in NotifyLists : Start(t) /\ Add(t, l, h) /\ UNCHANGED <<hookOnce, initializersRun>>
    BY <1>2, Zenon DEF AddHook
  <2>2. hookPc[t].at \in {"idle", "set_replacement"} /\ l \in Lists
    BY <2>1, SlotZero, Zenon DEF Start
  <2> QED
    BY <2>1, <2>2, AddKept, Zenon
<1>3. ASSUME NEW t \in HookThreads, NEW h \in Hooks, RemoveHook(t, h) PROVE HookInv'
  BY <1>3, RemoveKept
<1>4. ASSUME NEW t \in HookThreads, NEW h \in Hooks \cup {NoHook}, SetHook(t, h) PROVE HookInv'
  BY <1>4, SetHookKept
<1>5. ASSUME NEW t \in HookThreads, NEW h \in Hooks, NEW l \in Replacements, SetReplacement(t, l, h)
      PROVE  HookInv'
  <2>1. PICK pc : pc = [at |-> "set_replacement", l |-> l, h |-> h]
    BY Zenon
  <2>2. /\ hookPc[t].at = "idle" /\ Goto(t, pc)
        /\ UNCHANGED <<hookList, hookLock, hookOnce, initializersRun>>
    BY <1>5, <2>1, Zenon DEF SetReplacement, Start
  <2>3. pc.at = "set_replacement" /\ pc.l \in Lists /\ pc.h \in Hooks
    BY <2>1, SlotZero
  <2>4. PcShape(pc) /\ ~ Writing(pc) /\ ~ Running(pc) /\ pc.at # "traverse"
    BY <2>3, PhaseAt DEF PcShape, Ats, Writing
  <2>5. ~ Writing(hookPc[t]) /\ ~ Running(hookPc[t])
    BY <2>2, PhaseAt DEF Writing
  <2> QED
    BY <2>2, <2>4, <2>5, StrollKept, Zenon
<1>6. ASSUME NEW t \in HookThreads, SetReplacementAdd(t) PROVE HookInv'
  <2>1. /\ hookPc[t].at = "set_replacement" /\ Add(t, hookPc[t].l, hookPc[t].h)
        /\ UNCHANGED <<hookOnce, initializersRun>> /\ PcShape(hookPc[t])
    BY <1>6, Zenon DEF SetReplacementAdd, HookInv, HookTyped
  <2>2. PICK l \in Lists : l = hookPc[t].l
    BY <2>1 DEF PcShape
  <2>3. PICK h \in Hooks : h = hookPc[t].h
    BY <2>1 DEF PcShape
  <2>4. hookPc[t].at \in {"idle", "set_replacement"}
    BY <2>1
  <2>5. Add(t, l, h)
    BY <2>1, <2>2, <2>3, Zenon
  <2> QED
    BY <2>1, <2>4, <2>5, AddKept, Zenon
<1>7. ASSUME NEW t \in HookThreads, InvokeMunmapReplacement(t) PROVE HookInv'
  <2>1. "munmap_replacement" \in Lists
    BY SlotZero DEF Replacements
  <2> QED
    BY <1>7, <2>1, InvokeKept, Zenon DEF InvokeMunmapReplacement
<1>8. ASSUME NEW t \in HookThreads, NEW l \in NotifyLists \cup {"mmap_replacement"}, Invoke(t, l)
      PROVE  HookInv'
  <2>1. l \in Lists
    BY SlotZero DEF Replacements
  <2> QED
    BY <1>8, <2>1, InvokeKept, Zenon DEF Invoke
<1>9. ASSUME NEW t \in HookThreads,
             \/ AddEnd(t) \/ RemoveFixup(t) \/ TraverseSlot(t)
             \/ CallHooks(t) \/ CallHook(t) \/ RemoveInitialHooks(t)
      PROVE  HookInv'
  BY <1>9, AddEndKept, RemoveFixupKept, TraverseSlotKept, CallHooksKept, CallHookKept,
     RemoveInitialHooksKept, Zenon
<1> QED
  BY <1>1, <1>2, <1>3, <1>4, <1>5, <1>6, <1>7, <1>8, <1>9, Zenon DEF HookNext

LEMMA HookInvRegular == HookInv => HookListsRegular
<1> SUFFICES ASSUME HookInv PROVE HookListsRegular
  OBVIOUS
<1>0. HookTyped /\ Traversals /\ EndsRight /\ Once
  BY Zenon DEF HookInv
<1>1. TraversalRegular
  <2> SUFFICES ASSUME NEW t \in HookThreads, hookPc[t].at = "traverse"
      PROVE  /\ Range(hookPc[t].out) \subseteq hookPc[t].may
             /\ TraverseDone(hookPc[t]) /\ Len(hookPc[t].out) < MaxValues =>
                  hookPc[t].must \subseteq Range(hookPc[t].out)
    BY Zenon DEF TraversalRegular
  <2>1. PICK p \in TraverseRec : p = hookPc[t] /\ Meets(p)
    BY <1>0, Zenon DEF HookTyped, PcShape, Traversals
  <2>2. p.i \in Nat /\ p.end \in 0 .. MaxValues + 1 /\ p.out \in Seq(Value)
    BY DEF TraverseRec
  <2>3. Range(p.out) \subseteq p.may
    BY <2>1, Zenon DEF Meets
  <2>4. ASSUME TraverseDone(p), Len(p.out) < MaxValues PROVE p.must \subseteq Range(p.out)
    <3>1. p.i >= p.end
      BY <2>2, <2>4, HookAssumption DEF TraverseDone
    <3>2. \A j \in Slots : ~ (p.i <= j /\ j < p.end)
      BY <2>2, <3>1 DEF Slots
    <3> QED
      BY <2>1, <3>2, Zenon DEF Meets
  <2> QED
    BY <2>1, <2>3, <2>4, Zenon
<1>2. \A l \in Lists : Initial(l) => Found(l, InitialHook) # {}
  <2> SUFFICES ASSUME NEW l \in Lists, Initial(l) PROVE Found(l, InitialHook) # {}
    BY Zenon
  <2>1. Data(l, 0) = InitialHook /\ 0 \in Slots
    BY SlotZero, Zenon DEF Initial
  <2>2. 0 < End(l)
    BY <1>0, <2>1, NullNoValue, Zenon DEF EndsRight
  <2>3. 0 \in Found(l, InitialHook)
    BY <2>1, <2>2, Zenon DEF Found, Data, End
  <2> QED
    BY <2>3, Zenon
<1>3. hookOnce = "done" => \A l \in NotifyLists : Found(l, InitialHook) = {}
  <2> SUFFICES ASSUME hookOnce = "done", NEW l \in NotifyLists, NEW i \in Found(l, InitialHook)
      PROVE FALSE
    BY Zenon
  <2>1. i \in Slots /\ Data(l, i) = InitialHook /\ l \in Lists
    BY SlotZero, Zenon DEF Found, Data
  <2> QED
    BY <1>0, <2>1, Zenon DEF Once
<1>4. \A t \in HookThreads :
        /\ hookPc[t].at = "remove_new" => Found("new", InitialHook) # {}
        /\ hookPc[t].at = "remove_premmap" => Found("premmap", InitialHook) # {}
  <2> TAKE t \in HookThreads
  <2>1. /\ hookPc[t].at = "remove_new" => Phase(hookPc[t]) = "remove_new"
        /\ hookPc[t].at = "remove_premmap" => Phase(hookPc[t]) = "remove_premmap"
    BY PhaseAt
  <2> QED
    BY <1>0, <1>2, <2>1, SlotZero, Zenon DEF Once
<1>5. initializersRun = IF hookOnce = "done" THEN 1 ELSE 0
  BY <1>0, Zenon DEF Once
<1>6. InitializedOnce
  BY <1>3, <1>4, <1>5, Zenon DEF InitializedOnce
<1> QED
  BY <1>1, <1>6, Zenon DEF HookListsRegular

\* The lock-free traversals of INVOKE_HOOKS meet every hook that is registered
\* while they last and none that is not, for any number of threads and slots;
\* RemoveInitialHooksAndCallInitializers runs its initializers once and its
\* RAW_CHECKs hold.
THEOREM HookTraversalsRegular == HookSpec => []HookListsRegular
<1>1. HookSpec => []HookInv
  BY HookInitial, HookInductive, PTL DEF HookSpec
<1> QED
  BY <1>1, HookInvRegular, PTL

-----------------------------------------------------------------------------
(* The inductive invariant of the hooks on mappings.                       *)

Task == [do : {"sentinel", "set", "clear", "fault", "exit"}, pages : SUBSET HookPages]

MmapTyped ==
  /\ mapped \subseteq HookPages /\ brk \in Nat
  /\ DOMAIN entry = HookPages
  /\ isPageTableAlloced \in BOOLEAN
  /\ metalloc_sentinel \in {"null", "page", "failed"}
  /\ todo \in [MmapThreads -> Seq(Task)]

\* A table that is not allocated has no entries.
NoTable == ~ isPageTableAlloced => \A p \in HookPages : entry[p] = "none"

\* Thread t has still to write the entry of p, lastly in step i.
Has(s, p) == \E i \in DOMAIN s : p \in s[i].pages
LastOn(s, p, i) ==
  i \in DOMAIN s /\ p \in s[i].pages /\ \A j \in DOMAIN s : i < j => p \notin s[j].pages

\* What that step writes is right, or it ends the program.
Proper(s, p, M) ==
  \A i \in DOMAIN s : LastOn(s, p, i) =>
    s[i].do = "exit" \/ s[i].do = IF p \in M THEN "set" ELSE "clear"

\* A call that sets entries asks for the sentinel first.
AsksFirst(s, m) ==
  \A i \in DOMAIN s : s[i].do = "set" =>
    m # "null" \/ \E j \in DOMAIN s : j < i /\ s[j].do = "sentinel"

\* One thread at most works on a page that no race has disturbed, and the
\* entries of pages that none works on are right.
Tracked(p) ==
  /\ \A t, u \in MmapThreads : Has(todo[t], p) /\ Has(todo[u], p) => t = u
  /\ \A t \in MmapThreads : Proper(todo[t], p, mapped)
  /\ (\A t \in MmapThreads : ~ Has(todo[t], p)) =>
       entry[p] = IF p \in mapped THEN "sentinel" ELSE "none"

MmapInv ==
  status = "run" =>
    /\ MmapTyped /\ NoTable
    /\ \A t \in MmapThreads : AsksFirst(todo[t], metalloc_sentinel)
    /\ metalloc_sentinel # "failed" => \A p \in HookPages \ disturbed : Tracked(p)

-----------------------------------------------------------------------------
(* Lists of steps.                                                         *)

LEMMA NoTask ==
  /\ <<>> \in Seq(Task)
  /\ \A p : ~ Has(<<>>, p)
  BY DEF Has

LEMMA OneTask ==
  ASSUME NEW a \in Task
  PROVE  /\ <<a>> \in Seq(Task)
         /\ DOMAIN <<a>> = 1 .. 1 /\ <<a>>[1] = a
  OBVIOUS

LEMMA TwoTasks ==
  ASSUME NEW a \in Task, NEW b \in Task
  PROVE  /\ <<a, b>> \in Seq(Task)
         /\ DOMAIN <<a, b>> = 1 .. 2 /\ <<a, b>>[1] = a /\ <<a, b>>[2] = b
  OBVIOUS

LEMMA FourTasks ==
  ASSUME NEW a \in Task, NEW b \in Task, NEW c \in Task, NEW d \in Task
  PROVE  /\ <<a, b, c, d>> \in Seq(Task)
         /\ DOMAIN <<a, b, c, d>> = 1 .. 4
         /\ <<a, b, c, d>>[1] = a /\ <<a, b, c, d>>[2] = b
         /\ <<a, b, c, d>>[3] = c /\ <<a, b, c, d>>[4] = d
  OBVIOUS

LEMMA TailOf ==
  ASSUME NEW s \in Seq(Task), s # <<>>
  PROVE  /\ Tail(s) \in Seq(Task) /\ Head(s) \in Task /\ Head(s) = s[1]
         /\ DOMAIN s = 1 .. Len(s) /\ DOMAIN Tail(s) = 1 .. Len(s) - 1
         /\ Len(s) \in Nat \ {0}
         /\ \A i \in 1 .. Len(s) - 1 : Tail(s)[i] = s[i + 1]
  OBVIOUS

LEMMA TailHas ==
  ASSUME NEW s \in Seq(Task), s # <<>>, NEW p
  PROVE  Has(s, p) <=> p \in Head(s).pages \/ Has(Tail(s), p)
<1> DEFINE r == Tail(s)
           n == Len(s)
<1>1. /\ DOMAIN s = 1 .. n /\ DOMAIN r = 1 .. n - 1 /\ n \in Nat \ {0} /\ Head(s) = s[1]
      /\ \A i \in 1 .. n - 1 : r[i] = s[i + 1]
  BY TailOf
<1> HIDE DEF r, n
<1>2. ASSUME Has(s, p) PROVE p \in s[1].pages \/ Has(r, p)
  <2>1. PICK i \in 1 .. n : p \in s[i].pages
    BY <1>1, <1>2 DEF Has
  <2>2. CASE i = 1
    BY <2>1, <2>2
  <2>3. CASE i # 1
    <3>1. i - 1 \in 1 .. n - 1 /\ r[i - 1] = s[i]
      BY <1>1, <2>3
    <3> QED
      BY <1>1, <2>1, <3>1 DEF Has
  <2> QED
    BY <2>2, <2>3
<1>3. ASSUME Has(r, p) PROVE Has(s, p)
  <2>1. PICK i \in 1 .. n - 1 : p \in r[i].pages
    BY <1>1, <1>3 DEF Has
  <2>2. i + 1 \in 1 .. n /\ p \in s[i + 1].pages
    BY <1>1, <2>1
  <2> QED
    BY <1>1, <2>2, Zenon DEF Has
<1>4. p \in s[1].pages => Has(s, p)
  BY <1>1 DEF Has
<1> QED
  BY <1>1, <1>2, <1>3, <1>4 DEF r

\* The rest of a list writes rightly what the list writes rightly, and the first
\* step does where the rest writes nothing.
LEMMA TailProper ==
  ASSUME NEW s \in Seq(Task), s # <<>>, NEW p, NEW M, Proper(s, p, M)
  PROVE  /\ Proper(Tail(s), p, M)
         /\ p \in Head(s).pages /\ ~ Has(Tail(s), p) =>
              Head(s).do = "exit" \/ Head(s).do = IF p \in M THEN "set" ELSE "clear"
<1> DEFINE r == Tail(s)
           n == Len(s)
<1>1. /\ DOMAIN s = 1 .. n /\ DOMAIN r = 1 .. n - 1 /\ n \in Nat \ {0} /\ Head(s) = s[1]
      /\ \A i \in 1 .. n - 1 : r[i] = s[i + 1]
  BY TailOf
<1> HIDE DEF r, n
<1>2. ASSUME NEW i \in DOMAIN r, LastOn(r, p, i)
      PROVE  r[i].do = "exit" \/ r[i].do = IF p \in M THEN "set" ELSE "clear"
  <2>1. i \in 1 .. n - 1 /\ i + 1 \in 1 .. n /\ r[i] = s[i + 1] /\ p \in s[i + 1].pages
    BY <1>1, <1>2 DEF LastOn
  <2>2. ASSUME NEW j \in 1 .. n, i + 1 < j PROVE p \notin s[j].pages
    <3>1. j - 1 \in 1 .. n - 1 /\ i < j - 1 /\ r[j - 1] = s[j]
      BY <1>1, <2>1, <2>2
    <3> QED
      BY <1>1, <1>2, <3>1 DEF LastOn
  <2>3. LastOn(s, p, i + 1)
    BY <1>1, <2>1, <2>2 DEF LastOn
  <2> QED
    BY <1>1, <2>1, <2>3 DEF Proper
<1>3. ASSUME p \in s[1].pages, ~ Has(r, p)
      PROVE  s[1].do = "exit" \/ s[1].do = IF p \in M THEN "set" ELSE "clear"
  <2>1. ASSUME NEW j \in 1 .. n, 1 < j PROVE p \notin s[j].pages
    <3>1. j - 1 \in 1 .. n - 1 /\ r[j - 1] = s[j]
      BY <1>1, <2>1
    <3> QED
      BY <1>1, <1>3, <3>1 DEF Has
  <2>2. LastOn(s, p, 1)
    BY <1>1, <1>3, <2>1 DEF LastOn
  <2> QED
    BY <1>1, <2>2 DEF Proper
<1> QED
  BY <1>1, <1>2, <1>3 DEF r, Proper

LEMMA TailAsks ==
  ASSUME NEW s \in Seq(Task), s # <<>>, NEW m, NEW k, AsksFirst(s, m),
         Head(s).do = "sentinel" => k # "null",
         m # "null" => k # "null"
  PROVE  AsksFirst(Tail(s), k)
<1> DEFINE r == Tail(s)
           n == Len(s)
<1>1. /\ DOMAIN s = 1 .. n /\ DOMAIN r = 1 .. n - 1 /\ n \in Nat \ {0} /\ Head(s) = s[1]
      /\ \A i \in 1 .. n - 1 : r[i] = s[i + 1]
  BY TailOf
<1> HIDE DEF r, n
<1>2. ASSUME NEW i \in 1 .. n - 1, r[i].do = "set", k = "null"
      PROVE  \E j \in 1 .. n - 1 : j < i /\ r[j].do = "sentinel"
  <2>1. i + 1 \in 1 .. n /\ s[i + 1].do = "set"
    BY <1>1, <1>2
  <2>2. PICK j \in 1 .. n : j < i + 1 /\ s[j].do = "sentinel"
    BY <1>1, <1>2, <2>1, Zenon DEF AsksFirst
  <2>3. j # 1
    BY <1>1, <1>2, <2>2
  <2>4. j - 1 \in 1 .. n - 1 /\ r[j - 1] = s[j] /\ j - 1 < i
    BY <1>1, <2>2, <2>3
  <2> QED
    BY <2>2, <2>4
<1> QED
  BY <1>1, <1>2, Zenon DEF AsksFirst, r

-----------------------------------------------------------------------------
(* A call begins: thread t is to do the steps s.                           *)

Begins(t, s) ==
  /\ status = "run" /\ status' = "run" /\ todo[t] = <<>> /\ s \in Seq(Task)
  /\ todo' = [todo EXCEPT ![t] = s]
  /\ mapped' \subseteq HookPages /\ brk' \in Nat
  /\ entry' = entry /\ isPageTableAlloced' = isPageTableAlloced
  /\ metalloc_sentinel' = metalloc_sentinel
  /\ AsksFirst(s, metalloc_sentinel)
  /\ \A p \in HookPages \ disturbed' :
       \/ /\ Has(s, p) /\ Proper(s, p, mapped')
          /\ \A u \in MmapThreads \ {t} : ~ Has(todo[u], p)
       \/ ~ Has(s, p) /\ p \notin disturbed /\ (p \in mapped' <=> p \in mapped)

LEMMA BeginsKept ==
  ASSUME MmapInv, NEW t \in MmapThreads, NEW s, Begins(t, s)
  PROVE  MmapInv'
<1>1. /\ MmapTyped /\ NoTable /\ \A u \in MmapThreads : AsksFirst(todo[u], metalloc_sentinel)
      /\ metalloc_sentinel # "failed" => \A p \in HookPages \ disturbed : Tracked(p)
  BY Zenon DEF MmapInv, Begins
<1>2. /\ todo'[t] = s /\ \A u \in MmapThreads \ {t} : todo'[u] = todo[u]
      /\ todo' \in [MmapThreads -> Seq(Task)]
  BY <1>1 DEF MmapTyped, Begins
<1>3. MmapTyped' /\ NoTable'
  BY <1>1, <1>2, Zenon DEF MmapTyped, NoTable, Begins
<1>4. \A u \in MmapThreads : AsksFirst(todo'[u], metalloc_sentinel')
  BY <1>1, <1>2, Zenon DEF Begins
<1>5. ASSUME metalloc_sentinel' # "failed", NEW p \in HookPages \ disturbed'
      PROVE  /\ \A v, u \in MmapThreads : Has(todo'[v], p) /\ Has(todo'[u], p) => v = u
             /\ \A u \in MmapThreads : Proper(todo'[u], p, mapped')
             /\ (\A u \in MmapThreads : ~ Has(todo'[u], p)) =>
                  entry'[p] = IF p \in mapped' THEN "sentinel" ELSE "none"
  <2>1. CASE /\ Has(s, p) /\ Proper(s, p, mapped')
             /\ \A u \in MmapThreads \ {t} : ~ Has(todo[u], p)
    <3>1. \A u \in MmapThreads : Has(todo'[u], p) => u = t
      BY <1>2, <2>1, Zenon
    <3>2. \A u \in MmapThreads \ {t} : Proper(todo[u], p, mapped')
      BY <2>1, Zenon DEF Proper, LastOn, Has
    <3> QED
      BY <1>2, <2>1, <3>1, <3>2, Zenon
  <2>2. CASE ~ Has(s, p) /\ p \notin disturbed /\ (p \in mapped' <=> p \in mapped)
    <3>1. Tracked(p)
      BY <1>1, <1>5, <2>2, Zenon DEF Begins
    <3>2. \A u \in MmapThreads : Has(todo'[u], p) => u # t /\ Has(todo[u], p)
      BY <1>2, <2>2, Zenon
    <3>3. ASSUME NEW u \in MmapThreads PROVE Proper(todo'[u], p, mapped')
      <4>1. CASE u = t
        BY <1>2, <2>2, <4>1, Zenon DEF Proper, LastOn, Has
      <4>2. CASE u # t
        <5>1. Proper(todo[u], p, mapped)
          BY <3>1, Zenon DEF Tracked
        <5>2. (IF p \in mapped' THEN "set" ELSE "clear") = IF p \in mapped THEN "set" ELSE "clear"
          BY <2>2, Zenon
        <5> QED
          BY <1>2, <4>2, <5>1, <5>2, Zenon DEF Proper
      <4> QED
        BY <4>1, <4>2, Zenon
    <3>4. ASSUME \A u \in MmapThreads : ~ Has(todo'[u], p)
          PROVE  entry'[p] = IF p \in mapped' THEN "sentinel" ELSE "none"
      <4>1. \A u \in MmapThreads : ~ Has(todo[u], p)
        BY <1>2, <3>4, NoTask, Zenon DEF Begins
      <4> QED
        BY <2>2, <3>1, <4>1, Zenon DEF Tracked, Begins
    <3> QED
      BY <3>1, <3>2, <3>3, <3>4, Zenon DEF Tracked
  <2> QED
    BY <2>1, <2>2, Zenon DEF Begins
<1>6. metalloc_sentinel' # "failed" => \A p \in HookPages \ disturbed' : Tracked(p)'
  BY <1>5, Zenon DEF Tracked, HookPages
<1> QED
  BY <1>3, <1>4, <1>6, Zenon DEF MmapInv, HookPages

-----------------------------------------------------------------------------
(* A step of a call: the first of the list is done.                        *)

LEMMA TableKept ==
  ASSUME MmapTyped, NoTable
  PROVE  \A p \in HookPages : page_table_init_entries[p] = entry[p]
  BY Zenon DEF MmapTyped, NoTable, page_table_init_entries

\* What the first step s of a list does.
Does(s) ==
  /\ DOMAIN entry' = HookPages
  /\ \A p \in HookPages :
       entry'[p] = IF s.do \in {"set", "clear"} /\ p \in s.pages
                   THEN (IF s.do = "set" THEN SentinelEntry ELSE "none") ELSE entry[p]
  /\ isPageTableAlloced' \in BOOLEAN
  /\ ~ isPageTableAlloced' => \A p \in HookPages : entry'[p] = "none"
  /\ metalloc_sentinel' \in {"null", "page", "failed"}
  /\ s.do = "sentinel" => metalloc_sentinel' # "null"
  /\ metalloc_sentinel # "null" => metalloc_sentinel' = metalloc_sentinel
  /\ s.do = "sentinel" \/ metalloc_sentinel' = metalloc_sentinel
  /\ status' = "run" => s.do \notin {"fault", "exit"}

LEMMA StepDoes ==
  ASSUME MmapTyped, NoTable, NEW t \in MmapThreads, MmapStep(t)
  PROVE  Does(Head(todo[t]))
<1> DEFINE s == Head(todo[t])
<1>0. /\ DOMAIN entry = HookPages /\ isPageTableAlloced \in BOOLEAN
      /\ metalloc_sentinel \in {"null", "page", "failed"}
      /\ ~ isPageTableAlloced => \A p \in HookPages : entry[p] = "none"
  BY Zenon DEF MmapTyped, NoTable
<1>1. CASE /\ s.do = "sentinel"
           /\ \/ metalloc_sentinel # "null" /\ metalloc_sentinel' = metalloc_sentinel
              \/ metalloc_sentinel = "null" /\ metalloc_sentinel' \in {"page", "failed"}
           /\ entry' = entry /\ isPageTableAlloced' = isPageTableAlloced /\ status' = status
  BY <1>0, <1>1 DEF Does
<1>2. CASE s.do = "set" /\ SetEntries(s.pages, SentinelEntry)
           /\ metalloc_sentinel' = metalloc_sentinel
  <2>1. /\ DOMAIN entry' = HookPages /\ isPageTableAlloced' = TRUE
        /\ \A p \in HookPages : entry'[p] = IF p \in s.pages THEN SentinelEntry ELSE entry[p]
    BY <1>2, TableKept, Zenon DEF SetEntries
  <2> QED
    BY <1>0, <1>2, <2>1 DEF Does
<1>3. CASE s.do = "clear" /\ SetEntries(s.pages, "none")
           /\ metalloc_sentinel' = metalloc_sentinel
  <2>1. /\ DOMAIN entry' = HookPages /\ isPageTableAlloced' = TRUE
        /\ \A p \in HookPages : entry'[p] = IF p \in s.pages THEN "none" ELSE entry[p]
    BY <1>3, TableKept, Zenon DEF SetEntries
  <2> QED
    BY <1>0, <1>3, <2>1 DEF Does
<1>4. CASE /\ s.do \in {"fault", "exit"} /\ status' = s.do
           /\ entry' = entry /\ isPageTableAlloced' = isPageTableAlloced
           /\ metalloc_sentinel' = metalloc_sentinel
  BY <1>0, <1>4 DEF Does
<1> QED
  BY <1>1, <1>2, <1>3, <1>4, Zenon DEF MmapStep

LEMMA StepKept ==
  ASSUME MmapInv, NEW t \in MmapThreads, MmapStep(t)
  PROVE  MmapInv'
<1> SUFFICES ASSUME status' = "run" PROVE MmapInv'
  BY Zenon DEF MmapInv
<1> DEFINE s == todo[t]
           h == Head(s)
<1>0. /\ status = "run" /\ s # <<>> /\ todo' = [todo EXCEPT ![t] = Tail(s)]
      /\ mapped' = mapped /\ brk' = brk /\ disturbed' = disturbed
  BY Zenon DEF MmapStep
<1>1. /\ MmapTyped /\ NoTable /\ \A u \in MmapThreads : AsksFirst(todo[u], metalloc_sentinel)
      /\ metalloc_sentinel # "failed" => \A p \in HookPages \ disturbed : Tracked(p)
  BY <1>0, Zenon DEF MmapInv
<1>2. Does(h)
  BY <1>1, StepDoes, Zenon
<1>3. s \in Seq(Task) /\ Tail(s) \in Seq(Task) /\ h \in Task
  BY <1>0, <1>1, TailOf, Zenon DEF MmapTyped
<1>4. /\ todo'[t] = Tail(s) /\ \A u \in MmapThreads \ {t} : todo'[u] = todo[u]
      /\ todo' \in [MmapThreads -> Seq(Task)]
  BY <1>0, <1>1, <1>3 DEF MmapTyped
<1> HIDE DEF h
<1>5. MmapTyped' /\ NoTable'
  BY <1>0, <1>1, <1>2, <1>4, Zenon DEF MmapTyped, NoTable, Does, HookPages
<1>6. ASSUME NEW u \in MmapThreads PROVE AsksFirst(todo'[u], metalloc_sentinel')
  <2>1. metalloc_sentinel # "null" => metalloc_sentinel' # "null"
    BY <1>2, Zenon DEF Does
  <2>2. CASE u = t
    <3>1. AsksFirst(Tail(s), metalloc_sentinel')
      BY <1>0, <1>1, <1>2, <1>3, <2>1, TailAsks, Zenon DEF Does, h
    <3> QED
      BY <1>4, <2>2, <3>1, Zenon
  <2>3. CASE u # t
    <3>1. AsksFirst(todo[u], metalloc_sentinel')
      BY <1>1, <2>1, Zenon DEF AsksFirst
    <3> QED
      BY <1>4, <2>3, <3>1, Zenon
  <2> QED
    BY <2>2, <2>3, Zenon
<1>7. ASSUME metalloc_sentinel' # "failed", NEW p \in HookPages \ disturbed
      PROVE  /\ \A v, u \in MmapThreads : Has(todo'[v], p) /\ Has(todo'[u], p) => v = u
             /\ \A u \in MmapThreads : Proper(todo'[u], p, mapped')
             /\ (\A u \in MmapThreads : ~ Has(todo'[u], p)) =>
                  entry'[p] = IF p \in mapped' THEN "sentinel" ELSE "none"
  <2>1. Tracked(p)
    BY <1>1, <1>2, <1>7, Zenon DEF Does
  <2>2. Has(s, p) <=> p \in h.pages \/ Has(Tail(s), p)
    BY <1>0, <1>3, TailHas, Zenon DEF h
  <2>3. /\ Proper(Tail(s), p, mapped)
        /\ p \in h.pages /\ ~ Has(Tail(s), p) =>
             h.do = "exit" \/ h.do = IF p \in mapped THEN "set" ELSE "clear"
    BY <1>0, <1>3, <2>1, TailProper, Zenon DEF Tracked, h
  <2>4. \A u \in MmapThreads : Has(todo'[u], p) => Has(todo[u], p)
    BY <1>4, <2>2, Zenon
  <2>5. \A v, u \in MmapThreads : Has(todo'[v], p) /\ Has(todo'[u], p) => v = u
    BY <2>1, <2>4, Zenon DEF Tracked
  <2>6. \A u \in MmapThreads : Proper(todo'[u], p, mapped')
    BY <1>0, <1>4, <2>1, <2>3, Zenon DEF Tracked
  <2>7. ASSUME \A u \in MmapThreads : ~ Has(todo'[u], p)
        PROVE  entry'[p] = IF p \in mapped THEN "sentinel" ELSE "none"
    <3>1. ~ Has(Tail(s), p) /\ \A u \in MmapThreads \ {t} : ~ Has(todo[u], p)
      BY <1>4, <2>7, Zenon
    <3>2. CASE p \in h.pages
      <4>1. h.do = IF p \in mapped THEN "set" ELSE "clear"
        BY <1>2, <2>3, <3>1, <3>2, Zenon DEF Does
      <4>2. h.do = "set" => SentinelEntry = "sentinel"
        <5>1. ASSUME h.do = "set" PROVE metalloc_sentinel # "null"
          <6>1. DOMAIN s = 1 .. Len(s) /\ Len(s) \in Nat \ {0} /\ h = s[1]
            BY <1>0, <1>3, TailOf, Zenon DEF h
          <6>2. 1 \in DOMAIN s /\ s[1].do = "set" /\ \A j \in DOMAIN s : ~ (j < 1)
            BY <5>1, <6>1
          <6> QED
            BY <1>1, <6>2, Zenon DEF AsksFirst
        <5>2. metalloc_sentinel # "failed" /\ metalloc_sentinel \in {"null", "page", "failed"}
          BY <1>1, <1>2, <1>7, Zenon DEF Does, MmapTyped
        <5> QED
          BY <5>1, <5>2, Zenon DEF SentinelEntry
      <4>3. entry'[p] = IF h.do = "set" THEN SentinelEntry ELSE "none"
        BY <1>2, <3>2, <4>1 DEF Does
      <4> QED
        BY <4>1, <4>2, <4>3
    <3>3. CASE p \notin h.pages
      <4>1. \A u \in MmapThreads : ~ Has(todo[u], p)
        BY <2>2, <3>1, <3>3, Zenon
      <4>2. entry'[p] = entry[p]
        BY <1>2, <3>3, Zenon DEF Does
      <4> QED
        BY <2>1, <4>1, <4>2, Zenon DEF Tracked
    <3> QED
      BY <3>2, <3>3, Zenon
  <2> QED
    BY <1>0, <2>5, <2>6, <2>7, Zenon
<1>8. metalloc_sentinel' # "failed" => \A p \in HookPages \ disturbed' : Tracked(p)'
  BY <1>0, <1>7, Zenon DEF Tracked, HookPages
<1> QED
  BY <1>5, <1>6, <1>8, Zenon DEF MmapInv, HookPages

-----------------------------------------------------------------------------
(* The lists of steps that the calls leave.                                *)

LEMMA PendingMeans ==
  ASSUME NEW ts
  PROVE  \A p : p \in Pending(ts) <=> \E t \in ts : Has(todo[t], p)
  BY DEF Pending, Has

\* A list s that writes exactly the pages ps, rightly if the mapped pages
\* are M.
ListFor(s, ps, M, m) ==
  /\ s \in Seq(Task) /\ AsksFirst(s, m)
  /\ \A p : Has(s, p) <=> p \in ps
  /\ \A p \in ps : Proper(s, p, M)

LEMMA Tasks ==
  ASSUME NEW ps \in SUBSET HookPages
  PROVE  /\ DoSentinel \in Task /\ DoFault \in Task
         /\ DoSet(ps) \in Task /\ DoClear(ps) \in Task /\ DoExit(ps) \in Task
         /\ DoSentinel.do = "sentinel" /\ DoSentinel.pages = {}
         /\ DoFault.do = "fault" /\ DoFault.pages = {}
         /\ DoSet(ps).do = "set" /\ DoSet(ps).pages = ps
         /\ DoClear(ps).do = "clear" /\ DoClear(ps).pages = ps
         /\ DoExit(ps).do = "exit" /\ DoExit(ps).pages = ps
  BY DEF Task, DoSentinel, DoFault, DoSet, DoClear, DoExit

LEMMA SetList ==
  ASSUME NEW ps \in SUBSET HookPages, NEW M, ps \subseteq M, NEW m
  PROVE  ListFor(<<DoSentinel, DoSet(ps)>>, ps, M, m)
<1> DEFINE a == DoSentinel
           b == DoSet(ps)
           s == <<a, b>>
<1>1. /\ a \in Task /\ b \in Task /\ a.do = "sentinel" /\ a.pages = {}
      /\ b.do = "set" /\ b.pages = ps
  BY Tasks, Zenon
<1> HIDE DEF a, b
<1>2. s \in Seq(Task) /\ DOMAIN s = 1 .. 2 /\ s[1] = a /\ s[2] = b
  BY <1>1, TwoTasks
<1> HIDE DEF s
<1>3. AsksFirst(s, m)
  BY <1>1, <1>2 DEF AsksFirst
<1>4. \A p : Has(s, p) <=> p \in ps
  BY <1>1, <1>2 DEF Has
<1>5. \A p \in ps : Proper(s, p, M)
  BY <1>1, <1>2 DEF Proper, LastOn
<1> QED
  BY <1>2, <1>3, <1>4, <1>5, Zenon DEF ListFor, s, a, b

LEMMA FaultList ==
  ASSUME NEW M, NEW m
  PROVE  ListFor(<<DoSentinel, DoFault>>, {}, M, m)
<1> DEFINE a == DoSentinel
           b == DoFault
           s == <<a, b>>
<1>1. /\ a \in Task /\ b \in Task /\ a.do = "sentinel" /\ a.pages = {}
      /\ b.do = "fault" /\ b.pages = {}
  BY Tasks, Zenon
<1> HIDE DEF a, b
<1>2. s \in Seq(Task) /\ DOMAIN s = 1 .. 2 /\ s[1] = a /\ s[2] = b
  BY <1>1, TwoTasks
<1> HIDE DEF s
<1>3. AsksFirst(s, m)
  BY <1>1, <1>2 DEF AsksFirst
<1>4. \A p : Has(s, p) <=> p \in {}
  BY <1>1, <1>2 DEF Has
<1> QED
  BY <1>2, <1>3, <1>4, Zenon DEF ListFor, s, a, b

LEMMA ClearList ==
  ASSUME NEW ps \in SUBSET HookPages, NEW M, NEW m
  PROVE  /\ ListFor(<<DoExit(ps)>>, ps, M, m)
         /\ ps \cap M = {} => ListFor(<<DoClear(ps)>>, ps, M, m)
         /\ <<DoClear(ps)>> \in Seq(Task) /\ AsksFirst(<<DoClear(ps)>>, m)
         /\ \A p : Has(<<DoClear(ps)>>, p) <=> p \in ps
<1>1. ASSUME NEW a \in Task, a.do \in {"exit", "clear"}, a.pages = ps,
             a.do = "clear" => ps \cap M = {}
      PROVE  ListFor(<<a>>, ps, M, m)
  <2> DEFINE s == <<a>>
  <2>1. s \in Seq(Task) /\ DOMAIN s = 1 .. 1 /\ s[1] = a
    BY OneTask
  <2> HIDE DEF s
  <2>2. AsksFirst(s, m)
    BY <1>1, <2>1 DEF AsksFirst
  <2>3. \A p : Has(s, p) <=> p \in ps
    BY <1>1, <2>1 DEF Has
  <2>4. \A p \in ps : Proper(s, p, M)
    BY <1>1, <2>1 DEF Proper
  <2> QED
    BY <2>1, <2>2, <2>3, <2>4, Zenon DEF ListFor, s
<1>2. ListFor(<<DoExit(ps)>>, ps, M, m)
  <2>1. DoExit(ps) \in Task /\ DoExit(ps).do = "exit" /\ DoExit(ps).pages = ps
    BY Tasks, Zenon
  <2> QED
    BY <1>1, <2>1, Zenon
<1> DEFINE c == DoClear(ps)
           r == <<c>>
<1>3. c \in Task /\ c.do = "clear" /\ c.pages = ps
  BY Tasks, Zenon
<1>4. ps \cap M = {} => ListFor(r, ps, M, m)
  BY <1>1, <1>3, Zenon
<1> HIDE DEF c
<1>5. r \in Seq(Task) /\ DOMAIN r = 1 .. 1 /\ r[1] = c
  BY <1>3, OneTask
<1> HIDE DEF r
<1>6. AsksFirst(r, m) /\ \A p : Has(r, p) <=> p \in ps
  BY <1>3, <1>5 DEF AsksFirst, Has
<1> QED
  BY <1>2, <1>4, <1>5, <1>6, Zenon DEF r, c

\* The steps that mremap leaves when the length is whole pages.
RemapSteps(old, d) == <<DoClear(old), DoSentinel, DoClear(old), d>>
LastOfRemap(d, M) ==
  /\ d \in Task /\ d.do \in {"set", "fault"}
  /\ d.do = "set" => d.pages \subseteq M
  /\ d.do = "fault" => d.pages = {}
Covers(d, P) == P \subseteq d.pages

LEMMA RemapList ==
  ASSUME NEW old \in SUBSET HookPages, NEW d, NEW M, NEW m, LastOfRemap(d, M)
  PROVE  /\ RemapSteps(old, d) \in Seq(Task) /\ AsksFirst(RemapSteps(old, d), m)
         /\ \A p : Has(RemapSteps(old, d), p) <=> p \in old \cup d.pages
         /\ Covers(d, M \cap old) => ListFor(RemapSteps(old, d), old \cup d.pages, M, m)
<1> DEFINE a == DoClear(old)
           b == DoSentinel
           s == <<a, b, a, d>>
<1>0. /\ d \in Task /\ d.do \in {"set", "fault"}
      /\ d.do = "set" => d.pages \subseteq M
      /\ d.do = "fault" => d.pages = {}
  BY Zenon DEF LastOfRemap
<1>1. /\ a \in Task /\ b \in Task /\ b.do = "sentinel" /\ b.pages = {}
      /\ a.do = "clear" /\ a.pages = old
  BY Tasks, Zenon
<1> HIDE DEF a, b
<1>2. s \in Seq(Task) /\ DOMAIN s = 1 .. 4 /\ s[1] = a /\ s[2] = b /\ s[3] = a /\ s[4] = d
  BY <1>0, <1>1, FourTasks
<1> HIDE DEF s
<1>3. AsksFirst(s, m)
  <2>1. 2 \in DOMAIN s /\ s[2].do = "sentinel" /\ \A i \in DOMAIN s : s[i].do = "set" => 2 < i
    BY <1>0, <1>1, <1>2
  <2> QED
    BY <2>1, Zenon DEF AsksFirst
<1>4. \A p : Has(s, p) <=> p \in old \cup d.pages
  <2>1. \A i \in DOMAIN s : s[i].pages \subseteq old \cup d.pages
    BY <1>0, <1>1, <1>2
  <2>2. 1 \in DOMAIN s /\ 4 \in DOMAIN s /\ s[1].pages = old /\ s[4].pages = d.pages
    BY <1>0, <1>1, <1>2
  <2> QED
    BY <2>1, <2>2, Zenon DEF Has
<1>5. ASSUME Covers(d, M \cap old), NEW p \in old \cup d.pages, NEW i \in DOMAIN s,
             LastOn(s, p, i)
      PROVE  s[i].do = IF p \in M THEN "set" ELSE "clear"
  <2>1. CASE p \in d.pages
    <3>1. i = 4
      BY <1>0, <1>2, <1>5, <2>1 DEF LastOn
    <3>2. d.do = "set" /\ p \in M
      BY <1>0, <2>1, Zenon
    <3> QED
      BY <1>0, <1>2, <3>1, <3>2
  <2>2. CASE p \notin d.pages
    <3>1. i = 3
      BY <1>0, <1>1, <1>2, <1>5, <2>2 DEF LastOn
    <3>2. p \notin M
      BY <1>5, <2>2, Zenon DEF Covers
    <3> QED
      BY <1>0, <1>1, <1>2, <3>1, <3>2
  <2> QED
    BY <2>1, <2>2, Zenon
<1>6. Covers(d, M \cap old) => \A p \in old \cup d.pages : Proper(s, p, M)
  BY <1>5, Zenon DEF Proper
<1> QED
  BY <1>0, <1>2, <1>3, <1>4, <1>6, Zenon DEF ListFor, RemapSteps, s, a, b

-----------------------------------------------------------------------------
(* The calls.                                                              *)

LEMMA QuotientsAdd ==
  ASSUME NEW a \in Nat, NEW c \in Nat, NEW k \in Nat \ {0}
  PROVE  (a \div k) + (c \div k) <= (a + c) \div k
<1> DEFINE q == a \div k
           r == c \div k
           z == (a + c) \div k
<1>1. /\ q \in Int /\ a % k \in 0 .. k - 1 /\ a = k * q + (a % k)
      /\ r \in Int /\ c % k \in 0 .. k - 1 /\ c = k * r + (c % k)
      /\ z \in Int /\ (a + c) % k \in 0 .. k - 1 /\ a + c = k * z + ((a + c) % k)
  OBVIOUS
<1> HIDE DEF q, r, z
<1>2. ASSUME z < q + r PROVE FALSE
  <2>1. (q + r - z - 1) * k >= 0
    BY <1>1, <1>2
  <2>2. k * q + k * r - k * z - k >= 0
    BY <1>1, <2>1, SMTT(30)
  <2> QED
    BY <1>1, <2>2, SMTT(30)
<1>3. q + r <= z
  BY <1>1, <1>2
<1> QED
  BY <1>3 DEF q, r, z

LEMMA RoundedInt ==
  ASSUME NEW n \in Int
  PROVE  /\ Rounded(n) \in Int
         /\ n >= 0 => Rounded(n) = (n + PageBytes - 1) \div PageBytes
         /\ Rounded(n) > 0 => n > 0
<1> DEFINE k == PageBytes
           x == n + PageBytes - 1
<1>0. k \in Nat \ {0} /\ x \in Int /\ x = n + k - 1
  BY MmapAssumption
<1>1. /\ x \div k \in Int /\ x % k \in 0 .. k - 1 /\ x = k * (x \div k) + (x % k)
      /\ (-x) \div k \in Int /\ (-x) % k \in 0 .. k - 1
      /\ -x = k * ((-x) \div k) + ((-x) % k)
  BY <1>0
<1>2. Rounded(n) = IF x >= 0 THEN x \div k ELSE -((-x) \div k)
  BY DEF Rounded
<1> DEFINE y == x \div k
           w == (-x) \div k
<1> HIDE DEF k, x, y, w
<1>3. ASSUME x >= 0, y > 0 PROVE n > 0
  <2>1. k * y >= k
    <3>1. (y - 1) * k >= 0
      BY <1>0, <1>1, <1>3 DEF y
    <3> QED
      BY <1>0, <1>1, <3>1, SMTT(30) DEF y
  <2> QED
    BY <1>0, <1>1, <2>1, SMTT(30) DEF y
<1>4. ASSUME x < 0, -w > 0 PROVE FALSE
  <2>1. (-w - 1) * k >= 0
    BY <1>0, <1>1, <1>4 DEF w
  <2> QED
    BY <1>0, <1>1, <1>4, <2>1, SMTT(30) DEF w
<1>5. n >= 0 => x >= 0
  BY <1>0
<1>6. y \in Int /\ w \in Int /\ Rounded(n) = IF x >= 0 THEN y ELSE -w
  BY <1>1, <1>2 DEF y, w
<1>7. Rounded(n) \in Int /\ (Rounded(n) > 0 => n > 0)
  BY <1>0, <1>3, <1>4, <1>6
<1>8. n >= 0 => Rounded(n) = x \div k
  BY <1>5, <1>6 DEF y
<1> QED
  BY <1>7, <1>8 DEF x, k

\* The pages that sbrk sets are in use afterwards.
LEMMA SetIsUsed ==
  ASSUME NEW b \in Nat, NEW i \in Int, b + i >= 0
  PROVE  From(b \div PageBytes, Rounded(i)) \subseteq From(0, Rounded(b + i))
<1>0. PageBytes \in Nat \ {0} /\ HookPages \subseteq Nat
  BY MmapAssumption DEF HookPages
<1> DEFINE n == Rounded(i)
           f == b \div PageBytes
<1>1. n \in Int /\ (n > 0 => i > 0) /\ (i >= 0 => n = (i + PageBytes - 1) \div PageBytes)
  BY RoundedInt
<1>2. f \in Nat
  BY <1>0
<1>3. CASE n <= 0
  <2>1. \A q \in HookPages : ~ (q >= f /\ q < f + n)
    BY <1>0, <1>1, <1>2, <1>3
  <2> QED
    BY <2>1 DEF From
<1>4. CASE n > 0
  <2>1. i > 0 /\ i + PageBytes - 1 \in Nat
    BY <1>0, <1>1, <1>4
  <2>2. f + n <= (b + (i + PageBytes - 1)) \div PageBytes
    <3> DEFINE c == i + PageBytes - 1
    <3>1. c \in Nat
      BY <2>1
    <3>2. i >= 0 /\ n = c \div PageBytes
      BY <1>1, <2>1
    <3> HIDE DEF c, n
    <3>3. (b \div PageBytes) + (c \div PageBytes) <= (b + c) \div PageBytes
      BY <1>0, <3>1, QuotientsAdd
    <3> QED
      BY <3>2, <3>3 DEF c
  <2>3. b + (i + PageBytes - 1) = b + i + PageBytes - 1
    BY <1>0
  <2>4. Rounded(b + i) = (b + i + PageBytes - 1) \div PageBytes /\ Rounded(b + i) \in Int
    BY RoundedInt
  <2>5. f + n <= Rounded(b + i)
    BY <2>2, <2>3, <2>4
  <2> HIDE DEF f, n
  <2>6. \A q \in HookPages : q >= f /\ q < f + n => q >= 0 /\ q < 0 + Rounded(b + i)
    BY <1>0, <1>1, <1>2, <2>4, <2>5
  <2> QED
    BY <2>6 DEF From, f, n
<1> QED
  BY <1>1, <1>3, <1>4

\* A call that leaves the list s, for the pages ps, begins well.
LEMMA CallBegins ==
  ASSUME MmapTyped, status = "run", NEW t \in MmapThreads, NEW s, NEW ps,
         todo[t] = <<>>, todo' = [todo EXCEPT ![t] = s], status' = status,
         entry' = entry, isPageTableAlloced' = isPageTableAlloced,
         metalloc_sentinel' = metalloc_sentinel,
         mapped' \subseteq HookPages, brk' \in Nat,
         ListFor(s, ps, mapped', metalloc_sentinel),
         \A p \in HookPages \ disturbed' :
           IF p \in ps THEN p \notin Pending(MmapThreads \ {t})
           ELSE p \notin disturbed /\ (p \in mapped' <=> p \in mapped)
  PROVE  Begins(t, s)
  BY PendingMeans, Zenon DEF Begins, ListFor

\* So does a call that leaves a list without pages.
LEMMA EmptyCallBegins ==
  ASSUME MmapTyped, status = "run", NEW t \in MmapThreads, NEW s,
         todo[t] = <<>>, todo' = [todo EXCEPT ![t] = s], status' = status,
         entry' = entry, isPageTableAlloced' = isPageTableAlloced,
         metalloc_sentinel' = metalloc_sentinel,
         mapped' \subseteq HookPages, brk' \in Nat,
         ListFor(s, {}, mapped', metalloc_sentinel),
         \A p \in HookPages \ disturbed' :
           p \notin disturbed /\ (p \in mapped' <=> p \in mapped)
  PROVE  Begins(t, s)
<1>1. s \in Seq(Task) /\ AsksFirst(s, metalloc_sentinel) /\ \A p : ~ Has(s, p)
  BY Zenon DEF ListFor
<1> QED
  BY <1>1, Zenon DEF Begins

LEMMA mmapKept ==
  ASSUME MmapInv, NEW t \in MmapThreads, NEW n \in Lengths, mmap(t, n)
  PROVE  MmapInv'
<1>0. /\ status = "run" /\ todo[t] = <<>> /\ status' = status /\ entry' = entry /\ brk' = brk
      /\ isPageTableAlloced' = isPageTableAlloced /\ metalloc_sentinel' = metalloc_sentinel
  BY Zenon DEF mmap, MayCall
<1>1. MmapTyped
  BY <1>0, Zenon DEF MmapInv
<1>2. mapped \subseteq HookPages /\ brk' \in Nat
  BY <1>0, <1>1, Zenon DEF MmapTyped
<1>3. CASE /\ todo' = [todo EXCEPT ![t] = <<DoSentinel, DoFault>>]
           /\ mapped' = mapped /\ disturbed' = disturbed
  <2> DEFINE s == <<DoSentinel, DoFault>>
  <2>1. ListFor(s, {}, mapped', metalloc_sentinel)
    BY FaultList, Zenon
  <2>2. /\ todo' = [todo EXCEPT ![t] = s] /\ mapped' \subseteq HookPages
        /\ \A p \in HookPages \ disturbed' :
             p \notin disturbed /\ (p \in mapped' <=> p \in mapped)
    BY <1>2, <1>3, Zenon
  <2> HIDE DEF s
  <2>3. Begins(t, s)
    BY <1>0, <1>1, <1>2, <2>1, <2>2, EmptyCallBegins, Zenon
  <2> QED
    BY <2>3, BeginsKept, Zenon
<1>4. CASE /\ todo' = [todo EXCEPT ![t] = <<DoSentinel, DoSet({})>>]
           /\ mapped' = mapped /\ disturbed' = disturbed
  <2> DEFINE s == <<DoSentinel, DoSet({})>>
  <2>1. ListFor(s, {}, mapped', metalloc_sentinel)
    BY SetList, Zenon
  <2>2. /\ todo' = [todo EXCEPT ![t] = s] /\ mapped' \subseteq HookPages
        /\ \A p \in HookPages \ disturbed' :
             p \notin disturbed /\ (p \in mapped' <=> p \in mapped)
    BY <1>2, <1>4, Zenon
  <2> HIDE DEF s
  <2>3. Begins(t, s)
    BY <1>0, <1>1, <1>2, <2>1, <2>2, EmptyCallBegins, Zenon
  <2> QED
    BY <2>3, BeginsKept, Zenon
<1>5. ASSUME NEW ps \in FreeRuns(Rounded(n)),
             mapped' = mapped \cup ps, todo' = [todo EXCEPT ![t] = <<DoSentinel, DoSet(ps)>>],
             disturbed' = (disturbed \ ps) \cup (ps \cap Pending(MmapThreads \ {t}))
      PROVE  MmapInv'
  <2> DEFINE s == <<DoSentinel, DoSet(ps)>>
  <2>1. ps \in SUBSET HookPages
    BY Zenon DEF FreeRuns, From
  <2>2. ListFor(s, ps, mapped', metalloc_sentinel)
    BY <1>5, <2>1, SetList, Zenon
  <2>3. \A p \in HookPages \ disturbed' :
          IF p \in ps THEN p \notin Pending(MmapThreads \ {t})
          ELSE p \notin disturbed /\ (p \in mapped' <=> p \in mapped)
    BY <1>5, Zenon
  <2>4. mapped' \subseteq HookPages
    BY <1>2, <1>5, <2>1, Zenon
  <2> HIDE DEF s
  <2>5. Begins(t, s)
    BY <1>0, <1>1, <1>2, <1>5, <2>2, <2>3, <2>4, CallBegins, Zenon DEF s
  <2> QED
    BY <2>5, BeginsKept, Zenon
<1> QED
  BY <1>3, <1>4, <1>5, Zenon DEF mmap

LEMMA munmapKept ==
  ASSUME MmapInv, NEW t \in MmapThreads, NEW start, NEW n \in Lengths, munmap(t, start, n)
  PROVE  MmapInv'
<1> DEFINE ps == From(start \div PageBytes, Rounded(n))
           ok == start % PageBytes = 0 /\ n > 0
           s == <<DoClear(ps)>>
<1>0. /\ status = "run" /\ todo[t] = <<>> /\ status' = status /\ entry' = entry /\ brk' = brk
      /\ isPageTableAlloced' = isPageTableAlloced /\ metalloc_sentinel' = metalloc_sentinel
      /\ ps \cap Pending(MmapThreads) = {} /\ todo' = [todo EXCEPT ![t] = s]
      /\ mapped' = IF ok THEN mapped \ ps ELSE mapped
      /\ disturbed' = IF ok THEN disturbed \ ps ELSE disturbed \cup ps
  BY Zenon DEF munmap, MayCall
<1>1. MmapTyped
  BY <1>0, Zenon DEF MmapInv
<1>2. mapped \subseteq HookPages /\ brk' \in Nat /\ ps \in SUBSET HookPages
  BY <1>0, <1>1, Zenon DEF MmapTyped, From
<1> HIDE DEF ok, ps
<1>3. CASE ok
  <2>1. ListFor(s, ps, mapped', metalloc_sentinel)
    <3>1. ps \cap mapped' = {}
      BY <1>0, <1>3, Zenon
    <3> QED
      BY <1>2, <3>1, ClearList, Zenon
  <2>2. \A p \in HookPages \ disturbed' :
          IF p \in ps THEN p \notin Pending(MmapThreads \ {t})
          ELSE p \notin disturbed /\ (p \in mapped' <=> p \in mapped)
    <3>1. \A p \in ps : p \notin Pending(MmapThreads \ {t})
      <4>1. \A p : p \in Pending(MmapThreads) <=> \E u \in MmapThreads : Has(todo[u], p)
        BY PendingMeans, Zenon
      <4>2. \A p : p \in Pending(MmapThreads \ {t})
                     <=> \E u \in MmapThreads \ {t} : Has(todo[u], p)
        BY PendingMeans, Zenon
      <4> QED
        BY <1>0, <4>1, <4>2, Zenon
    <3> QED
      BY <1>0, <1>3, <3>1, Zenon
  <2>3. mapped' \subseteq HookPages
    BY <1>0, <1>2, Zenon
  <2> HIDE DEF s
  <2>4. Begins(t, s)
    BY <1>0, <1>1, <1>2, <2>1, <2>2, <2>3, CallBegins, Zenon
  <2> QED
    BY <2>4, BeginsKept, Zenon
<1>4. CASE ~ ok
  <2>1. /\ s \in Seq(Task) /\ AsksFirst(s, metalloc_sentinel)
        /\ \A p : Has(s, p) <=> p \in ps
    BY <1>2, ClearList, Zenon
  <2> HIDE DEF s
  <2>2. Begins(t, s)
    BY <1>0, <1>2, <1>4, <2>1, Zenon DEF Begins
  <2> QED
    BY <2>2, BeginsKept, Zenon
<1> QED
  BY <1>3, <1>4, Zenon

\* mremap: the list of a call whose old size is not whole pages only exits.
LEMMA mremapKept ==
  ASSUME MmapInv, NEW t \in MmapThreads, NEW p \in HookPages,
         NEW n \in Lengths, NEW m \in Lengths, mremap(t, p, n, m)
  PROVE  MmapInv'
<1> DEFINE old == From(p, Rounded(n))
           steps(d) == IF n % PageBytes # 0 THEN <<DoExit(old \cup d.pages)>>
                       ELSE <<DoClear(old), DoSentinel, DoClear(old), d>>
<1>0. /\ status = "run" /\ todo[t] = <<>> /\ status' = status /\ entry' = entry /\ brk' = brk
      /\ isPageTableAlloced' = isPageTableAlloced /\ metalloc_sentinel' = metalloc_sentinel
      /\ old \cap Pending(MmapThreads) = {}
  BY Zenon DEF mremap, MayCall
<1>1. MmapTyped
  BY <1>0, Zenon DEF MmapInv
<1>2. mapped \subseteq HookPages /\ brk' \in Nat /\ old \in SUBSET HookPages
  BY <1>0, <1>1, Zenon DEF MmapTyped, From
<1>3. \/ /\ todo' = [todo EXCEPT ![t] = steps(DoFault)]
         /\ disturbed' = disturbed \cup old /\ mapped' = mapped
      \/ \E new \in SUBSET HookPages :
           /\ mapped' = (mapped \ old) \cup new
           /\ todo' = [todo EXCEPT ![t] = steps(DoSet(new))]
           /\ disturbed' = (disturbed \ (old \cup new))
                             \cup (new \cap Pending(MmapThreads \ {t}))
  <2>1. \A a, k : From(a, k) \in SUBSET HookPages
    BY Zenon DEF From
  <2>2. \A k : FreeRuns(k) \subseteq SUBSET HookPages
    BY <2>1, Zenon DEF FreeRuns
  <2> QED
    BY <2>1, <2>2, Zenon DEF mremap
<1> HIDE DEF old
<1>4. \A q \in old : q \notin Pending(MmapThreads \ {t})
  <2>1. \A q : q \in Pending(MmapThreads) <=> \E u \in MmapThreads : Has(todo[u], q)
    BY PendingMeans, Zenon
  <2>2. \A q : q \in Pending(MmapThreads \ {t})
                 <=> \E u \in MmapThreads \ {t} : Has(todo[u], q)
    BY PendingMeans, Zenon
  <2> QED
    BY <1>0, <2>1, <2>2, Zenon
<1>5. CASE /\ todo' = [todo EXCEPT ![t] = steps(DoFault)]
           /\ disturbed' = disturbed \cup old /\ mapped' = mapped
  <2> DEFINE s == steps(DoFault)
  <2>1. DoFault \in Task /\ DoFault.do = "fault" /\ DoFault.pages = {}
    BY Tasks, Zenon
  <2>2. old \cup DoFault.pages = old
    BY <2>1, Zenon
  <2>3. /\ s \in Seq(Task) /\ AsksFirst(s, metalloc_sentinel)
        /\ \A q : Has(s, q) <=> q \in old
    <3>1. CASE n % PageBytes # 0
      <4>1. s = <<DoExit(old)>>
        BY <2>2, <3>1, Zenon
      <4>2. ListFor(<<DoExit(old)>>, old, mapped, metalloc_sentinel)
        BY <1>2, ClearList, Zenon
      <4> QED
        BY <4>1, <4>2, Zenon DEF ListFor
    <3>2. CASE n % PageBytes = 0
      <4> DEFINE d == DoFault
                 r == RemapSteps(old, d)
      <4>1. s = r
        BY <3>2, Zenon DEF RemapSteps
      <4>2. LastOfRemap(d, mapped) /\ d.pages = {}
        BY <2>1, Zenon DEF LastOfRemap
      <4> HIDE DEF d
      <4>3. /\ r \in Seq(Task) /\ AsksFirst(r, metalloc_sentinel)
            /\ \A q : Has(r, q) <=> q \in old \cup d.pages
        BY <1>2, <4>2, RemapList, Zenon
      <4> HIDE DEF r, s
      <4> QED
        BY <4>1, <4>2, <4>3, Zenon
    <3> QED
      BY <3>1, <3>2, Zenon
  <2>4. todo' = [todo EXCEPT ![t] = s]
    BY <1>5, Zenon
  <2> HIDE DEF s
  <2>5. Begins(t, s)
    BY <1>0, <1>2, <1>5, <2>3, <2>4, Zenon DEF Begins
  <2> QED
    BY <2>5, BeginsKept, Zenon
<1>6. ASSUME NEW new \in SUBSET HookPages,
             mapped' = (mapped \ old) \cup new,
             todo' = [todo EXCEPT ![t] = steps(DoSet(new))],
             disturbed' = (disturbed \ (old \cup new))
                            \cup (new \cap Pending(MmapThreads \ {t}))
      PROVE  MmapInv'
  <2> DEFINE s == steps(DoSet(new))
             ps == old \cup new
  <2>1. DoSet(new) \in Task /\ DoSet(new).do = "set" /\ DoSet(new).pages = new
    BY Tasks, Zenon
  <2>2. ps \in SUBSET HookPages /\ mapped' \subseteq HookPages
        /\ new \subseteq mapped' /\ mapped' \cap old \subseteq new
    BY <1>2, <1>6, Zenon
  <2>3. ListFor(s, ps, mapped', metalloc_sentinel)
    <3>1. CASE n % PageBytes # 0
      <4>1. s = <<DoExit(ps)>>
        BY <2>1, <3>1, Zenon
      <4> HIDE DEF s, ps
      <4>2. ListFor(<<DoExit(ps)>>, ps, mapped', metalloc_sentinel)
        BY <2>2, ClearList, Zenon
      <4> QED
        BY <4>1, <4>2, Zenon
    <3>2. CASE n % PageBytes = 0
      <4> DEFINE d == DoSet(new)
                 r == RemapSteps(old, d)
      <4>1. s = r
        BY <3>2, Zenon DEF RemapSteps
      <4>2. d \in Task /\ d.do \in {"set", "fault"} /\ d.do # "fault" /\ d.pages = new
        BY <2>1
      <4>3. d.pages \subseteq mapped' /\ mapped' \cap old \subseteq d.pages
        BY <2>2, <4>2, ZenonT(30)
      <4> HIDE DEF d
      <4>4. ListFor(r, old \cup d.pages, mapped', metalloc_sentinel)
        <5>1. LastOfRemap(d, mapped') /\ Covers(d, mapped' \cap old)
          BY <4>2, <4>3, Zenon DEF LastOfRemap, Covers
        <5> QED
          BY <1>2, <5>1, RemapList, Zenon
      <4> HIDE DEF r, s
      <4> QED
        BY <4>1, <4>2, <4>4, Zenon
    <3> QED
      BY <3>1, <3>2, Zenon
  <2>4. \A q \in HookPages \ disturbed' :
          IF q \in ps THEN q \notin Pending(MmapThreads \ {t})
          ELSE q \notin disturbed /\ (q \in mapped' <=> q \in mapped)
    BY <1>4, <1>6, Zenon
  <2>5. todo' = [todo EXCEPT ![t] = s]
    BY <1>6, Zenon
  <2> HIDE DEF s, ps
  <2>6. Begins(t, s)
    BY <1>0, <1>1, <1>2, <2>2, <2>3, <2>4, <2>5, CallBegins, Zenon
  <2> QED
    BY <2>6, BeginsKept, Zenon
<1> HIDE DEF steps
<1> QED
  BY <1>3, <1>5, <1>6, Zenon

LEMMA sbrkKept ==
  ASSUME MmapInv, NEW t \in MmapThreads, NEW i \in Increments, sbrk(t, i)
  PROVE  MmapInv'
<1> DEFINE n    == Rounded(i)
           new  == brk + i
           used == From(0, Rounded(new))
           set  == From(brk \div PageBytes, n)
<1>0. /\ status = "run" /\ todo[t] = <<>> /\ status' = status /\ entry' = entry
      /\ isPageTableAlloced' = isPageTableAlloced /\ metalloc_sentinel' = metalloc_sentinel
  BY Zenon DEF sbrk, MayCall
<1>1. MmapTyped
  BY <1>0, Zenon DEF MmapInv
<1>2. /\ mapped \subseteq HookPages /\ brk \in Nat
      /\ used \in SUBSET HookPages /\ set \in SUBSET HookPages
  BY <1>1, Zenon DEF MmapTyped, From
<1>3. i \in Int /\ BrkPages \in Nat /\ PageBytes \in Nat \ {0} /\ HookPages \subseteq Nat
  BY MmapAssumption DEF HookPages
<1>4. CASE /\ todo' = [todo EXCEPT ![t] = <<DoSentinel, DoFault>>]
           /\ mapped' = mapped /\ brk' = brk /\ disturbed' = disturbed
  <2> DEFINE s == <<DoSentinel, DoFault>>
  <2>1. ListFor(s, {}, mapped', metalloc_sentinel)
    BY FaultList, Zenon
  <2>2. /\ todo' = [todo EXCEPT ![t] = s] /\ mapped' \subseteq HookPages /\ brk' \in Nat
        /\ \A p \in HookPages \ disturbed' :
             p \notin disturbed /\ (p \in mapped' <=> p \in mapped)
    BY <1>2, <1>4, Zenon
  <2> HIDE DEF s
  <2>3. Begins(t, s)
    BY <1>0, <1>1, <2>1, <2>2, EmptyCallBegins, Zenon
  <2> QED
    BY <2>3, BeginsKept, Zenon
<1>5. CASE /\ new >= 0 /\ Rounded(new) <= BrkPages
           /\ brk' = new
           /\ mapped' = {q \in mapped : q >= BrkPages} \cup used
           /\ todo' = [todo EXCEPT ![t] = IF n < 0 THEN <<DoSentinel, DoFault>>
                                          ELSE <<DoSentinel, DoSet(set)>>]
           /\ disturbed' = disturbed \cup ((used \ mapped) \ set)
                             \cup {q \in mapped : q < BrkPages /\ q \notin used}
                             \cup (set \cap Pending(MmapThreads \ {t}))
  <2>1. new \in Nat /\ n \in Int /\ Rounded(new) \in Int /\ brk \div PageBytes \in Nat
    <3>1. new \in Nat /\ brk \div PageBytes \in Nat
      BY <1>2, <1>3, <1>5
    <3>2. n \in Int
      BY <1>3, RoundedInt
    <3>3. new \in Int
      BY <3>1
    <3> HIDE DEF new
    <3>4. Rounded(new) \in Int
      BY <3>3, RoundedInt
    <3> QED
      BY <3>1, <3>2, <3>4, Zenon
  <2>2. set \subseteq used
    BY <1>2, <1>3, <1>5, SetIsUsed, Zenon
  <2>3. \A q \in used : ~ (q >= BrkPages)
    <3>1. \A q \in HookPages : q >= 0 /\ q < 0 + Rounded(new) => ~ (q >= BrkPages)
      BY <1>3, <1>5, <2>1
    <3> QED
      BY <3>1, Zenon DEF From
  <2>4. \A q \in HookPages : q < BrkPages <=> ~ (q >= BrkPages)
    BY <1>3
  <2>5. mapped' \subseteq HookPages /\ brk' \in Nat /\ used \subseteq mapped'
    BY <1>2, <1>5, <2>1, Zenon
  <2>6. n < 0 => set = {}
    <3>1. n < 0 => \A q \in HookPages : ~ (q >= brk \div PageBytes /\ q < (brk \div PageBytes) + n)
      BY <1>3, <2>1
    <3> QED
      BY <3>1, Zenon DEF From
  <2> HIDE DEF n, new, used, set
  <2>7. \A q \in HookPages \ disturbed' :
          IF q \in set THEN q \notin Pending(MmapThreads \ {t})
          ELSE q \notin disturbed /\ (q \in mapped' <=> q \in mapped)
    BY <1>2, <1>5, <2>3, <2>4, Zenon
  <2>8. CASE n < 0
    <3> DEFINE s == <<DoSentinel, DoFault>>
    <3>1. ListFor(s, {}, mapped', metalloc_sentinel)
      BY FaultList, Zenon
    <3>2. /\ todo' = [todo EXCEPT ![t] = s]
          /\ \A p \in HookPages \ disturbed' :
               p \notin disturbed /\ (p \in mapped' <=> p \in mapped)
      BY <1>5, <2>6, <2>7, <2>8, Zenon
    <3> HIDE DEF s
    <3>3. Begins(t, s)
      BY <1>0, <1>1, <2>5, <3>1, <3>2, EmptyCallBegins, Zenon
    <3> QED
      BY <3>3, BeginsKept, Zenon
  <2>9. CASE ~ (n < 0)
    <3> DEFINE s == <<DoSentinel, DoSet(set)>>
    <3>1. ListFor(s, set, mapped', metalloc_sentinel)
      <4>1. set \subseteq mapped'
        BY <2>2, <2>5, Zenon
      <4> QED
        BY <1>2, <4>1, SetList, Zenon
    <3>2. todo' = [todo EXCEPT ![t] = s]
      BY <1>5, <2>9, Zenon
    <3> HIDE DEF s
    <3>3. Begins(t, s)
      BY <1>0, <1>1, <2>5, <2>7, <3>1, <3>2, CallBegins, Zenon
    <3> QED
      BY <3>3, BeginsKept, Zenon
  <2> QED
    BY <2>8, <2>9, Zenon
<1> QED
  BY <1>4, <1>5, Zenon DEF sbrk

LEMMA InitArrayKept ==
  ASSUME MmapInv, InitArray
  PROVE  MmapInv'
<1>0. /\ status = "run" /\ entry' = page_table_init_entries /\ isPageTableAlloced' = TRUE
      /\ mapped' = mapped /\ brk' = brk /\ metalloc_sentinel' = metalloc_sentinel
      /\ todo' = todo /\ status' = status /\ disturbed' = disturbed
  BY Zenon DEF InitArray
<1>1. /\ MmapTyped /\ NoTable /\ \A u \in MmapThreads : AsksFirst(todo[u], metalloc_sentinel)
      /\ metalloc_sentinel # "failed" => \A p \in HookPages \ disturbed : Tracked(p)
  BY <1>0, Zenon DEF MmapInv
<1>2. DOMAIN entry' = HookPages /\ \A p \in HookPages : entry'[p] = entry[p]
  <2>1. DOMAIN page_table_init_entries = HookPages
    BY <1>1, Zenon DEF MmapTyped, page_table_init_entries
  <2> QED
    BY <1>0, <1>1, <2>1, TableKept, Zenon
<1>3. MmapTyped' /\ NoTable'
  BY <1>0, <1>1, <1>2, Zenon DEF MmapTyped, NoTable, HookPages
<1>4. \A p \in HookPages : Tracked(p) => Tracked(p)'
  BY <1>0, <1>2, Zenon DEF Tracked
<1>5. \A u \in MmapThreads : AsksFirst(todo'[u], metalloc_sentinel')
  BY <1>0, <1>1, Zenon
<1> QED
  BY <1>0, <1>1, <1>3, <1>4, <1>5, Zenon DEF MmapInv, HookPages

LEMMA MmapStuttering ==
  ASSUME MmapInv, UNCHANGED mmapVars
  PROVE  MmapInv'
<1>0. /\ entry' = entry /\ isPageTableAlloced' = isPageTableAlloced
      /\ mapped' = mapped /\ brk' = brk /\ metalloc_sentinel' = metalloc_sentinel
      /\ todo' = todo /\ status' = status /\ disturbed' = disturbed
  BY Zenon DEF mmapVars
<1> QED
  BY <1>0, Zenon DEF MmapInv, MmapTyped, NoTable, Tracked, HookPages

LEMMA MmapStarts ==
  ASSUME MmapInit
  PROVE  MmapInv
<1>0. /\ mapped = From(0, 1) /\ entry = [p \in HookPages |-> "none"]
      /\ isPageTableAlloced = FALSE /\ metalloc_sentinel = "null"
      /\ todo = [t \in MmapThreads |-> <<>>] /\ disturbed = From(0, 1)
  BY Zenon DEF MmapInit
<1>1. brk \in Nat
  BY MmapAssumption DEF MmapInit
<1>2. \A t \in MmapThreads : todo[t] = <<>>
  BY <1>0, Zenon
<1>3. MmapTyped
  <2>1. mapped \subseteq HookPages
    BY <1>0, Zenon DEF From
  <2>2. todo \in [MmapThreads -> Seq(Task)]
    BY <1>0
  <2> QED
    BY <1>0, <1>1, <2>1, <2>2, Zenon DEF MmapTyped
<1>4. \A t \in MmapThreads : /\ AsksFirst(todo[t], metalloc_sentinel)
                             /\ \A p : ~ Has(todo[t], p) /\ Proper(todo[t], p, mapped)
  <2>1. DOMAIN <<>> = {}
    OBVIOUS
  <2>2. /\ AsksFirst(<<>>, metalloc_sentinel)
        /\ \A p : ~ Has(<<>>, p) /\ Proper(<<>>, p, mapped)
    BY <2>1, Zenon DEF AsksFirst, Has, Proper
  <2> QED
    BY <1>2, <2>2, Zenon
<1>5. \A p \in HookPages \ disturbed : Tracked(p)
  BY <1>0, <1>4, Zenon DEF Tracked
<1>6. NoTable
  BY <1>0, Zenon DEF NoTable
<1> QED
  BY <1>3, <1>4, <1>5, <1>6, Zenon DEF MmapInv

\* Metadata of memory that is no heap, for any number of threads and pages
\* and any lengths: a page that no call of mmap, munmap, mremap or sbrk is
\* working on has the sentinel exactly when it is mapped, unless a race, a
\* failed call or the ragged end of the data segment left its entry wrong.
THEOREM MappingsAlwaysTracked == MmapSpec => []HooksTrackMappings
<1>1. MmapInit => MmapInv
  BY MmapStarts, Zenon
<1>2. MmapInv /\ [MmapNext]_mmapVars => MmapInv'
  <2> SUFFICES ASSUME MmapInv, [MmapNext]_mmapVars PROVE MmapInv'
    OBVIOUS
  <2>1. CASE InitArray
    BY <2>1, InitArrayKept, Zenon
  <2>2. ASSUME NEW t \in MmapThreads, MmapStep(t) PROVE MmapInv'
    BY <2>2, StepKept, Zenon
  <2>3. ASSUME NEW t \in MmapThreads, NEW n \in Lengths, mmap(t, n) PROVE MmapInv'
    BY <2>3, mmapKept, Zenon
  <2>4. ASSUME NEW t \in MmapThreads, NEW s, NEW n \in Lengths, munmap(t, s, n)
        PROVE  MmapInv'
    BY <2>4, munmapKept, Zenon
  <2>5. ASSUME NEW t \in MmapThreads, NEW p \in HookPages,
               NEW n \in Lengths, NEW m \in Lengths, mremap(t, p, n, m)
        PROVE  MmapInv'
    BY <2>5, mremapKept, Zenon
  <2>6. ASSUME NEW t \in MmapThreads, NEW i \in Increments, sbrk(t, i) PROVE MmapInv'
    BY <2>6, sbrkKept, Zenon
  <2>7. CASE UNCHANGED mmapVars
    BY <2>7, MmapStuttering, Zenon
  <2> QED
    BY <2>1, <2>2, <2>3, <2>4, <2>5, <2>6, <2>7, Zenon DEF MmapNext
<1>3. MmapInv => HooksTrackMappings
  <2> SUFFICES ASSUME MmapInv, status = "run", metalloc_sentinel # "failed",
                      NEW p \in HookPages \ (disturbed \cup Pending(MmapThreads))
               PROVE  entry[p] = IF p \in mapped THEN "sentinel" ELSE "none"
    BY Zenon DEF HooksTrackMappings
  <2>1. \A t \in MmapThreads : ~ Has(todo[t], p)
    <3>1. \A q : q \in Pending(MmapThreads) <=> \E t \in MmapThreads : Has(todo[t], q)
      BY PendingMeans, Zenon
    <3> QED
      BY <3>1, Zenon
  <2> QED
    BY <2>1, Zenon DEF MmapInv, Tracked
<1> QED
  BY <1>1, <1>2, <1>3, PTL DEF MmapSpec
===============================================================================
