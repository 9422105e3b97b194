------------------------------ MODULE MallocHook ------------------------------
(***************************************************************************)
(* The hook lists of the allocator.  Hooks are added and removed under     *)
(* hooklist_spinlock; an allocation traverses the list without it, slot by *)
(* slot, copies the hooks it meets and then calls them.  The first call of *)
(* an initial hook removes the initial hooks and runs the initializers.    *)
(***************************************************************************)
EXTENDS Integers, Sequences, Functions

CONSTANTS
  HookThreads,
  Hooks,            \* hooks a client may register, NewHooks and replacements alike
  InitialHook,      \* InitialNewHook, InitialPreMMapHook, InitialPreSbrkHook
  NoHook,           \* the null pointer
  MaxValues,        \* kHookListMaxValues
  MaxHookOps        \* bound: operations started

ASSUME HookAssumption ==
  /\ MaxValues \in Nat \ {0} /\ MaxHookOps \in Nat
  /\ NoHook \notin Hooks \cup HookThreads \cup {InitialHook}
  /\ InitialHook \notin Hooks

VARIABLES
  hookList,         \* list -> [end, data]
  hookLock,         \* holder of hooklist_spinlock, or NoHook
  hookPc,           \* thread -> where it is
  hookOnce,         \* pthread_once: "init", "running", "done"
  initializersRun,  \* how often the initializers were called
  hookOps

hookVars == <<hookList, hookLock, hookPc, hookOnce, initializersRun, hookOps>>

SingularIdx == MaxValues                     \* kHookListSingularIdx
Slots == 0 .. MaxValues
NotifyLists == {"new", "premmap"}
Replacements == {"mmap_replacement", "munmap_replacement"}
Lists == NotifyLists \cup Replacements

HookIdle == [at |-> "idle"]

HookInit ==
  /\ hookList = [l \in Lists |->
       IF l \in NotifyLists
       THEN [end |-> 1, data |-> [i \in Slots |-> IF i = 0 THEN InitialHook ELSE NoHook]]
       ELSE [end |-> 0, data |-> [i \in Slots |-> NoHook]]]
  /\ hookLock = NoHook
  /\ hookPc = [t \in HookThreads |-> HookIdle]
  /\ hookOnce = "init" /\ initializersRun = 0
  /\ hookOps = 0

Goto(t, pc) == hookPc' = [hookPc EXCEPT ![t] = pc]
Start(t) == hookPc[t].at = "idle" /\ hookOps < MaxHookOps /\ hookOps' = hookOps + 1

\* Ghosts of the traversals under way: a hook stored now may be met, a hook
\* removed now need not be.
Traversing(l, u) == hookPc[u].at = "traverse" /\ hookPc[u].l = l
NoteStore(l, h, pcs) ==
  [u \in HookThreads |-> IF Traversing(l, u)
                         THEN [pcs[u] EXCEPT !.may = @ \cup {h}] ELSE pcs[u]]
NoteRemove(l, h, pcs) ==
  [u \in HookThreads |-> IF Traversing(l, u)
                         THEN [pcs[u] EXCEPT !.must = @ \ {h}] ELSE pcs[u]]

-----------------------------------------------------------------------------
(* HookList<T>: writers                                                    *)

FreeSlots(l) == {i \in 0 .. MaxValues - 1 : hookList[l].data[i] = NoHook}

First(S, i) == i \in S /\ \A j \in S : i <= j

\* Add: the first free slot, then the end.
Add(t, l, h) ==
  /\ hookLock = NoHook
  /\ \/ /\ FreeSlots(l) = {}
        /\ Goto(t, HookIdle)
        /\ UNCHANGED <<hookList, hookLock>>
     \/ \E i \in Slots :
          /\ First(FreeSlots(l), i)
          /\ hookList' = [hookList EXCEPT ![l].data[i] = h]
          /\ hookLock' = t
          /\ hookPc' = NoteStore(l, h, [hookPc EXCEPT ![t] =
                         [at |-> "add_end", l |-> l, i |-> i, h |-> h]])

AddEnd(t) ==
  /\ hookPc[t].at = "add_end"
  /\ LET l == hookPc[t].l
         i == hookPc[t].i
     IN hookList' = [hookList EXCEPT ![l].end = IF @ <= i THEN i + 1 ELSE @]
  /\ hookLock' = NoHook
  /\ Goto(t, HookIdle)
  /\ UNCHANGED <<hookOnce, initializersRun, hookOps>>

\* Mutant: the end moves down to the first empty slot.
FixupToHole(d, end, n) == First({end} \cup {i \in Slots : i < end /\ d[i] = NoHook}, n)

\* FixupPrivEndLocked: the end moves down to n, behind the last hook.
Fixup(d, end, n) ==
  /\ n > 0 => d[n - 1] # NoHook
  /\ \A i \in n .. end - 1 : d[i] = NoHook

Found(l, h) == {i \in Slots : i < hookList[l].end /\ hookList[l].data[i] = h}

\* Remove: the first slot with the hook, then the end; `next' is where the
\* thread goes on.
RemoveFromList(t, l, h, next) ==
  /\ hookLock = NoHook
  /\ \E i \in Slots : /\ First(Found(l, h), i)
                      /\ hookList' = [hookList EXCEPT ![l].data[i] = NoHook]
  /\ hookLock' = t
  /\ hookPc' = NoteRemove(l, h, [hookPc EXCEPT ![t] = [at |-> "fixup", l |-> l, next |-> next]])

\* Mutant: the lock is kept.
RemoveFixupLocked(t) ==
  /\ hookPc[t].at = "fixup"
  /\ LET l == hookPc[t].l
     IN \E n \in 0 .. hookList[l].end :
          /\ Fixup(hookList[l].data, hookList[l].end, n)
          /\ hookList' = [hookList EXCEPT ![l].end = n]
  /\ Goto(t, hookPc[t].next)
  /\ UNCHANGED <<hookLock, hookOnce, initializersRun, hookOps>>

RemoveFixup(t) ==
  /\ hookPc[t].at = "fixup"
  /\ LET l == hookPc[t].l
     IN \E n \in 0 .. hookList[l].end :
          /\ Fixup(hookList[l].data, hookList[l].end, n)
          /\ hookList' = [hookList EXCEPT ![l].end = n]
  /\ hookLock' = NoHook
  /\ Goto(t, hookPc[t].next)
  /\ UNCHANGED <<hookOnce, initializersRun, hookOps>>

\* ExchangeSingular: the last slot belongs to the deprecated Set*Hook.
ExchangeSingular(t, l, h) ==
  LET old == hookList[l].data[SingularIdx] IN
  /\ hookLock = NoHook
  /\ hookList' = [hookList EXCEPT ![l].data[SingularIdx] = h]
  /\ hookLock' = t
  /\ hookPc' = NoteStore(l, h, NoteRemove(l, old, [hookPc EXCEPT ![t] =
                 IF h # NoHook THEN [at |-> "add_end", l |-> l, i |-> SingularIdx, h |-> h]
                 ELSE [at |-> "fixup", l |-> l, next |-> HookIdle]]))

-----------------------------------------------------------------------------
(* The clients.                                                            *)

AddHook(t, h) ==
  \E l \in NotifyLists :
    /\ Start(t) /\ Add(t, l, h)
    /\ UNCHANGED <<hookOnce, initializersRun>>

RemoveHook(t, h) ==
  \E l \in Lists :
    /\ Start(t)
    /\ \/ RemoveFromList(t, l, h, HookIdle)
       \/ /\ hookLock = NoHook /\ Found(l, h) = {}
          /\ UNCHANGED <<hookList, hookLock, hookPc>>
    /\ UNCHANGED <<hookOnce, initializersRun>>

SetHook(t, h) ==
  \E l \in NotifyLists :
    /\ Start(t) /\ ExchangeSingular(t, l, h)
    /\ UNCHANGED <<hookOnce, initializersRun>>

\* SetMmapReplacement, SetMunmapReplacement: the list must be empty, which is
\* looked at before the lock is taken.
SetReplacement(t, l, h) ==
  /\ Start(t)
  /\ hookList[l].end = 0
  /\ Goto(t, [at |-> "set_replacement", l |-> l, h |-> h])
  /\ UNCHANGED <<hookList, hookLock, hookOnce, initializersRun>>

SetReplacementAdd(t) ==
  /\ hookPc[t].at = "set_replacement"
  /\ Add(t, hookPc[t].l, hookPc[t].h)
  /\ UNCHANGED <<hookOnce, initializersRun, hookOps>>

-----------------------------------------------------------------------------
(* INVOKE_HOOKS                                                            *)

\* The hooks whose Add is complete.
Registered(l) ==
  LET adding(i) == \E u \in HookThreads :
        hookPc[u].at = "add_end" /\ hookPc[u].l = l /\ hookPc[u].i = i
  IN {hookList[l].data[i] : i \in {j \in Slots : ~adding(j)}} \ {NoHook}

Traverse(l, after) ==
  [at |-> "traverse", l |-> l, i |-> 0, end |-> hookList[l].end, out |-> <<>>,
   after |-> after, must |-> Registered(l), may |-> Range(hookList[l].data)]

\* Invoke*Hook: an empty list is skipped.
Invoke(t, l) ==
  /\ Start(t)
  /\ Goto(t, IF hookList[l].end = 0 THEN HookIdle ELSE Traverse(l, <<>>))
  /\ UNCHANGED <<hookList, hookLock, hookOnce, initializersRun>>

\* InvokeMunmapReplacement looks at the other list before it asks.
InvokeMunmapReplacement(t) ==
  /\ Start(t)
  /\ Goto(t, IF hookList["mmap_replacement"].end = 0 THEN HookIdle
             ELSE Traverse("munmap_replacement", <<>>))
  /\ UNCHANGED <<hookList, hookLock, hookOnce, initializersRun>>

TraverseDone(pc) == pc.i >= pc.end \/ Len(pc.out) = MaxValues

TraverseSlot(t) ==
  LET pc == hookPc[t] IN
  /\ pc.at = "traverse" /\ ~TraverseDone(pc)
  /\ Goto(t, [pc EXCEPT !.i = @ + 1,
                        !.out = IF hookList[pc.l].data[pc.i] = NoHook THEN @
                                ELSE Append(@, hookList[pc.l].data[pc.i])])
  /\ UNCHANGED <<hookList, hookLock, hookOnce, initializersRun, hookOps>>

\* INVOKE_HOOKS calls all of them, INVOKE_REPLACEMENT the first.
CallHooks(t) ==
  LET pc == hookPc[t]
      first == SubSeq(pc.out, 1, IF pc.out = <<>> THEN 0 ELSE 1)
  IN
  /\ pc.at = "traverse" /\ TraverseDone(pc)
  /\ Goto(t, [at |-> "call", l |-> pc.l,
              hooks |-> IF pc.l \in Replacements THEN first ELSE pc.out \o pc.after])
  /\ UNCHANGED <<hookList, hookLock, hookOnce, initializersRun, hookOps>>

\* A client's hook returns.  An initial hook runs the initializers unless
\* that was done, waits for whoever is at it, and dispatches again.
CallHook(t) ==
  LET pc == hookPc[t] IN
  /\ pc.at = "call"
  /\ \/ /\ pc.hooks = <<>>
        /\ Goto(t, HookIdle)
        /\ UNCHANGED hookOnce
     \/ /\ pc.hooks # <<>> /\ Head(pc.hooks) # InitialHook
        /\ Goto(t, [pc EXCEPT !.hooks = Tail(@)])
        /\ UNCHANGED hookOnce
     \/ /\ pc.hooks # <<>> /\ Head(pc.hooks) = InitialHook /\ hookOnce = "init"
        /\ hookOnce' = "running"
        /\ Goto(t, [at |-> "remove_new", l |-> pc.l, hooks |-> pc.hooks])
     \/ /\ pc.hooks # <<>> /\ Head(pc.hooks) = InitialHook /\ hookOnce = "done"
        /\ Goto(t, Traverse(pc.l, Tail(pc.hooks)))
        /\ UNCHANGED hookOnce
  /\ UNCHANGED <<hookList, hookLock, initializersRun, hookOps>>

\* RemoveInitialHooksAndCallInitializers.  RAW_CHECK: the hook must be there.
RemoveInitialHooks(t) ==
  LET pc == hookPc[t] IN
  /\ \/ /\ pc.at = "remove_new"
        /\ RemoveFromList(t, "new", InitialHook, [pc EXCEPT !.at = "remove_premmap"])
        /\ UNCHANGED <<hookOnce, initializersRun>>
     \/ /\ pc.at = "remove_premmap"
        /\ RemoveFromList(t, "premmap", InitialHook, [pc EXCEPT !.at = "initializers"])
        /\ UNCHANGED <<hookOnce, initializersRun>>
     \/ /\ pc.at = "initializers"
        /\ initializersRun' = initializersRun + 1
        /\ hookOnce' = "done"
        /\ Goto(t, [at |-> "call", l |-> pc.l, hooks |-> pc.hooks])
        /\ UNCHANGED <<hookList, hookLock>>
  /\ UNCHANGED hookOps

HookNext ==
  \E t \in HookThreads :
    \/ \E h \in Hooks : AddHook(t, h) \/ RemoveHook(t, h)
    \/ \E h \in Hooks \cup {NoHook} : SetHook(t, h)
    \/ \E h \in Hooks, l \in Replacements : SetReplacement(t, l, h)
    \/ SetReplacementAdd(t) \/ InvokeMunmapReplacement(t)
    \/ \E l \in NotifyLists \cup {"mmap_replacement"} : Invoke(t, l)
    \/ AddEnd(t) \/ RemoveFixup(t)
    \/ TraverseSlot(t) \/ CallHooks(t) \/ CallHook(t) \/ RemoveInitialHooks(t)

HookFair == \A t \in HookThreads :
  WF_hookVars(AddEnd(t) \/ RemoveFixup(t) \/ TraverseSlot(t) \/ CallHooks(t)
              \/ CallHook(t) \/ RemoveInitialHooks(t))

HookSpec == HookInit /\ [][HookNext]_hookVars /\ HookFair

-----------------------------------------------------------------------------
\* The lock-free traversal: a hook that was registered when the traversal
\* began and is not removed while it lasts is called, one that was not there
\* at any time of it is not, and only the room for MaxValues hooks can make
\* the traversal leave one out.
TraversalRegular ==
  \A t \in HookThreads :
    LET pc == hookPc[t] IN
    pc.at = "traverse" =>
      /\ Range(pc.out) \subseteq pc.may
      /\ TraverseDone(pc) /\ Len(pc.out) < MaxValues => pc.must \subseteq Range(pc.out)

\* The initializers run once, whichever threads come first, and no thread
\* that finds them done still has an initial hook in a list; the RAW_CHECKs of
\* RemoveInitialHooksAndCallInitializers hold when they are reached.
InitializedOnce ==
  /\ initializersRun = IF hookOnce = "done" THEN 1 ELSE 0
  /\ hookOnce = "done" => \A l \in NotifyLists : Found(l, InitialHook) = {}
  /\ \A t \in HookThreads :
       /\ hookPc[t].at = "remove_new" => Found("new", InitialHook) # {}
       /\ hookPc[t].at = "remove_premmap" => Found("premmap", InitialHook) # {}

\* A traversal that takes no lock calls exactly the hooks that were registered
\* all the while, and the initializers run once, whichever threads allocate
\* first.
HookListsRegular == TraversalRegular /\ InitializedOnce

\* Every allocation gets through its hooks, also those that wait for another
\* thread to run the initializers.
HooksReturn == \A t \in HookThreads : hookPc[t].at = "traverse" ~> hookPc[t].at = "idle"

=============================================================================
