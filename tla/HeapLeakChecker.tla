-------------------------- MODULE HeapLeakChecker --------------------------
(***************************************************************************)
(* The heap leak checker: its life from the first allocation to the end of *)
(* the process, the hooks that keep its HeapProfileTable, the objects the  *)
(* program asks it to ignore, and its checks, which mark what the roots    *)
(* reach and report the rest.  Threads allocate, free and pass pointers    *)
(* around meanwhile.  A check runs under heap_checker_lock, which every    *)
(* hook takes, and with the other threads suspended: it is one step.  The  *)
(* strings the checker allocates for its own use are left out.             *)
(***************************************************************************)
EXTENDS HeapProfileTable

CONSTANTS HlThreads, MainThread, HlPtrs, HlModes, HlMaxOps

ASSUME HeapLeakCheckerAssumption == MainThread \in HlThreads /\ HlMaxOps \in Nat

VARIABLES
  heap_check,         \* FLAGS_heap_check, from HEAPCHECK: "" is off
  hlPhase,            \* of the process: constructors, init, main, exited
  heap_checker_on, constructor_heap_profiling,
  hlHooks,            \* hooks in the lists of MallocHook
  profile_name_prefix, do_main_heap_check,
  have_disabled_hooks_for_symbolize,
  hlMap,              \* heap_profile, of which it uses the objects only
  ignored_objects,    \* addresses
  checkers,           \* name -> whether it is active, its snapshot, has_checked_
  hlHeap,             \* the objects: pointers in them, and who allocated them
  hlGlobals, hlLocals, \* pointers in globals, and in the stack and registers of threads
  thread_disable_counter,
  hlPc, hlArg,        \* per thread: its step, and the object it is about
  hlReport,           \* the last report: its objects, and what was unreachable
  hlOps, hlFatal

hlVars == <<heap_check, hlPhase, heap_checker_on, constructor_heap_profiling, hlHooks,
            profile_name_prefix, do_main_heap_check, have_disabled_hooks_for_symbolize,
            hlMap, ignored_objects, checkers, hlHeap, hlGlobals, hlLocals,
            thread_disable_counter, hlPc, hlArg, hlReport, hlOps, hlFatal>>

lifeVars == <<heap_check, hlPhase, heap_checker_on, constructor_heap_profiling, hlHooks,
              profile_name_prefix, do_main_heap_check, have_disabled_hooks_for_symbolize>>
heapVars == <<hlHeap, hlGlobals, hlLocals, thread_disable_counter>>
threadVars == <<hlPc, hlArg>>

HlTable == [NewTable EXCEPT !.map = hlMap]

NoChecker == [active |-> FALSE, snapshot |-> {}, has_checked |-> FALSE, exists |-> FALSE]
NoReport == [made |-> FALSE, leaks |-> {}, garbage |-> {}, exact |-> FALSE]

HlInit ==
  /\ heap_check \in HlModes /\ hlPhase = "constructors"
  /\ heap_checker_on = FALSE /\ constructor_heap_profiling = FALSE /\ hlHooks = {}
  /\ profile_name_prefix = FALSE /\ do_main_heap_check = FALSE
  /\ have_disabled_hooks_for_symbolize = FALSE
  /\ hlMap = << >> /\ ignored_objects = {}
  /\ checkers = [c \in {"main", "local"} |-> NoChecker]
  /\ hlHeap = << >> /\ hlGlobals = {} /\ hlLocals = [t \in HlThreads |-> {}]
  /\ thread_disable_counter = [t \in HlThreads |-> 0]
  /\ hlPc = [t \in HlThreads |-> "idle"] /\ hlArg = [t \in HlThreads |-> "none"]
  /\ hlReport = NoReport /\ hlOps = 0 /\ hlFatal = "no"

HlGoto(t, from, to, arg) ==
  /\ hlPc[t] = from /\ hlPc' = [hlPc EXCEPT ![t] = to]
  /\ hlArg' = [hlArg EXCEPT ![t] = arg]
HlCall == hlOps < HlMaxOps /\ hlOps' = hlOps + 1
Running == hlFatal = "no" /\ hlPhase # "exited"
MayRun(t) == Running /\ (hlPhase = "main" \/ t = MainThread)

-----------------------------------------------------------------------------
\* Life of the checker.  The first allocation calls HeapLeakChecker_BeforeConstructors.
BeforeConstructors ==
  /\ hlPhase = "constructors" /\ hlPhase' = "init"
  /\ LET need == heap_check # ""
     IN /\ heap_checker_on' = need /\ constructor_heap_profiling' = need
        /\ hlHooks' = IF need THEN {"New", "Delete"} ELSE {}
  /\ hlReport' = NoReport
  /\ UNCHANGED <<heap_check, profile_name_prefix, do_main_heap_check,
                 have_disabled_hooks_for_symbolize, hlMap, ignored_objects, checkers, heapVars,
                 threadVars, hlOps, hlFatal>>

TurnItselfOffLocked ==
  /\ heap_check' = ""
  /\ heap_checker_on' = FALSE /\ hlHooks' = {}
  /\ hlMap' = << >> /\ ignored_objects' = {}
  /\ hlFatal' = IF constructor_heap_profiling /\ ~(heap_checker_on /\ hlHooks = {"New", "Delete"})
                THEN "hooks" ELSE hlFatal
  /\ UNCHANGED <<constructor_heap_profiling, profile_name_prefix, do_main_heap_check,
                 have_disabled_hooks_for_symbolize, checkers, hlOps, heapVars>>

\* HeapLeakChecker_InternalInitStart turns the checker off when it was not asked
\* for, when a debugger is attached and when /proc/self/maps is of no use, and
\* names the profiles otherwise.
InternalInitStart ==
  /\ Running /\ hlPhase = "init" /\ hlPc[MainThread] = "idle"
  /\ \/ hlPhase' = "main" /\ TurnItselfOffLocked
     \/ /\ heap_check # ""
        /\ hlFatal' = IF constructor_heap_profiling THEN hlFatal ELSE "late"
        /\ heap_checker_on' = TRUE /\ profile_name_prefix' = TRUE
        /\ hlPhase' = IF heap_check = "local" THEN "main" ELSE "create"
        /\ UNCHANGED <<heap_check, constructor_heap_profiling, hlHooks, do_main_heap_check,
                       have_disabled_hooks_for_symbolize, hlMap, ignored_objects, checkers,
                       hlOps, heapVars>>
  /\ hlReport' = NoReport
  /\ UNCHANGED <<threadVars>>

\* Create: a checker is active if the checker is on and profiles have a name.
CheckerCreated(make_start_snapshot) ==
  LET active == heap_checker_on /\ profile_name_prefix
  IN [active |-> active, has_checked |-> FALSE, exists |-> TRUE,
      snapshot |-> IF active /\ make_start_snapshot THEN DOMAIN TakeSnapshot(HlTable) ELSE {}]

BeforeCtors == heap_check # "minimal"

CreateMain ==
  /\ Running /\ hlPhase = "create" /\ hlPhase' = "main"
  /\ checkers' = [checkers EXCEPT !["main"] = CheckerCreated(~BeforeCtors)]
  /\ do_main_heap_check' = TRUE
  /\ hlFatal' = IF heap_checker_on /\ constructor_heap_profiling THEN hlFatal ELSE "not on"
  /\ hlReport' = NoReport
  /\ UNCHANGED <<heap_check, heap_checker_on, constructor_heap_profiling, hlHooks,
                 profile_name_prefix, have_disabled_hooks_for_symbolize, hlMap, ignored_objects,
                 heapVars, threadVars, hlOps>>

CancelGlobalCheck ==
  /\ Running /\ hlPhase = "main" /\ do_main_heap_check /\ HlCall
  /\ do_main_heap_check' = FALSE
  /\ hlReport' = NoReport
  /\ UNCHANGED <<heap_check, hlPhase, heap_checker_on, constructor_heap_profiling, hlHooks,
                 profile_name_prefix, have_disabled_hooks_for_symbolize, hlMap, ignored_objects,
                 checkers, heapVars, threadVars, hlFatal>>

-----------------------------------------------------------------------------
\* The program.  An allocation is recorded once NewHook has the lock; a thread
\* may free an object it has a pointer to, and no one uses it after.
Allocate(t) ==
  \E p \in HlPtrs \ DOMAIN hlHeap, stack \in HtStacks :
    /\ MayRun(t) /\ hlPhase # "constructors" /\ HlCall
    /\ HlGoto(t, "idle", IF "New" \in hlHooks THEN "NewHook" ELSE "idle", p)
    /\ hlHeap' = SetAt(hlHeap, p, [words |-> {}, stack |-> stack,
                                   disabled |-> thread_disable_counter[t] > 0])
    /\ hlLocals' = [hlLocals EXCEPT ![t] = @ \cup {p}]
    /\ hlReport' = NoReport
    /\ UNCHANGED <<lifeVars, hlMap, ignored_objects, checkers, hlGlobals,
                   thread_disable_counter, hlFatal>>

NewHook(t) ==
  LET p == hlArg[t]
      recorded == TableRecordAlloc(HlTable, p, 1, hlHeap[p].stack)
  IN /\ Running /\ HlGoto(t, "NewHook", "idle", "none")
     /\ hlMap' = IF ~heap_checker_on THEN hlMap
                 ELSE IF thread_disable_counter[t] > 0 THEN MarkAsIgnored(recorded, p).map
                 ELSE recorded.map
     /\ hlReport' = NoReport
     /\ UNCHANGED <<lifeVars, ignored_objects, checkers, heapVars, hlOps, hlFatal>>

Forget(p) ==
  /\ hlGlobals' = hlGlobals \ {p}
  /\ hlLocals' = [t \in HlThreads |-> hlLocals[t] \ {p}]
  /\ hlHeap' = [q \in DOMAIN hlHeap |->
                  [hlHeap[q] EXCEPT !.words = IF q = p THEN {} ELSE @ \ {p}]]

Busy(p) == \E t \in HlThreads : hlPc[t] # "idle" /\ hlArg[t] = p

Delete(t) ==
  \E p \in hlLocals[t] \cap DOMAIN hlHeap :
    /\ MayRun(t) /\ HlCall /\ ~Busy(p) /\ p \notin ignored_objects
    /\ HlGoto(t, "idle", IF "Delete" \in hlHooks THEN "DeleteHook" ELSE "freeing", p)
    /\ Forget(p)
    /\ hlReport' = NoReport
    /\ UNCHANGED <<lifeVars, hlMap, ignored_objects, checkers, thread_disable_counter, hlFatal>>

DeleteHook(t) ==
  /\ Running /\ HlGoto(t, "DeleteHook", "freeing", hlArg[t])
  /\ hlMap' = IF heap_checker_on THEN TableRecordFree(HlTable, hlArg[t]).map ELSE hlMap
  /\ hlReport' = NoReport
  /\ UNCHANGED <<lifeVars, ignored_objects, checkers, heapVars, hlOps, hlFatal>>

Freed(t) ==
  /\ Running /\ HlGoto(t, "freeing", "idle", "none")
  /\ hlHeap' = RemoveKey(hlHeap, hlArg[t])
  /\ hlReport' = NoReport
  /\ UNCHANGED <<lifeVars, hlMap, ignored_objects, checkers, hlGlobals, hlLocals,
                 thread_disable_counter, hlOps, hlFatal>>

Known(t) == {p \in hlLocals[t] \cap DOMAIN hlHeap : ~Busy(p)}

\* A thread stores a pointer it has in a global or in an object it can reach,
\* loads one, drops one, or clears a global.
MovePointer(t) ==
  /\ MayRun(t) /\ hlPc[t] = "idle" /\ HlCall
  /\ \/ \E p \in Known(t) : hlGlobals' = hlGlobals \cup {p} /\ UNCHANGED <<hlHeap, hlLocals>>
     \/ \E p \in hlGlobals : hlGlobals' = hlGlobals \ {p} /\ UNCHANGED <<hlHeap, hlLocals>>
     \/ \E p, q \in Known(t) : /\ p # q /\ hlHeap' = [hlHeap EXCEPT ![q].words = @ \cup {p}]
                               /\ UNCHANGED <<hlGlobals, hlLocals>>
     \/ \E p \in hlGlobals \cup UNION {hlHeap[q].words : q \in Known(t)} :
          hlLocals' = [hlLocals EXCEPT ![t] = @ \cup {p}] /\ UNCHANGED <<hlGlobals, hlHeap>>
     \/ \E p \in Known(t) : /\ hlLocals' = [hlLocals EXCEPT ![t] = @ \ {p}]
                            /\ UNCHANGED <<hlGlobals, hlHeap>>
  /\ hlReport' = NoReport
  /\ UNCHANGED <<lifeVars, hlMap, ignored_objects, checkers, thread_disable_counter,
                 threadVars, hlFatal>>

Disabler(t) ==
  /\ MayRun(t) /\ hlPc[t] = "idle" /\ HlCall
  /\ thread_disable_counter' = [thread_disable_counter EXCEPT ![t] = 1 - @]
  /\ hlReport' = NoReport
  /\ UNCHANGED <<lifeVars, hlMap, ignored_objects, checkers, hlHeap, hlGlobals, hlLocals,
                 threadVars, hlFatal>>

\* Objects the program ignores stay allocated until it no longer ignores them.
DoIgnoreObject(t) ==
  \E p \in Known(t) :
    /\ MayRun(t) /\ hlPc[t] = "idle" /\ HlCall
    /\ ignored_objects' = IF heap_checker_on /\ p \in DOMAIN hlMap
                          THEN ignored_objects \cup {p} ELSE ignored_objects
    /\ hlReport' = NoReport
    /\ UNCHANGED <<lifeVars, hlMap, checkers, heapVars, threadVars, hlFatal>>

UnIgnoreObject(t) ==
  \E p \in Known(t) \cap ignored_objects :
    /\ MayRun(t) /\ hlPc[t] = "idle" /\ HlCall
    /\ hlFatal' = IF p \in DOMAIN hlMap THEN hlFatal ELSE "un-ignore"
    /\ ignored_objects' = ignored_objects \ {p}
    /\ hlReport' = NoReport
    /\ UNCHANGED <<lifeVars, hlMap, checkers, heapVars, threadVars>>

-----------------------------------------------------------------------------
\* A thread in malloc or free has the object in a register.
OnStack(t) == hlLocals[t] \cup (IF hlPc[t] = "idle" THEN {} ELSE {hlArg[t]})

\* IgnoreLiveObjectsLocked: marks the objects that have a pointer in the places
\* of live_objects, then the ones those point to, and so on.
RECURSIVE IgnoreLiveObjectsLocked(_, _)
IgnoreLiveObjectsLocked(table, pointers) ==
  LET new == {p \in pointers : MayMarkAsLive(table, p)}
  IN IF new = {} THEN table
     ELSE IgnoreLiveObjectsLocked(
            [table EXCEPT !.map = [p \in DOMAIN @ |->
                                     IF p \in new THEN [@[p] EXCEPT !.live = TRUE] ELSE @[p]]],
            UNION {hlHeap[p].words : p \in new})

\* The roots, in the order a check uses them.  Objects given as such rather than
\* by a pointer are marked, and searched, the same way.
DisabledByCode(table) == {p \in DOMAIN table.map : table.map[p].stack = "library"}
\* Forgets the objects of a Disabler.
FlaggedIgnoredNone(table) == {}
FlaggedIgnored(table) == {p \in DOMAIN table.map : table.map[p].ignore}

IgnoreNonThreadLiveObjectsLocked(table, self, global_live) ==
  LET a == IgnoreLiveObjectsLocked(table, OnStack(self))
      b == IgnoreLiveObjectsLocked(a, ignored_objects)
      c == IgnoreLiveObjectsLocked(b, FlaggedIgnored(b))
      d == IgnoreLiveObjectsLocked(c, DisabledByCode(c))
  IN IF global_live THEN IgnoreLiveObjectsLocked(d, hlGlobals) ELSE d

\* found: the threads whose stack and registers the thread lister could read.
IgnoreAllLiveObjectsLocked(self, found, thread_live, global_live) ==
  IgnoreNonThreadLiveObjectsLocked(
    IF thread_live THEN IgnoreLiveObjectsLocked(HlTable, UNION {OnStack(t) : t \in found})
    ELSE HlTable,
    self, global_live)

\* What the program can still reach, from the heap alone.
RECURSIVE ReachableFrom(_)
ReachableFrom(S) ==
  LET more == S \cup UNION {hlHeap[p].words : p \in S \cap DOMAIN hlHeap}
  IN IF more = S THEN S ELSE ReachableFrom(more)
Excused == ignored_objects
             \cup {p \in DOMAIN hlHeap : hlHeap[p].disabled \/ hlHeap[p].stack = "library"}
Reachable == ReachableFrom(hlGlobals \cup UNION {OnStack(t) : t \in HlThreads} \cup Excused)

\* DoNoLeaks up to the end of the report.  Reading the threads may fail for all
\* or for some of them, and then the check says so and goes on.
DoNoLeaks(t, c, symbolize) ==
  LET live == heap_check # "draconian"
  IN \E found \in SUBSET (HlThreads \ {t}) :
       LET marked == IgnoreAllLiveObjectsLocked(t, found, live, live)
           leaks == DOMAIN NonLiveSnapshot(marked, checkers[c].snapshot)
       IN IF have_disabled_hooks_for_symbolize
          THEN /\ hlFatal' = "checked again"
               /\ UNCHANGED <<hlMap, checkers, hlReport, have_disabled_hooks_for_symbolize>>
          ELSE IF ~heap_checker_on
          THEN UNCHANGED <<hlMap, checkers, hlReport, have_disabled_hooks_for_symbolize, hlFatal>>
          ELSE /\ hlFatal' = IF ~checkers[c].active THEN "turned on"
                             ELSE IF ~(ignored_objects \subseteq DOMAIN hlMap)
                             THEN "disappeared" ELSE hlFatal
               /\ hlMap' = ClearLive(marked).map
               /\ checkers' = [checkers EXCEPT ![c].has_checked = TRUE]
               /\ hlReport' = [made |-> TRUE, leaks |-> leaks,
                               garbage |-> DOMAIN hlMap \ (Reachable \cup checkers[c].snapshot),
                               exact |-> live /\ found = HlThreads \ {t}]
               /\ have_disabled_hooks_for_symbolize' = (symbolize /\ leaks # {})

\* GetNewHook is the hook set with SetNewHook; the checker added its own to the
\* list, so before symbolizing there is nothing here to take out.
UnsetHooksForSymbolize == UNCHANGED hlHooks

NoLeaks(t) ==
  \E c \in {"main", "local"} :
    /\ MayRun(t) /\ hlPhase = "main" /\ hlPc[t] = "idle" /\ HlCall
    /\ checkers[c].exists /\ DoNoLeaks(t, c, FALSE)
    /\ UNCHANGED <<heap_check, hlPhase, heap_checker_on, constructor_heap_profiling, hlHooks,
                   profile_name_prefix, do_main_heap_check, ignored_objects, heapVars, threadVars>>

CreateLocal(t) ==
  /\ MayRun(t) /\ hlPhase # "constructors" /\ hlPc[t] = "idle" /\ HlCall
  /\ ~checkers["local"].exists
  /\ checkers' = [checkers EXCEPT !["local"] = CheckerCreated(TRUE)]
  /\ hlReport' = NoReport
  /\ UNCHANGED <<lifeVars, hlMap, ignored_objects, heapVars, threadVars, hlFatal>>

\* The destructor insists that an active checker has been used.
Destroy(t) ==
  /\ MayRun(t) /\ hlPc[t] = "idle"
  /\ checkers["local"].exists /\ (checkers["local"].active => checkers["local"].has_checked)
  /\ checkers' = [checkers EXCEPT !["local"] = NoChecker]
  /\ hlReport' = NoReport
  /\ UNCHANGED <<lifeVars, hlMap, ignored_objects, heapVars, threadVars, hlOps, hlFatal>>

\* The end of the process: HeapLeakChecker_AfterDestructors does the check of
\* the whole program once, unless it was cancelled, and exits.
AfterDestructors ==
  /\ Running /\ hlPhase = "main" /\ hlPc[MainThread] = "idle" /\ hlPhase' = "exited"
  /\ do_main_heap_check' = FALSE
  /\ IF do_main_heap_check
     THEN DoNoLeaks(MainThread, "main", TRUE) /\ UnsetHooksForSymbolize
     ELSE UNCHANGED <<hlMap, checkers, hlReport, have_disabled_hooks_for_symbolize, hlFatal,
                      hlHooks>>
  /\ UNCHANGED <<heap_check, heap_checker_on, constructor_heap_profiling, profile_name_prefix,
                 ignored_objects, heapVars, threadVars, hlOps>>

HlNext ==
  \/ BeforeConstructors \/ InternalInitStart \/ CreateMain \/ CancelGlobalCheck \/ AfterDestructors
  \/ \E t \in HlThreads :
       \/ Allocate(t) \/ NewHook(t) \/ Delete(t) \/ DeleteHook(t) \/ Freed(t)
       \/ MovePointer(t) \/ Disabler(t) \/ DoIgnoreObject(t) \/ UnIgnoreObject(t)
       \/ NoLeaks(t) \/ CreateLocal(t) \/ Destroy(t)

HlSpec == HlInit /\ [][HlNext]_hlVars

-----------------------------------------------------------------------------
\* With every thread read, a check reports exactly the objects recorded since the
\* checker's snapshot that the program cannot reach any more: nothing it can
\* reach, nothing it asked to ignore, by IgnoreObject or with a Disabler, and
\* nothing such objects lead to, but everything else, however allocations, frees
\* and moves of pointers were interleaved with the check.
LeaksExact == hlReport.made /\ hlReport.exact => hlReport.leaks = hlReport.garbage

\* Every checker that was made active can check to its end: the checker is not
\* turned off under it, and of the fatal errors on the way only the one for a
\* checker constructed before the checker's own initialisation can occur.
ChecksAreMade ==
  /\ \A c \in DOMAIN checkers : checkers[c].active => heap_checker_on
  /\ hlFatal \in {"no", "turned on"}
  /\ do_main_heap_check => checkers["main"].active
  /\ \A p \in DOMAIN hlMap : p \in DOMAIN hlHeap

=============================================================================
