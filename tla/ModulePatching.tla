--------------------------- MODULE ModulePatching ---------------------------
(***************************************************************************)
(* windows/patch_functions.cc: every loaded module with a C library gets a   *)
(* LibcInfo slot, whose Perftools_ functions its malloc, free and so on are  *)
(* patched to jump to and whose origstub_fn_ lead to the originals.  The     *)
(* patched LoadLibraryExW and FreeLibrary bring the slots up to date, in     *)
(* two critical sections with calls to Windows before and between them.      *)
(* A function body is <<owner, name>>; its owner is a module or a slot.      *)
(***************************************************************************)
EXTENDS Integers, Sequences, SequencesExt, FiniteSets, FiniteSetsExt, Functions

CONSTANTS
    WpThreads,
    Modules, HasLibc,   \* modules; those that define the functions themselves
    SameNew,            \* modules whose new and new[] are one function
    Slots,              \* sequence of the slots, g_module_libcs
    WpMaxOps            \* bound on the loads and unloads

VARIABLES
    refs,               \* module -> Windows' reference count; 0 is not loaded
    jump,               \* body -> the slot it is patched to jump to
    libc,               \* slot -> is_valid, module and windows_fn
    origstub_fn,        \* slot -> name -> the body the stub continues
    g_last_loaded,
    hooked,             \* LoadLibraryExW and FreeLibrary are patched
    main_patched,       \* main_executable.patched()
    wt,                 \* thread -> its call
    wpDisturbed,          \* history: calls overlapped, or the enumeration failed
    full,               \* history: modules for which there was no slot
    wpOps

wpVars == <<refs, jump, libc, origstub_fn, g_last_loaded, hooked, main_patched, wt,
            wpDisturbed, full, wpOps>>
slotVars == <<jump, libc, origstub_fn>>

Names == {"free", "new", "new[]"}
NoSlot == "none"
NoBody == <<"none", "none">>
SlotSet == ToSet(Slots)

ASSUME ModulePatchingAssumption ==
    /\ HasLibc \subseteq Modules /\ SameNew \subseteq HasLibc
    /\ Modules \cap SlotSet = {} /\ NoSlot \notin Modules \cup SlotSet

Loaded == {m \in Modules : refs[m] > 0}
IdleThread == [pc |-> "idle", list |-> {}, fresh |-> {}]
EmptySlot == [valid |-> FALSE, module |-> NoSlot, fn |-> [n \in Names |-> NoBody]]

WpInit ==
    /\ refs \in [Modules -> {0, 1}]
    /\ jump = [b \in (Modules \cup SlotSet) \X Names |-> NoSlot]
    /\ libc = [s \in SlotSet |-> EmptySlot]
    /\ origstub_fn = [s \in SlotSet |-> [n \in Names |-> NoBody]]
    /\ g_last_loaded = {} /\ hooked = FALSE /\ main_patched = FALSE
    /\ wt = [t \in WpThreads |-> IdleThread]
    /\ wpDisturbed = FALSE /\ full = {} /\ wpOps = 0

-----------------------------------------------------------------------------
(* Functions                                                               *)

(* PreamblePatcher::ResolveTarget: follow the jumps.                       *)
Follow(j, b) == IF j[b] = NoSlot THEN b ELSE <<j[b], b[2]>>
ResolveModuleTarget(j, b) == FoldLeft(LAMBDA x, s : Follow(j, x), b, Slots)

(* rgProcAddresses of ModuleEntryCopy: forwarded functions are left out.   *)
ProcAddress(m, n) == <<m, IF n = "new[]" /\ m \in SameNew THEN "new" ELSE n>>

(* PopulateWindowsFn: no function twice, and none that another slot has.   *)
WindowsFn(j, slots, m) ==
    LET all == [n \in Names |-> ResolveModuleTarget(j, ProcAddress(m, n))]
        once == [all EXCEPT !["new[]"] = IF @ = all["new"] THEN NoBody ELSE @]
    IN  [n \in Names |->
           IF \E s \in SlotSet : slots[s].valid /\ slots[s].fn[n] = once[n]
           THEN NoBody ELSE once[n]]

(* LibcInfoWithPatchFunctions::Patch, for slot s.                          *)
PatchSlot(st, s, m, fn) ==
    LET todo == {n \in Names : fn[n] # NoBody /\ fn[n] # <<s, n>>}
        bodies == {fn[n] : n \in todo}
    IN  [jump |-> [b \in DOMAIN st.jump |-> IF b \in bodies THEN s ELSE st.jump[b]],
         libc |-> [st.libc EXCEPT ![s] = [valid |-> TRUE, module |-> m, fn |-> fn]],
         stub |-> [st.stub EXCEPT ![s] = [n \in Names |->
                      IF n \in todo THEN ResolveModuleTarget(st.jump, fn[n]) ELSE @[n]]],
         full |-> st.full]

FreeSlots(slots) == SelectSeq(Slots, LAMBDA s : ~slots[s].valid)

(* PatchOneModuleLocked for a module that has libc routines to patch.      *)
PatchOneModule(st, m) ==
    LET fn == WindowsFn(st.jump, st.libc, m)
        free == FreeSlots(st.libc)
    IN  IF m \notin HasLibc \/ \A n \in Names : fn[n] = NoBody THEN st
        ELSE IF free = << >> THEN [st EXCEPT !.full = @ \cup {m}]
        ELSE PatchSlot(st, free[1], m, fn)

(* Where Perftools_free, _realloc and the deletes of a slot send memory    *)
(* that is not tcmalloc's: along the stubs to some module's own free.      *)
Continue(stubs, b) == IF b[1] \in SlotSet THEN stubs[b[1]]["free"] ELSE b
ForeignFree(m) ==
    FoldLeft(LAMBDA b, s : Continue(origstub_fn, b), ResolveModuleTarget(jump, <<m, "free">>), Slots)

-----------------------------------------------------------------------------
(* Loading and unloading                                                   *)

Busy == {t \in WpThreads : wt[t].pc # "idle"}
Begin(t, pc) ==
    /\ wt' = [wt EXCEPT ![t].pc = pc]
    /\ wpDisturbed' = (wpDisturbed \/ Busy \ {t} # {})

(* PatchWindowsFunctions: once, before the other threads run.              *)
PatchWindowsFunctions(t) ==
    /\ ~hooked /\ Busy = {} /\ Begin(t, "enum")
    /\ UNCHANGED <<refs, slotVars, g_last_loaded, hooked, main_patched, full, wpOps>>

(* LoadLibraryExW: a module that is loaded only gains a reference; a new   *)
(* one comes with unpatched code.                                          *)
LoadLibrary(t, m) ==
    /\ hooked /\ wt[t].pc = "idle" /\ wpOps < WpMaxOps
    /\ wpOps' = wpOps + 1
    /\ refs' = [refs EXCEPT ![m] = @ + 1]
    /\ IF m \in Loaded THEN UNCHANGED <<jump, wt, wpDisturbed>>
       ELSE /\ jump' = [b \in DOMAIN jump |-> IF b[1] = m THEN NoSlot ELSE jump[b]]
            /\ Begin(t, "enum")
    /\ UNCHANGED <<libc, origstub_fn, g_last_loaded, hooked, main_patched, full>>

FreeLibrary(t, m) ==
    /\ hooked /\ wt[t].pc = "idle" /\ wpOps < WpMaxOps /\ m \in Loaded
    /\ wpOps' = wpOps + 1
    /\ refs' = [refs EXCEPT ![m] = @ - 1]
    /\ IF refs[m] > 1 THEN UNCHANGED <<wt, wpDisturbed>> ELSE Begin(t, "enum")
    /\ full' = IF refs[m] > 1 THEN full ELSE full \ {m}
    /\ UNCHANGED <<slotVars, g_last_loaded, hooked, main_patched>>

-----------------------------------------------------------------------------
(* PatchAllModules                                                         *)

EnumProcessModules(t) ==
    /\ wt[t].pc = "enum"
    /\ \/ wt' = [wt EXCEPT ![t] = [@ EXCEPT !.pc = "update", !.list = Loaded]] /\ UNCHANGED wpDisturbed
       \/ wt' = [wt EXCEPT ![t] = [@ EXCEPT !.pc = "update", !.list = {}]] /\ wpDisturbed' = TRUE
    /\ UNCHANGED <<refs, slotVars, g_last_loaded, hooked, main_patched, full, wpOps>>

(* First critical section: slots of modules that are gone are invalidated. *)
InvalidateSlots(list) ==
    [s \in SlotSet |-> [libc[s] EXCEPT !.valid = @ /\ libc[s].module \in list]]

UpdateLoaded(t) ==
    /\ wt[t].pc = "update"
    /\ wt' = [wt EXCEPT ![t] = [@ EXCEPT !.pc = "info", !.fresh = wt[t].list \ g_last_loaded]]
    /\ libc' = InvalidateSlots(wt[t].list)
    /\ g_last_loaded' = wt[t].list
    /\ UNCHANGED <<refs, jump, origstub_fn, hooked, main_patched, wpDisturbed, full, wpOps>>

(* GetModuleInformation and GetProcAddress, without the lock.              *)
GetInformation(t) ==
    /\ wt[t].pc = "info"
    /\ wt' = [wt EXCEPT ![t] = [@ EXCEPT !.pc = "patch", !.fresh = @ \cap Loaded]]
    /\ UNCHANGED <<refs, slotVars, g_last_loaded, hooked, main_patched, wpDisturbed, full, wpOps>>

(* Second critical section: the new modules, then the main executable.     *)
PatchNew(t) ==
    /\ wt[t].pc = "patch"
    /\ \E order \in SetToSeqs(wt[t].fresh) :
         LET st == FoldLeft(PatchOneModule,
                            [jump |-> jump, libc |-> libc, stub |-> origstub_fn, full |-> full],
                            order)
         IN  jump' = st.jump /\ libc' = st.libc /\ origstub_fn' = st.stub /\ full' = st.full
    /\ main_patched' = TRUE
    /\ wt' = [wt EXCEPT ![t] = IdleThread]
    /\ hooked' = TRUE
    /\ UNCHANGED <<refs, g_last_loaded, wpDisturbed, wpOps>>

WpNext ==
    \E t \in WpThreads :
      \/ PatchWindowsFunctions(t) \/ EnumProcessModules(t) \/ UpdateLoaded(t)
      \/ GetInformation(t) \/ PatchNew(t)
      \/ \E m \in Modules : LoadLibrary(t, m) \/ FreeLibrary(t, m)

WpSpec == WpInit /\ [][WpNext]_wpVars

-----------------------------------------------------------------------------
(* Whatever was loaded, unloaded and loaded again, with or without an      *)
(* unload in between, every loaded module with a C library jumps to a slot *)
(* of its own, all functions to the same one and none twice, and foreign   *)
(* memory goes to the module's own free, not to that of a module that had  *)
(* the slot before; only modules that found the slots taken stay as they   *)
(* were.  The slots in use are those of loaded modules.  This is the       *)
(* promise of PatchAllModules when its callers do not overlap and the      *)
(* enumeration works.                                                      *)
EveryModulePatched ==
    hooked /\ Busy = {} /\ ~wpDisturbed =>
      /\ \A m \in Loaded \cap HasLibc :
           IF m \in full THEN \A n \in Names : jump[<<m, n>>] = NoSlot
           ELSE \E s \in SlotSet :
                  /\ libc[s].valid /\ libc[s].module = m
                  /\ \A n \in Names : ResolveModuleTarget(jump, ProcAddress(m, n))[1] = s
                  /\ ForeignFree(m) = <<m, "free">>
                  /\ Cardinality({n \in Names : libc[s].fn[n] # NoBody})
                       = Cardinality({ProcAddress(m, n) : n \in Names})
      /\ \A s \in SlotSet : libc[s].valid => libc[s].module \in Loaded

=============================================================================
