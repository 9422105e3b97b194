------------------------------ MODULE MCPlatform ------------------------------
(*****************************************************************************)
(* Model checking of what surrounds the allocator: the start of a program in *)
(* the reduced address space (ShrinkAddrSpace, MmapHooks), the compiler      *)
(* passes (FatPointers, StackSafety, ModulePasses), the CPU profiler         *)
(* (CpuProfiler) and the stack traces it records (StackTrace), the stopping  *)
(* of all threads (ThreadLister), the readers of /proc/self/maps (SysInfo)   *)
(* and the patching of functions on Windows (ModulePatching,                 *)
(* PreamblePatcher, MiniDisassembler). A behaviour runs one of them, chosen  *)
(* in its first state.                                                       *)
(*****************************************************************************)
EXTENDS ShrinkAddrSpace, MmapHooks, FatPointers, StackSafety, ModulePasses,
        CpuProfiler, ThreadLister, ModulePatching, PreamblePatcher, SysInfo,
        MiniDisassembler, StackTrace

VARIABLE part   \* the component this behaviour runs

MCBinaryMaps == {[start |-> 1, size |-> 1], [start |-> 5, size |-> 1]}
MCLibSize == [l \in Libs |-> IF l = "libc" THEN 2 ELSE 1]
MCHighLayouts == {[stack |-> 20, vdso |-> 21], [stack |-> 21, vdso |-> 20],
                  [stack |-> 20, vdso |-> 18]}

MCIncrements == {-4, -2, 2, 3}

MCDepth == [s \in Traces |-> IF s = "deep" THEN 3 ELSE 1]

MCSlots == <<"s1", "s2">>

\* The code of four functions: thunk jumps to main, remote is out of reach of a
\* near jump.  main begins with every pair of instructions.
Instr(k, n, d) == [kind |-> k, size |-> n, dest |-> d]
Plain(n) == Instr("plain", n, n)
MCEntry == [main |-> 640, other |-> 700, thunk |-> 720, remote |-> 1500]
MCInstructions ==
  {Plain(2), Plain(4), Instr("mov", 7, 610), Instr("jcc8", 2, 655), Instr("jmp8", 2, 655),
   Instr("jcc32", 6, 780), Instr("jcc32", 6, 1030), Instr("jmp32", 5, 1030),
   Instr("call32", 5, 650), Instr("call32", 5, 780), Instr("callabs", 6, 780),
   Instr("callreg", 2, 600), Instr("ret", 1, 0), Instr("unknown", 1, 0)}
MCBodies ==
  {<<a, b, Plain(2), Plain(2), Plain(4)>> :
     a \in {i \in MCInstructions : i.kind \notin {"jmp8", "jmp32"}}, b \in MCInstructions}
MCCode ==
  [main |-> <<Plain(4), Plain(4), Plain(2)>>, other |-> <<Plain(4), Plain(4), Plain(2)>>,
   thunk |-> <<Instr("jmp32", 5, 640), Plain(1)>>, remote |-> <<Plain(2), Plain(4)>>]

\* Files of mappings whose lines end before, at and behind the end of the buffer.
Mapping(s, e, pad, name) == [start |-> s, end |-> e, pad |-> pad, name |-> name]
MCFiles ==
  {<<Mapping("1", "2", 1, <<>>), Mapping("3", "4", 2, <<"p">>),
     Mapping("5", "6", 3, <<"p", " ", "p">>)>>,
   <<Mapping("1", "2", 1, [i \in 1 .. 14 |-> "p"]), Mapping("3", "4", 2, <<"p">>)>>,
   <<Mapping("1", "3", 2, <<"p", "p", "p", "p">>), Mapping("3", "4", 1, <<>>),
     Mapping("5", "6", 1, <<"p">>)>>}

MCPrefixes == {<<>>, <<102>>, <<103>>, <<243>>, <<46, 102>>, <<242>>}
MCRex == {<<64>>, <<72>>, <<102, 65>>}

\* No VDSO, the SYSENTER stub of Intel and the SYSCALL stub of AMD.
MCVsyscall ==
  {<<>>, <<81, 82, 85, 137, 229, 15, 52, 144, 144, 144, 144>>,
   <<85, 137, 205, 15, 5, 185, 123, 0, 0, 0, 0>>}
MCLimits == {<<1, 1>>, <<2, 0>>, <<7, 0>>}

\* The value of the variables of a component that is not the one that runs.
NotRun == "not run"

ShrinkOff ==
  /\ mem = NotRun /\ stage = NotRun /\ setup = NotRun /\ baseaddr = NotRun
  /\ unplaced = NotRun /\ base = NotRun /\ preinit = NotRun
  /\ tableAlloced = NotRun /\ sentinel = NotRun /\ words = NotRun
  /\ ubp = NotRun /\ environ = NotRun /\ truncated = NotRun
  /\ filledFrom = NotRun /\ running_in_small_addr_space = NotRun

MappingsOff ==
  /\ mapped = NotRun /\ brk = NotRun /\ entry = NotRun
  /\ isPageTableAlloced = NotRun /\ metalloc_sentinel = NotRun
  /\ todo = NotRun /\ status = NotRun /\ refusals = NotRun
  /\ calls = NotRun /\ disturbed = NotRun

PointersOff ==
  /\ prog = NotRun /\ pass = NotRun /\ fpPhase = NotRun /\ sinks = NotRun

StackOff ==
  /\ code = NotRun /\ ssPhase = NotRun /\ ignoredStores = NotRun
  /\ copied = NotRun

GlobalsOff ==
  /\ globals = NotRun /\ cursor = NotRun /\ metaDataInserted = NotRun
  /\ initCalls = NotRun /\ deep = NotRun /\ params = NotRun
  /\ entryBlock = NotRun /\ avPc = NotRun /\ slots = NotRun
  /\ mpEnviron = NotRun /\ heap = NotRun /\ seenArgs = NotRun

CpuOff ==
  /\ frames = NotRun /\ lock_ = NotRun /\ control_lock_ = NotRun
  /\ signal_lock_ = NotRun /\ handlerOn = NotRun /\ callbacks_ = NotRun
  /\ callback_count_ = NotRun /\ timer_sharing_ = NotRun
  /\ allowed_ = NotRun /\ kernelMode = NotRun /\ timers = NotRun
  /\ prof_handler_token_ = NotRun /\ nextToken = NotRun /\ out_ = NotRun
  /\ hash_ = NotRun /\ evict_ = NotRun /\ count_ = NotRun /\ file = NotRun
  /\ started = NotRun /\ fatal = NotRun /\ cpCalls = NotRun
  /\ ticks = NotRun /\ added = NotRun

\* A lister that is never called.
ListerOff == TlInit /\ hasTaskDir

ModulesOff ==
  /\ refs = NotRun /\ jump = NotRun /\ libc = NotRun
  /\ origstub_fn = NotRun /\ g_last_loaded = NotRun /\ hooked = NotRun
  /\ main_patched = NotRun /\ wt = NotRun /\ wpDisturbed = NotRun
  /\ full = NotRun /\ wpOps = NotRun

PreambleOff ==
  /\ codeAt = NotRun /\ pages = NotRun /\ stubs = NotRun /\ patch = NotRun
  /\ failed = NotRun /\ ppOps = NotRun

MapsOff ==
  /\ siFile = NotRun /\ unread = NotRun /\ text = NotRun /\ stext = NotRun
  /\ nextline = NotRun /\ siPc = NotRun /\ entries = NotRun
  /\ broken = NotRun /\ out = NotRun /\ marked = NotRun /\ path = NotRun

DecoderOff ==
  /\ inst = NotRun /\ md = NotRun /\ mdPc = NotRun

UnwindOff ==
  /\ get_stack_impl = NotRun /\ vsyscall = NotRun /\ acts = NotRun
  /\ backtrace = NotRun /\ st = NotRun /\ recursive = NotRun
  /\ nested = NotRun

Init ==
  /\ part \in {"shrink", "mappings", "pointers", "stack", "globals", "cpu",
               "lister", "modules", "preamble", "maps", "decoder", "unwind"}
  /\ IF part = "shrink" THEN ShrinkInit ELSE ShrinkOff
  /\ IF part = "mappings" THEN MmapInit ELSE MappingsOff
  /\ IF part = "pointers" THEN FatInit ELSE PointersOff
  /\ IF part = "stack" THEN SafetyInit ELSE StackOff
  /\ IF part = "globals" THEN ModuleInit ELSE GlobalsOff
  /\ IF part = "cpu" THEN CpInit ELSE CpuOff
  /\ IF part = "lister" THEN TlInit ELSE ListerOff
  /\ IF part = "modules" THEN WpInit ELSE ModulesOff
  /\ IF part = "preamble" THEN PpInit ELSE PreambleOff
  /\ IF part = "maps" THEN SysInfoInit ELSE MapsOff
  /\ IF part = "decoder" THEN MdInit ELSE DecoderOff
  /\ IF part = "unwind" THEN StackInit ELSE UnwindOff

vars == <<part, shrinkVars, mmapVars, fpVars, ssVars, mpVars, cpVars, tlVars,
          wpVars, ppVars, siVars, mdVars, stVars>>

RunShrink ==
  /\ part = "shrink" /\ ShrinkNext
  /\ UNCHANGED <<part, mmapVars, fpVars, ssVars, mpVars, cpVars, tlVars,
                 wpVars, ppVars, siVars, mdVars, stVars>>

RunMappings ==
  /\ part = "mappings" /\ MmapNext
  /\ UNCHANGED <<part, shrinkVars, fpVars, ssVars, mpVars, cpVars, tlVars,
                 wpVars, ppVars, siVars, mdVars, stVars>>

RunPointers ==
  /\ part = "pointers" /\ FatNext
  /\ UNCHANGED <<part, shrinkVars, mmapVars, ssVars, mpVars, cpVars, tlVars,
                 wpVars, ppVars, siVars, mdVars, stVars>>

RunStack ==
  /\ part = "stack" /\ SafetyNext
  /\ UNCHANGED <<part, shrinkVars, mmapVars, fpVars, mpVars, cpVars, tlVars,
                 wpVars, ppVars, siVars, mdVars, stVars>>

RunGlobals ==
  /\ part = "globals" /\ ModuleNext
  /\ UNCHANGED <<part, shrinkVars, mmapVars, fpVars, ssVars, cpVars, tlVars,
                 wpVars, ppVars, siVars, mdVars, stVars>>

RunCpu ==
  /\ part = "cpu" /\ CpNext
  /\ UNCHANGED <<part, shrinkVars, mmapVars, fpVars, ssVars, mpVars, tlVars,
                 wpVars, ppVars, siVars, mdVars, stVars>>

RunLister ==
  /\ part = "lister" /\ TlNext
  /\ UNCHANGED <<part, shrinkVars, mmapVars, fpVars, ssVars, mpVars, cpVars,
                 wpVars, ppVars, siVars, mdVars, stVars>>

RunModules ==
  /\ part = "modules" /\ WpNext
  /\ UNCHANGED <<part, shrinkVars, mmapVars, fpVars, ssVars, mpVars, cpVars,
                 tlVars, ppVars, siVars, mdVars, stVars>>

RunPreamble ==
  /\ part = "preamble" /\ PpNext
  /\ UNCHANGED <<part, shrinkVars, mmapVars, fpVars, ssVars, mpVars, cpVars,
                 tlVars, wpVars, siVars, mdVars, stVars>>

RunMaps ==
  /\ part = "maps" /\ SysInfoNext
  /\ UNCHANGED <<part, shrinkVars, mmapVars, fpVars, ssVars, mpVars, cpVars,
                 tlVars, wpVars, ppVars, mdVars, stVars>>

RunDecoder ==
  /\ part = "decoder" /\ MdNext
  /\ UNCHANGED <<part, shrinkVars, mmapVars, fpVars, ssVars, mpVars, cpVars,
                 tlVars, wpVars, ppVars, siVars, stVars>>

RunUnwind ==
  /\ part = "unwind" /\ StackNext
  /\ UNCHANGED <<part, shrinkVars, mmapVars, fpVars, ssVars, mpVars, cpVars,
                 tlVars, wpVars, ppVars, siVars, mdVars>>

Next ==
  \/ RunShrink
  \/ RunMappings
  \/ RunPointers
  \/ RunStack
  \/ RunGlobals
  \/ RunCpu
  \/ RunLister
  \/ RunModules
  \/ RunPreamble
  \/ RunMaps
  \/ RunDecoder
  \/ RunUnwind

Spec == Init /\ [][Next]_vars

\* The start of a program in the reduced address space: after the stack has
\* moved every argument and environment string is where main looks for it,
\* and what is mapped later is mapped low.
StartsInReducedSpace == part = "shrink" => StackMoved /\ NewMappingsLow

\* The MAP_FIXED mappings of shrink.c and the prelinked libraries never take
\* a page that is in use.
NoPageClobbered == [][part = "shrink" => KeepsUse]_vars

\* The compiler passes: masking hides the metadata of a fat pointer wherever
\* it would be noticed and nowhere else, the stores and arguments that stay
\* untracked are safe for every offset, every global is tracked once and main
\* sees the copies of its arguments.
InstrumentationSound ==
  /\ part = "pointers" => MetaNeverObserved /\ MaskedOnlyWhereObserved
  /\ part = "stack" => UncheckedStoresInBounds /\ ByvalKeptOnlyIfSafe
  /\ part = "globals" => EachGlobalTrackedOnce /\ MainSeesCopies

\* The CPU profiler: every sample is written once, a callback is never run
\* after UnregisterCallback returned, the signal is handled exactly while
\* there are callbacks, and a signal blocks on its own thread's lock only in
\* CpuProfilerSwitch. The stack traces it records: every implementation names
\* the same callers, a damaged stack ends the walk or is repaired from the
\* signal's context, and a trace asked for while unwinding is refused.
CpuProfileExact ==
  /\ part = "cpu" => /\ ProfileExact /\ CallbackAlive
                     /\ HandlerMatchesCallbacks /\ SelfDeadlockOnlyInSwitch
  /\ part = "unwind" => /\ TraceNamesCallers /\ ContextRepairsWalk
                        /\ WalkBounded /\ UnwindNotReentered

\* What is read from /proc. TCMalloc_ListAllProcessThreads: all threads are
\* stopped when the callback runs, although threads start and exit while the
\* directory is read. ProcMapsIterator and its users: every mapping once and in
\* order, wherever read() cuts the file, no size reported that was not written,
\* and no two processes of a tree that write to the same profile.
ProcListingsExact ==
  /\ part = "lister" => AllStoppedInCallback
  /\ part = "maps" => MapsReadExactly /\ ProfileMapHonest /\ PathsUnique

\* Patching on Windows: every loaded module with a C library ends up in a
\* slot of its own, a patched function is redirected while its stub still
\* does what the function did, and the disassembler, which measures what may
\* be overwritten, finds length and kind of an instruction.
WindowsPatchingSound ==
  /\ part = "modules" => EveryModulePatched
  /\ part = "preamble" => PatchesSound
  /\ part = "decoder" => DecodesExactly

==============================================================================
