----------------------------- MODULE StackTrace -----------------------------
(***************************************************************************)
(* GetStackTrace and GetStackFrames (stacktrace.cc and the implementations *)
(* stacktrace_*-inl.h).  A program calls and returns; the machine stack,   *)
(* which a stray store may have damaged in one place, is walked one frame  *)
(* per step by the frame-pointer implementations, with a cursor by         *)
(* libunwind, and at once by the implementations that copy an array.       *)
(***************************************************************************)
EXTENDS Integers, Sequences, SequencesExt

CONSTANTS
  MaxActivations,   \* calls of the program that are active at the same time
  FirstAddress,     \* of the frames; a word is 2 wide, odd addresses are misaligned
  FrameSizes,       \* sizes a frame may have
  StrictMax,        \* 100000: the largest frame a trace accepts
  LaxMax,           \* 1000000: the largest frame GetStackFrames accepts
  Readable,         \* the highest address msync finds readable
  DEPTH,            \* MAX_DEPTH of the instrumented stacks
  kStackLength,     \* the array the copying implementations fill
  Limits,           \* pairs of max_depth and skip_count
  VsyscallCodes     \* the bytes at __kernel_vsyscall, <<>> without VDSO

VARIABLES
  get_stack_impl,   \* the implementation in use
  vsyscall,         \* the bytes at __kernel_vsyscall
  acts,             \* activations of the program, outermost first
  backtrace,        \* thread_back_trace of the instrumented build
  st,               \* the request under way
  recursive,        \* libunwind: requests that are unwinding
  nested            \* libunwind: entries returned to requests during a request

stVars == <<get_stack_impl, vsyscall, acts, backtrace, st, recursive, nested>>

\* Return addresses: of the calls of the program, into the signal trampoline, of
\* the call of GetStackTrace, in GetStackTrace, in its implementation.  NIP is the
\* interrupted instruction of a signal frame; 0 is NULL.
Site == 1
SigTramp == 2
NIP == 3
InCaller == 4
InGetStackTrace == 5
InImpl == 6

Walkers == {"x86", "arm", "ppc", "ppc-linux", "ppc-darwin"}
Copiers == {"generic", "instrument", "win32"}
PowerPC == {"ppc", "ppc-linux", "ppc-darwin"}

-----------------------------------------------------------------------------
(* Choosing an implementation.                                             *)

\* What a build has: the implementation for its architecture and those of the
\* libraries it found.
Builds ==
  [impls : {arch \cup more :
              arch \in {{"x86"}, {"ppc-linux"}, {"ppc-darwin"}, {"ppc"}, {"arm"}, {}},
              more \in SUBSET {"generic", "libunwind", "instrument", "win32"}},
   noFramePointer : BOOLEAN]

PreferArch(b) == ~ b.noFramePointer /\ b.impls \cap ({"x86"} \cup PowerPC) # {}

\* The implementations in the order of preference.
Preference(b) ==
  SelectSeq(<<"instrument", "win32">> \o
            (IF PreferArch(b) THEN <<"x86", "ppc", "ppc-linux", "ppc-darwin">> ELSE <<>>) \o
            <<"libunwind", "arm", "generic">>,
            LAMBDA i : i \in b.impls)

\* init_default_stack_impl_inner: TCMALLOC_STACKTRACE_METHOD names an
\* implementation of the build, or is ignored.
Chosen(b, val) == IF val \in b.impls THEN val ELSE Head(Preference(b))

-----------------------------------------------------------------------------
(* The program.                                                            *)

\* __cyg_profile_func_enter.
FuncEnter(b, site) ==
  LET d == b.stack_depth
  IN [stack_depth |-> d + 1,
      frame |-> IF d >= DEPTH THEN b.frame ELSE [b.frame EXCEPT ![d] = site]]

\* __cyg_profile_func_exit, which clears the entry above the one it leaves.
FuncExit(b) ==
  LET d == b.stack_depth
  IN [stack_depth |-> d - 1,
      frame |-> IF d >= DEPTH THEN b.frame ELSE [b.frame EXCEPT ![d] = 0]]

\* The first activation may be the start code, which has no return address and is
\* not instrumented; a signal handler returns into the trampoline.
CallFunction ==
  \E site \in {0, Site, SigTramp}, size \in FrameSizes :
    /\ st.phase = "idle" /\ Len(acts) < MaxActivations
    /\ site = 0 => acts = <<>>
    /\ acts' = Append(acts, [site |-> site, size |-> size])
    /\ backtrace' = IF get_stack_impl = "instrument" /\ site # 0
                    THEN FuncEnter(backtrace, site) ELSE backtrace
    /\ UNCHANGED <<get_stack_impl, vsyscall, st, recursive, nested>>

ReturnFromFunction ==
  /\ st.phase = "idle" /\ Len(acts) > 1
  /\ acts' = Front(acts)
  /\ backtrace' = IF get_stack_impl = "instrument" THEN FuncExit(backtrace) ELSE backtrace
  /\ UNCHANGED <<get_stack_impl, vsyscall, st, recursive, nested>>

-----------------------------------------------------------------------------
(* The machine stack, innermost activation first: the implementation, then *)
(* GetStackTrace, then the program.                                        *)

Sites == Reverse([i \in DOMAIN acts |-> acts[i].site])
Sizes == <<2, 2>> \o Reverse([i \in DOMAIN acts |-> acts[i].size])

\* The return address of each activation.
ReturnAddresses == <<InGetStackTrace, InCaller>> \o Sites

\* Frame i is at FrameAt(i).  On PowerPC a function saves its return address in
\* the frame of its caller, so there is one frame more (on Darwin for the 64 bit ABI).
FrameCount(impl) == Len(Sizes) + (IF impl \in PowerPC THEN 1 ELSE 0)
FrameAt(i) == FirstAddress + FoldLeft(+, 0, SubSeq(Sizes, 1, i - 1))
SavedAddress(impl, i) ==
  IF impl \in PowerPC THEN (<<InImpl>> \o ReturnAddresses)[i] ELSE ReturnAddresses[i]
FrameIndex(impl, a) == {i \in 1 .. FrameCount(impl) : FrameAt(i) = a}

\* One saved frame pointer may have been overwritten.
NoDamage == [at |-> 0, value |-> 0]
Damages(impl) ==
  {NoDamage} \cup
  [at : IF impl \in Walkers THEN 3 .. FrameCount(impl) ELSE {},
   value : {FrameAt(1), FrameAt(3) + 1, Readable + 2}]

\* The context a request may bring: that of the signal whose handler is activation
\* i, and that interrupted __kernel_vsyscall.
Contexts(impl) ==
  {0} \cup {i \in DOMAIN ReturnAddresses :
             impl \in {"x86", "win32"} /\ ReturnAddresses[i] = SigTramp}
Link(impl, damage, i) ==
  IF i = damage.at THEN damage.value
  ELSE IF i = FrameCount(impl) THEN 0 ELSE FrameAt(i + 1)

\* An address that is no frame is not mapped: a walk that goes there without a
\* check reads nothing that leads further.
LinkAt(w, a) ==
  LET f == FrameIndex(get_stack_impl, a)
  IN IF f = {} THEN 0 ELSE Link(get_stack_impl, w.damage, CHOOSE i \in f : TRUE)
SavedAt(a) ==
  LET f == FrameIndex(get_stack_impl, a)
  IN IF f = {} THEN Site ELSE SavedAddress(get_stack_impl, CHOOSE i \in f : TRUE)

-----------------------------------------------------------------------------
(* The walk over frame pointers.                                           *)

\* The push instructions before the system call: 137 is mov, 229 its operands
\* %esp,%ebp; 80 to 95 push; 15 with 52 or 5 sysenter or syscall; 205 int.
kMaxBytes == 10
CountPushInstructions(code) ==
  LET scan[i \in 1 .. kMaxBytes + 2, result \in 0 .. kMaxBytes] ==
        IF i > kMaxBytes THEN 0
        ELSE CASE code[i] = 137 -> IF code[i + 1] = 229 THEN 0 ELSE scan[i + 2, result]
               [] code[i] = 15 /\ code[i + 1] \in {52, 5} -> result
               [] code[i] \in 80 .. 95 -> scan[i + 1, result + 1]
               [] OTHER -> 0
  IN IF code = <<>> THEN 0 ELSE scan[1, 0]

\* With the context of a signal that interrupted __kernel_vsyscall, the frame of
\* its handler leads on through the %ebp that the system call pushed, if %esp is
\* readable: the %ebp the handler saved is then no frame pointer.
SavedByVsyscall(w, a) ==
  LET interrupted == w.context # 0 /\ LinkAt(w, a) = LinkAt(w, FrameAt(w.context))
  IN IF /\ CountPushInstructions(vsyscall) # 0 /\ SavedAt(a) = SigTramp
        /\ interrupted /\ w.espReadable
     THEN Link("x86", NoDamage, w.context) ELSE LinkAt(w, a)

\* The checks of every NextStackFrame that make a bad frame pointer unlikely: a
\* trace is strict, GetStackFrames follows discontiguous stacks.
Plausible(w, old, new) ==
  /\ IF w.frames THEN new # old /\ (new > old => new - old <= LaxMax)
     ELSE new > old /\ new - old <= StrictMax
  /\ new % 2 = 0

NextFrameX86(w) ==
  LET new == SavedByVsyscall(w, w.sp)
      msync == w.frames => new \in 1 .. Readable
  IN IF Plausible(w, w.sp, new) /\ msync THEN new ELSE 0
NextFrameArm(w) == IF Plausible(w, w.sp, LinkAt(w, w.sp)) THEN LinkAt(w, w.sp) ELSE 0
NextFramePpcLinux(w) == NextFrameArm(w)
NextFramePpc(w) == NextFrameArm(w)
NextFrameDarwin(w) == NextFrameArm(w)

\* Where the walk starts, and how many frames of its own it skips.
FirstFrame == IF get_stack_impl \in {"ppc", "ppc-linux"} THEN FrameAt(2) ELSE FrameAt(1)
OwnFrames(w) == IF get_stack_impl = "ppc-darwin" /\ w.frames THEN 0 ELSE 1

Returned(w, out, sizes) == [w EXCEPT !.phase = "done", !.result = out, !.sizes = sizes]

\* One round of a loop over frames: the frame is skipped or recorded.
LoopEnds == st.sp = 0 \/ Len(st.result) >= st.max_depth
Round(entry, next) ==
  IF st.skip > 0
  THEN [st EXCEPT !.sp = next, !.seen = Append(@, st.sp), !.skip = @ - 1]
  ELSE [st EXCEPT !.sp = next, !.seen = Append(@, st.sp), !.result = Append(@, entry),
                  !.sizes = Append(@, IF next > st.sp THEN next - st.sp ELSE 0)]
Walks(impl) ==
  /\ st.phase = "walk" /\ get_stack_impl = impl
  /\ UNCHANGED <<get_stack_impl, vsyscall, acts, backtrace, recursive, nested>>

\* The loop also ends at a frame with the return address 0.
WalkX86 ==
  /\ Walks("x86")
  /\ st' = IF LoopEnds \/ SavedAt(st.sp) = 0 THEN Returned(st, st.result, st.sizes)
           ELSE Round(SavedAt(st.sp), NextFrameX86(st))

WalkArm ==
  /\ Walks("arm")
  /\ st' = IF LoopEnds THEN Returned(st, st.result, st.sizes)
           ELSE Round(SavedAt(st.sp), NextFrameArm(st))

\* After the loop the PowerPC implementations drop a trailing NULL.
WithoutNull(out) == IF out # <<>> /\ Last(out) = 0 THEN Front(out) ELSE out

\* A frame that returns to the signal trampoline stands for the interrupted
\* instruction.
WalkPpcLinux ==
  /\ Walks("ppc-linux")
  /\ st' = IF LoopEnds THEN Returned(st, WithoutNull(st.result), st.sizes)
           ELSE Round(IF SavedAt(st.sp) = SigTramp THEN NIP ELSE SavedAt(st.sp),
                      NextFramePpcLinux(st))

WalkPpc ==
  /\ Walks("ppc")
  /\ st' = IF LoopEnds THEN Returned(st, WithoutNull(st.result), st.sizes)
           ELSE Round(SavedAt(st.sp), NextFramePpc(st))

WalkDarwin ==
  /\ Walks("ppc-darwin")
  /\ st' = IF LoopEnds THEN Returned(st, st.result, st.sizes)
           ELSE Round(SavedAt(st.sp), NextFrameDarwin(st))

-----------------------------------------------------------------------------
(* libunwind: the cursor stands in an activation; position 1 is in the     *)
(* implementation, position i + 1 at the return address of activation i.   *)

Positions == <<InImpl>> \o SelectSeq(ReturnAddresses, LAMBDA a : a # 0)

UnwindStep ==
  /\ st.phase = "unwind" /\ UNCHANGED <<get_stack_impl, vsyscall, acts, backtrace, nested>>
  /\ LET last == st.sp >= Len(Positions)
         out == Append(st.result, Positions[st.sp])
     IN \/ /\ st.skip > 0 /\ last
           /\ st' = Returned(st, <<>>, <<>>) /\ recursive' = recursive - 1
        \/ /\ st.skip > 0 /\ ~ last
           /\ st' = [st EXCEPT !.sp = @ + 1, !.skip = @ - 1] /\ UNCHANGED recursive
        \/ /\ st.skip = 0 /\ Len(st.result) >= st.max_depth
           /\ st' = Returned(st, st.result, st.sizes) /\ recursive' = recursive - 1
        \/ /\ st.skip = 0 /\ Len(st.result) < st.max_depth /\ last
           /\ st' = Returned(st, out, Append(st.sizes, 0)) /\ recursive' = recursive - 1
        \/ /\ st.skip = 0 /\ Len(st.result) < st.max_depth /\ ~ last
           /\ st' = [st EXCEPT !.sp = @ + 1, !.result = out, !.sizes = Append(@, Sizes[st.sp])]
           /\ UNCHANGED recursive

\* libunwind maps memory, the hook on mmap asks for a stack trace: it gets none.
NestedRequest ==
  /\ st.phase = "unwind" /\ nested = <<>>
  /\ nested' = IF recursive > 0 THEN <<0>> ELSE <<Len(Positions)>>
  /\ UNCHANGED <<get_stack_impl, vsyscall, acts, backtrace, st, recursive>>

-----------------------------------------------------------------------------
(* The implementations that copy an array.                                 *)

\* cyg_backtrace after the entries of GetStackTrace, its implementation and
\* cyg_backtrace itself.
CygBacktrace ==
  LET b == FoldLeft(FuncEnter, backtrace, <<InCaller, InGetStackTrace, InImpl>>)
      nSize == Min({DEPTH, b.stack_depth, kStackLength})
  IN [i \in 1 .. nSize |-> b.frame[nSize - i]]

\* backtrace of the C library, and RtlCaptureStackBackTrace of Windows, which
\* begins in itself.
LibraryBacktrace == SubSeq(Positions, 1, Min({kStackLength, Len(Positions)}))
RtlCapture(skip, max_depth) ==
  SubSeq(<<InImpl>> \o Positions, skip + 1, Min({skip + max_depth, Len(Positions) + 1}))

CopyFrom(stack, w) ==
  LET skip == w.skip + 2
      count == Min({Max({Len(stack) - skip, 0}), w.max_depth})
  IN SubSeq(stack, skip + 1, skip + count)

GenericTrace(w) == CopyFrom(LibraryBacktrace, w)
InstrumentTrace(w) == CopyFrom(CygBacktrace, w)

\* Only GetStackTrace is implemented; ntdll.dll is one that has the function.
WindowsTrace(w) ==
  IF w.frames \/ w.context # 0 THEN <<>> ELSE RtlCapture(w.skip + 3, w.max_depth)

CopiedTrace(w) ==
  CASE get_stack_impl = "generic" -> GenericTrace(w)
    [] get_stack_impl = "instrument" -> InstrumentTrace(w)
    [] get_stack_impl = "win32" -> WindowsTrace(w)

-----------------------------------------------------------------------------
(* A request.                                                              *)

Idle == [phase |-> "idle"]

GetStack ==
  \E frames \in BOOLEAN, context \in Contexts(get_stack_impl), espReadable \in BOOLEAN,
     limits \in Limits, damage \in Damages(get_stack_impl) :
    LET w == [phase |-> "walk", frames |-> frames, context |-> context,
              espReadable |-> espReadable, max_depth |-> limits[1],
              skip |-> limits[2], asked |-> limits[2], damage |-> damage,
              sp |-> 0, seen |-> <<>>, result |-> <<>>, sizes |-> <<>>]
    IN /\ st.phase = "idle" /\ acts # <<>>
       /\ context = 0 => espReadable
       /\ st' = CASE get_stack_impl \in Walkers ->
                       [w EXCEPT !.sp = FirstFrame, !.skip = @ + OwnFrames(w)]
                  [] get_stack_impl = "libunwind" ->
                       [w EXCEPT !.phase = "unwind", !.sp = 1, !.skip = @ + 2]
                  [] get_stack_impl \in Copiers ->
                       Returned(w, CopiedTrace(w), [i \in DOMAIN CopiedTrace(w) |-> 0])
       /\ recursive' = IF get_stack_impl = "libunwind" THEN recursive + 1 ELSE recursive
       /\ nested' = <<>>
       /\ UNCHANGED <<get_stack_impl, vsyscall, acts, backtrace>>

\* The caller has used the trace.
TakeTrace ==
  /\ st.phase = "done"
  /\ st' = Idle /\ nested' = <<>>
  /\ UNCHANGED <<get_stack_impl, vsyscall, acts, backtrace, recursive>>

StackInit ==
  /\ \E b \in {c \in Builds : Preference(c) # <<>>} :
       get_stack_impl \in {Chosen(b, val) : val \in b.impls \cup {""}}
  /\ vsyscall \in IF get_stack_impl = "x86" THEN VsyscallCodes ELSE {<<>>}
  /\ acts = <<>> /\ st = Idle /\ recursive = 0 /\ nested = <<>>
  /\ backtrace = [stack_depth |-> 0, frame |-> [i \in 0 .. DEPTH - 1 |-> 0]]

StackNext ==
  \/ CallFunction \/ ReturnFromFunction \/ GetStack \/ TakeTrace
  \/ WalkX86 \/ WalkArm \/ WalkPpcLinux \/ WalkPpc \/ WalkDarwin
  \/ UnwindStep \/ NestedRequest

-----------------------------------------------------------------------------
(* Properties.                                                             *)

\* The code addresses of the activations, from the implementation outwards.
CallChain ==
  [i \in 1 .. Len(ReturnAddresses) + 1 |->
     LET a == (<<InImpl>> \o ReturnAddresses)[i]
     IN IF a = SigTramp /\ get_stack_impl = "ppc-linux" THEN NIP ELSE a]

\* The walks that report the NULL at the end of the stack, and the request the
\* Darwin implementation answers with one or two activations of the library.
KeepsNull == {"arm", "ppc-darwin"}
OwnCallers == IF get_stack_impl = "ppc-darwin" THEN IF st.frames THEN 0 ELSE 1 ELSE 2

\* Up to which of CallChain a damaged stack can be trusted.
SoundCallers ==
  IF st.damage.at = 0 THEN Len(CallChain)
  ELSE IF get_stack_impl \in PowerPC THEN st.damage.at ELSE st.damage.at + 1

WholeStack ==
  /\ st.damage.at = 0
  /\ get_stack_impl \in Walkers =>
       \A i \in DOMAIN Sizes : Sizes[i] <= (IF st.frames THEN LaxMax ELSE StrictMax)
  /\ get_stack_impl = "instrument" => Len(acts) + 3 <= DEPTH
  /\ get_stack_impl = "win32" => ~ st.frames /\ st.context = 0

Known == IF get_stack_impl \in KeepsNull THEN Len(CallChain)
         ELSE Len(SelectSeq(CallChain, LAMBDA a : a # 0))
Room == IF get_stack_impl \in {"generic", "instrument"} THEN kStackLength ELSE Known

\* GetStackTrace and GetStackFrames of every implementation: the first entry is
\* the address after skip_count callers of GetStackTrace, every further entry the
\* next caller, up to the place where the stack was overwritten; nothing is
\* missing while the stack is whole, its frames are not too large and max_depth
\* and the buffer suffice, and no entry is written behind max_depth.
TraceNamesCallers ==
  st.phase = "done" =>
    LET first == OwnCallers + st.asked
        whole == Min({Max({Min({Room, Known}) - first, 0}), st.max_depth})
    IN /\ Len(st.result) <= st.max_depth
       /\ WholeStack => Len(st.result) = whole
       /\ (get_stack_impl = "instrument" => Len(acts) + 3 <= DEPTH) =>
            \A k \in DOMAIN st.result :
              first + k <= SoundCallers => st.result[k] = CallChain[first + k]

\* A signal that interrupted the system call stub: with its context the i386 walk
\* goes on behind the frame whose %ebp is no frame pointer.
ContextRepairsWalk ==
  /\ st.phase = "done" /\ get_stack_impl = "x86"
  /\ st.context # 0 /\ st.context = st.damage.at /\ st.espReadable
  /\ CountPushInstructions(vsyscall) # 0
  /\ \A i \in DOMAIN Sizes : Sizes[i] <= StrictMax
  => st.result \in {SubSeq(CallChain, 3 + st.asked, n) : n \in 2 + st.asked .. Len(CallChain)}

\* The loop over the frames ends on a stack whose frame pointers form a cycle, and
\* GetStackFrames on x86 takes no frame pointer that msync does not confirm.
WalkBounded ==
  st.phase = "walk" =>
    /\ Len(st.seen) <= st.asked + 1 + st.max_depth
    /\ get_stack_impl = "x86" /\ st.frames => \A i \in DOMAIN st.seen : st.seen[i] <= Readable

\* The recursive counter of the libunwind implementation: a request made while
\* unwinding gets no entries, and every way out of a request restores the counter.
UnwindNotReentered ==
  /\ recursive = (IF st.phase = "unwind" THEN 1 ELSE 0)
  /\ nested \in {<<>>, <<0>>}

=============================================================================
