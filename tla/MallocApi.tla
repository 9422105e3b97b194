------------------------------ MODULE MallocApi ------------------------------
(***************************************************************************)
(* The exported allocation functions of tcmalloc.cc: malloc, calloc,        *)
(* operator new, memalign, posix_memalign, pvalloc, realloc and free, with  *)
(* the calls of the new and delete hooks, realloc's growth policy and the   *)
(* out-of-memory loop around the C++ new handler.  The allocator below is    *)
(* a supply of blocks out of Memory units; sizes are numbers modulo Word.    *)
(***************************************************************************)
EXTENDS Integers, FiniteSets, FiniteSetsExt, Functions, TLC

CONSTANTS
    ApiThreads, Blocks,
    Memory,            \* units the page heap can hand out
    Word,              \* size_t is arithmetic modulo Word
    ClassSizes,        \* sizes of the size classes; the largest is kMaxSize
    kPageSize, kMinAlign,
    PagesZeroed,       \* the page heap hands out zeroed pages (aggressive decommit)
    AskSizes, Aligns,  \* arguments of the program
    Handlers,          \* new handlers the program may install
    Reserve,           \* units a new handler can give back, once
    ApiMaxCalls        \* bound on the calls of a behaviour

VARIABLES
    mem,               \* block -> size, what its owner wrote, whether it is zero
    live,              \* block -> size the program asked for; idle objects only
    known,             \* block -> size, as the new and delete hooks report them
    mc,                \* thread -> its call
    handler,           \* the C++ library's new handler
    set_new_handler_lock,
    tc_new_mode, reserve,
    lastSet, raced,    \* history: the program's handler; set during an exchange
    apiCalls

apiVars == <<mem, live, known, mc, handler, set_new_handler_lock, tc_new_mode,
             reserve, lastSet, raced, apiCalls>>
handlerVars == <<handler, set_new_handler_lock, lastSet, raced>>

kMaxSize == Max(ClassSizes)
NoHandler == "none"
NullBlock == "null"
NoOne == "nobody"

ASSUME MallocApiAssumption ==
    /\ Memory \in Nat /\ Word \in Nat /\ Reserve \in 0 .. Memory
    /\ ClassSizes # {} /\ ClassSizes \subseteq 1 .. Word - 1
    /\ kPageSize \in Nat \ {0} /\ kMinAlign \in 1 .. kPageSize
    /\ AskSizes \subseteq 0 .. Word - 1 /\ Aligns \subseteq 1 .. Word - 1
    /\ NoHandler \notin Handlers /\ NullBlock \notin Blocks /\ NoOne \notin ApiThreads

IdleCall == [pc |-> "idle", fn |-> "", size |-> 0, ask |-> 0, align |-> 1,
             old |-> NullBlock, oldReq |-> 0, then |-> 0, ptr |-> NullBlock, nh |-> NoHandler]

ApiInit ==
    /\ mem = << >> /\ live = << >> /\ known = << >>
    /\ mc = [t \in ApiThreads |-> IdleCall]
    /\ handler \in Handlers \cup {NoHandler} /\ lastSet = handler
    /\ set_new_handler_lock = NoOne
    /\ tc_new_mode = FALSE /\ reserve = Reserve
    /\ raced = FALSE /\ apiCalls = 0

-----------------------------------------------------------------------------
(* Sizes                                                                   *)

Pages(size) == ((size + kPageSize - 1) \div kPageSize) * kPageSize

(* What do_malloc takes for a request.                                     *)
MallocSize(size) ==
    IF size <= kMaxSize THEN Min({c \in ClassSizes : c >= size}) ELSE Pages(size)

AlignmentForSize(size) ==
    IF size > kMaxSize THEN kPageSize ELSE IF size >= kMinAlign THEN kMinAlign ELSE 1

AlignedClasses(align, size) == {c \in ClassSizes : c >= size /\ c % align = 0}

(* do_memalign: the size of the block, and the memory needed to carve it;  *)
(* size + align overflows in the first test only.                          *)
MemalignSize(align, size) ==
    LET s == Max({size, 1})
    IN  IF align <= AlignmentForSize(size) THEN MallocSize(size)
        ELSE IF s <= kMaxSize /\ align < kPageSize /\ AlignedClasses(align, s) # {}
             THEN Min(AlignedClasses(align, s))
             ELSE Pages(s)

MemalignNeeds(align, size) ==
    IF align > kPageSize THEN Pages(Max({size, 1}) + align) ELSE MemalignSize(align, size)

Overflows(align, size) == (size + align) % Word < size

BlockSize(c) == IF c.align = 1 THEN MallocSize(c.ask) ELSE MemalignSize(c.align, c.ask)
Needs(c) == IF c.align = 1 THEN MallocSize(c.ask) ELSE MemalignNeeds(c.align, c.ask)

Used == reserve + MapThenSumSet(LAMBDA p : mem[p].size, DOMAIN mem)

Served(c) ==
    /\ c.align = 1 \/ ~Overflows(c.align, c.ask)
    /\ Used + Needs(c) <= Memory
    /\ DOMAIN mem # Blocks

-----------------------------------------------------------------------------
(* Calls                                                                   *)

SetCall(t, c) == mc' = [mc EXCEPT ![t] = c]
Goto(t, pc) == SetCall(t, [mc[t] EXCEPT !.pc = pc])

Enter == apiCalls < ApiMaxCalls /\ apiCalls' = apiCalls + 1

Allocating(fn, size, ask, align) ==
    [IdleCall EXCEPT !.pc = "try", !.fn = fn, !.size = size, !.ask = ask, !.align = align]

(* tc_malloc, tc_malloc_skip_new_handler, tc_new and tc_new_nothrow.       *)
CallMalloc(t) ==
    /\ mc[t].pc = "idle" /\ Enter
    /\ \E fn \in {"malloc", "skip", "new", "nothrow"}, size \in AskSizes :
         SetCall(t, Allocating(fn, size, size, 1))
    /\ UNCHANGED <<mem, live, known, tc_new_mode, reserve, handlerVars>>

(* tc_calloc: a product that overflows is refused before any allocation.   *)
CallCalloc(t) ==
    /\ mc[t].pc = "idle" /\ Enter
    /\ \E n \in AskSizes, elem_size \in AskSizes :
         LET size == (n * elem_size) % Word
             c == Allocating("calloc", size, size, 1)
         IN  SetCall(t, IF elem_size # 0 /\ size \div elem_size # n
                        THEN [c EXCEPT !.pc = "hook"] ELSE c)
    /\ UNCHANGED <<mem, live, known, tc_new_mode, reserve, handlerVars>>

(* tc_memalign, tc_posix_memalign and tc_valloc.                           *)
CallMemalign(t) ==
    /\ mc[t].pc = "idle" /\ Enter
    /\ \E size \in AskSizes, align \in Aligns :
         SetCall(t, Allocating("memalign", size, size, align))
    /\ UNCHANGED <<mem, live, known, tc_new_mode, reserve, handlerVars>>

(* tc_pvalloc rounds the size up to pages, modulo Word.                    *)
PvallocSize(size) ==
    LET s == IF size = 0 THEN kPageSize ELSE size
        sum == (s + kPageSize - 1) % Word
    IN  sum - (sum % kPageSize)

CallPvalloc(t) ==
    /\ mc[t].pc = "idle" /\ Enter
    /\ \E size \in AskSizes :
         SetCall(t, Allocating("pvalloc", size, PvallocSize(size), kPageSize))
    /\ UNCHANGED <<mem, live, known, tc_new_mode, reserve, handlerVars>>

(* tc_free and tc_delete; tc_realloc to size 0.                            *)
CallFree(t) ==
    /\ mc[t].pc = "idle"
    /\ \E p \in DOMAIN live :
         /\ SetCall(t, [IdleCall EXCEPT !.pc = "deleteHook", !.fn = "free", !.old = p])
         /\ live' = Restrict(live, DOMAIN live \ {p})
    /\ UNCHANGED <<mem, known, tc_new_mode, reserve, handlerVars, apiCalls>>

(* do_realloc_with_callback: grow by at least a quarter, first with the    *)
(* rounded-up size, then with the size asked for; shrink below one half.   *)
ReallocCall(p, new_size) ==
    LET old_size == mem[p].size
        lower_bound_to_grow == old_size + old_size \div 4
        little == new_size > old_size /\ new_size < lower_bound_to_grow
        c == [Allocating("realloc", new_size, new_size, 1)
                EXCEPT !.old = p, !.oldReq = live[p]]
    IN  IF new_size > old_size \/ new_size < old_size \div 2
        THEN IF little THEN [c EXCEPT !.ask = lower_bound_to_grow, !.then = new_size] ELSE c
        ELSE [c EXCEPT !.pc = "deleteHook", !.ptr = p]

CallRealloc(t) ==
    /\ mc[t].pc = "idle" /\ Enter
    /\ \E p \in DOMAIN live, new_size \in AskSizes \ {0} :
         /\ SetCall(t, ReallocCall(p, new_size))
         /\ live' = Restrict(live, DOMAIN live \ {p})
    /\ UNCHANGED <<mem, known, tc_new_mode, reserve, handlerVars>>

-----------------------------------------------------------------------------
(* Allocation and handle_oom                                               *)

(* do_calloc clears only what the page heap does not hand out as zero.     *)
MemsetByCalloc(size) == size <= kMaxSize

FreshBlock(c) ==
    LET size == BlockSize(c)
    IN  [size |-> size, kept |-> 0,
         clear |-> \/ c.fn = "calloc" /\ MemsetByCalloc(c.ask)
                   \/ PagesZeroed /\ size > kMaxSize]

OomHandled(c) == c.fn \in {"new", "nothrow"} \/ (tc_new_mode /\ c.fn # "skip")

(* An attempt failed for good: realloc's second attempt, or a NULL result. *)
GiveUp(t) ==
    LET c == mc[t]
    IN  IF c.then # 0 THEN SetCall(t, [c EXCEPT !.pc = "try", !.ask = c.then, !.then = 0])
        ELSE Goto(t, IF c.fn = "realloc" THEN "done" ELSE "hook")

TryAlloc(t) ==
    LET c == mc[t]
    IN  /\ c.pc \in {"try", "retry"}
        /\ \/ /\ Served(c)
              /\ \E p \in Blocks \ DOMAIN mem :
                   /\ mem' = mem @@ (p :> FreshBlock(c))
                   /\ SetCall(t, [c EXCEPT !.pc = "hook", !.ptr = p])
           \/ /\ ~Served(c) /\ UNCHANGED mem
              /\ IF c.pc = "retry" \/ OomHandled(c) THEN Goto(t, "oom") ELSE GiveUp(t)
        /\ UNCHANGED <<live, known, tc_new_mode, reserve, handlerVars, apiCalls>>

(* The current handler is read by an exchange with NULL and put back.      *)
TakeHandler(t) ==
    /\ mc[t].pc = "oom" /\ set_new_handler_lock = NoOne
    /\ set_new_handler_lock' = t
    /\ handler' = NoHandler
    /\ SetCall(t, [mc[t] EXCEPT !.pc = "swapped", !.nh = handler])
    /\ UNCHANGED <<mem, live, known, tc_new_mode, reserve, lastSet, raced, apiCalls>>

PutHandler(t) ==
    /\ mc[t].pc = "swapped"
    /\ handler' = mc[t].nh
    /\ set_new_handler_lock' = NoOne
    /\ IF mc[t].nh # NoHandler THEN Goto(t, "handler")
       ELSE IF mc[t].fn = "new" THEN Goto(t, "threw") ELSE GiveUp(t)
    /\ UNCHANGED <<mem, live, known, tc_new_mode, reserve, lastSet, raced, apiCalls>>

(* The handler gives memory back and returns, or throws bad_alloc.         *)
RunHandler(t) ==
    /\ mc[t].pc = "handler"
    /\ \/ reserve > 0 /\ reserve' = 0 /\ Goto(t, "retry")
       \/ /\ UNCHANGED reserve
          /\ IF mc[t].fn = "new" THEN Goto(t, "threw") ELSE GiveUp(t)
    /\ UNCHANGED <<mem, live, known, tc_new_mode, handlerVars, apiCalls>>

-----------------------------------------------------------------------------
(* Hooks and results                                                       *)

Report(p, size) == known' = IF p = NullBlock THEN known ELSE (p :> size) @@ known
Unreport(p) == known' = Restrict(known, DOMAIN known \ {p})

HookSize(c) == IF c.fn = "pvalloc" THEN c.ask ELSE c.size

(* InvokeNewHook; realloc then copies the contents.                        *)
InvokeNewHook(t) ==
    LET c == mc[t]
        moves == c.fn = "realloc" /\ c.ptr # c.old
        n == Min({mem[c.old].size, c.size})
    IN  /\ c.pc = "hook"
        /\ Report(c.ptr, HookSize(c))
        /\ mem' = IF moves THEN [mem EXCEPT ![c.ptr].kept = Min({n, mem[c.old].kept})] ELSE mem
        /\ Goto(t, IF moves THEN "deleteHook" ELSE "done")
        /\ UNCHANGED <<live, tc_new_mode, reserve, handlerVars, apiCalls>>

InvokeDeleteHookLate(t) ==
    LET c == mc[t]
    IN  \/ /\ c.pc = "deleteHook" /\ c.ptr # c.old
           /\ mem' = Restrict(mem, DOMAIN mem \ {c.old})
           /\ Goto(t, "late")
           /\ UNCHANGED <<live, known, tc_new_mode, reserve, handlerVars, apiCalls>>
        \/ /\ c.pc = "late"
           /\ Unreport(c.old)
           /\ SetCall(t, IF c.fn = "free" THEN IdleCall ELSE [c EXCEPT !.pc = "done"])
           /\ UNCHANGED <<mem, live, tc_new_mode, reserve, handlerVars, apiCalls>>

InvokeDeleteHook(t) ==
    LET c == mc[t]
    IN  /\ c.pc = "deleteHook"
        /\ Unreport(c.old)
        /\ Goto(t, IF c.ptr = c.old THEN "hook" ELSE "free")
        /\ UNCHANGED <<mem, live, tc_new_mode, reserve, handlerVars, apiCalls>>

(* do_free, after the hook.                                                *)
DoFree(t) ==
    LET c == mc[t]
    IN  /\ c.pc = "free"
        /\ mem' = Restrict(mem, DOMAIN mem \ {c.old})
        /\ SetCall(t, IF c.fn = "free" THEN IdleCall ELSE [c EXCEPT !.pc = "done"])
        /\ UNCHANGED <<live, known, tc_new_mode, reserve, handlerVars, apiCalls>>

(* The caller uses what it got, or keeps the object realloc did not move.  *)
Return(t) ==
    LET c == mc[t]
        kept == IF c.ptr # NullBlock THEN (c.ptr :> HookSize(c))
                ELSE IF c.fn = "realloc" THEN (c.old :> c.oldReq) ELSE << >>
    IN  /\ c.pc \in {"done", "threw"}
        /\ live' = live @@ kept
        /\ mem' = [p \in DOMAIN mem |->
                      IF p = c.ptr
                      THEN [mem[p] EXCEPT !.kept = HookSize(c), !.clear = FALSE]
                      ELSE mem[p]]
        /\ SetCall(t, IdleCall)
        /\ UNCHANGED <<known, tc_new_mode, reserve, handlerVars, apiCalls>>

tc_set_new_mode ==
    /\ Enter /\ tc_new_mode' = ~tc_new_mode
    /\ UNCHANGED <<mem, live, known, mc, reserve, handlerVars>>

(* The program sets its handler without tcmalloc's lock.                   *)
SetNewHandler ==
    /\ Enter
    /\ \E h \in Handlers \cup {NoHandler} :
         /\ h # handler /\ handler' = h /\ lastSet' = h
         /\ raced' = (raced \/ \E t \in ApiThreads : mc[t].pc = "swapped")
    /\ UNCHANGED <<mem, live, known, mc, tc_new_mode, reserve, set_new_handler_lock>>

ApiNext ==
    \/ \E t \in ApiThreads :
         \/ CallMalloc(t) \/ CallCalloc(t) \/ CallMemalign(t) \/ CallPvalloc(t)
         \/ CallFree(t) \/ CallRealloc(t) \/ TryAlloc(t) \/ TakeHandler(t) \/ PutHandler(t)
         \/ RunHandler(t) \/ InvokeNewHook(t) \/ InvokeDeleteHook(t) \/ DoFree(t) \/ Return(t)
    \/ tc_set_new_mode \/ SetNewHandler

ApiSpec == ApiInit /\ [][ApiNext]_apiVars

-----------------------------------------------------------------------------
(* A call that succeeds gives the program at least the bytes it asked for, *)
(* zeroed if it was calloc and with the old contents up to the smaller     *)
(* size if it was realloc; operator new never returns NULL.  pvalloc of a  *)
(* size within a page of the top of size_t wraps around and is excepted.   *)
ResultsServed ==
    \A t \in ApiThreads :
      LET c == mc[t]
      IN  c.pc = "done" =>
            /\ c.fn = "new" => c.ptr # NullBlock
            /\ c.ptr # NullBlock =>
                 /\ (c.fn = "pvalloc" /\ c.size > Word - kPageSize) \/ mem[c.ptr].size >= c.size
                 /\ c.fn = "calloc" => mem[c.ptr].clear
                 /\ c.fn = "realloc" => mem[c.ptr].kept >= Min({c.oldReq, c.size})
            /\ c.fn = "realloc" /\ c.ptr = NullBlock => mem[c.old].kept >= c.oldReq

(* The hooks see every object: whatever the program holds has been         *)
(* reported with the size it holds, and nothing reported is memory that    *)
(* the allocator has back, whichever threads allocate, resize and free in  *)
(* between.                                                                *)
HooksSeeHeap ==
    /\ DOMAIN live \subseteq DOMAIN known /\ DOMAIN known \subseteq DOMAIN mem
    /\ \A p \in DOMAIN live : known[p] = live[p]

(* The exchange in handle_oom loses no handler: unless the program itself  *)
(* sets one in the middle of an exchange, the handler in place is the one  *)
(* the program set last, whenever no thread is in the exchange.            *)
NewHandlerKept ==
    raced \/ (\E t \in ApiThreads : mc[t].pc = "swapped") \/ handler = lastSet

=============================================================================
