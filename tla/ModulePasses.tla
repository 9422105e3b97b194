----------------------------- MODULE ModulePasses -----------------------------
(***************************************************************************)
(* The passes over a whole module.  GlobalTracker walks the list of the    *)
(* module's globals and adds a call that sets the metadata of each to      *)
(* initialize_global_metadata; in the deep scheme it also adds a metadata   *)
(* global to the list it is walking.  ArgvTracker rewrites the entry block  *)
(* of main so that argv and envp are read after argvcopy has moved them to *)
(* the heap; the rewritten block is then run.                              *)
(***************************************************************************)
EXTENDS Integers, Sequences, FiniteSets, SequencesExt

CONSTANTS
    Globals,       \* names of the program's globals
    Skipped,       \* the ones the pass leaves alone (llvm.used, __metaptr_..)
    GlobalSize,    \* alignments a global may come with
    Strings        \* number of strings in argv and in envp

VARIABLES
    globals,           \* M->globals(), a sequence of records
    cursor,            \* position of the loop
    metaDataInserted,  \* metadata globals made so far
    initCalls,         \* metaset calls in initialize_global_metadata
    deep,              \* DeepMetadata
    params,            \* number of parameters main has
    entryBlock,             \* entry block of main, a sequence of instructions
    avPc,              \* next step of ArgvTracker, or of the running program
    slots, mpEnviron, heap, seenArgs

globalVars == <<globals, cursor, metaDataInserted, initCalls, deep>>
mpVars == <<globals, cursor, metaDataInserted, initCalls, deep,
            params, entryBlock, avPc, slots, mpEnviron, heap, seenArgs>>

ASSUME ModulePassesAssumption ==
    /\ Skipped \subseteq Globals /\ GlobalSize \subseteq Nat /\ Strings \in Nat

-----------------------------------------------------------------------------
(* GlobalTracker                                                           *)

Metadata(g) == [of |-> g.name, name |-> "MetaData", align |-> 8]

Program(g) == g.name # "MetaData"

(* One turn of the loop over M->globals().                                 *)
TrackGlobal ==
    /\ cursor <= Len(globals)
    /\ LET g == globals[cursor]
           known == g \in metaDataInserted \/ g.name \in Skipped
           aligned == [globals EXCEPT ![cursor].align =
                          IF g.align < 8 THEN 8 ELSE g.align]
       IN  IF known
           THEN UNCHANGED <<globals, metaDataInserted, initCalls>>
           ELSE /\ initCalls' = Append(initCalls, [name |-> g.name, of |-> g.of])
                /\ globals' = IF deep THEN Append(aligned, Metadata(g)) ELSE aligned
                /\ metaDataInserted' = IF deep THEN metaDataInserted \cup {Metadata(g)}
                                       ELSE metaDataInserted
    /\ cursor' = cursor + 1
    /\ UNCHANGED <<deep, params, entryBlock, avPc, slots, mpEnviron, heap, seenArgs>>

(* Every global of the program, and no metadata global, gets its metadata  *)
(* set exactly once and is aligned for the compression of globals, and the *)
(* walk over the list that the pass itself extends comes to its end.       *)
EachGlobalTrackedOnce ==
    /\ Len(globals) <= 2 * Cardinality(Globals)
    /\ cursor > Len(globals) =>
         \A i \in 1 .. Len(globals) :
            LET calls == SelectSeq(initCalls, LAMBDA c : c.name = globals[i].name
                                                         /\ c.of = globals[i].of)
            IN  IF Program(globals[i]) /\ globals[i].name \notin Skipped
                THEN Len(calls) = 1 /\ globals[i].align >= 8
                ELSE Len(calls) = 0

-----------------------------------------------------------------------------
(* ArgvTracker.  An instruction of the entry block is an operation on the  *)
(* parameter (argv or envp) it is about; "use" is a use in the body, and    *)
(* from tells whether it reads the parameter itself or the loaded value.   *)

I(op, p, from) == [op |-> op, p |-> p, from |-> from]

Tracked == (IF params >= 2 THEN <<"argv">> ELSE <<>>)
           \o (IF params >= 3 THEN <<"envp">> ELSE <<>>)

(* replaceAllUsesWith: every instruction that reads the parameter now.     *)
replaceAllUsesWith(block, p) ==
    [i \in 1 .. Len(block) |->
        IF block[i].p = p /\ block[i].from = "param" THEN [block[i] EXCEPT !.from = "load"]
        ELSE block[i]]

PositionOf(block, op) == CHOOSE i \in 1 .. Len(block) : block[i].op = op

(* Builder inserts before the first instruction the body started with.     *)
AtBuilder(block, ins) ==
    InsertAt(block, PositionOf(block, "first"), ins)

BeforeCall(block, ins) == InsertAt(block, PositionOf(block, "argvcopy"), ins)

Allocas(block) == FoldLeft(LAMBDA b, p : AtBuilder(b, I("alloca", p, "none")), block, Tracked)

(* Load after the call, replace the uses, then store before the call: the  *)
(* store is made last, so it still reads the parameter.                    *)
Rewire(block, p) ==
    BeforeCall(replaceAllUsesWith(AtBuilder(block, I("load", p, "none")), p),
               I("store", p, "param"))

RunArgvTracker ==
    /\ avPc = 0
    /\ entryBlock' = FoldLeft(Rewire, AtBuilder(Allocas(entryBlock), I("argvcopy", "none", "none")),
                         Tracked)
    /\ avPc' = 1
    /\ UNCHANGED <<params, slots, mpEnviron, heap, seenArgs>> /\ UNCHANGED globalVars

-----------------------------------------------------------------------------
(* The program: a value of argv or envp is an array of strings somewhere.  *)

Array(where, strs) == [where |-> where, strings |-> strs]
Original(p) == Array("stack", [i \in 1 .. Strings |-> <<p, i>>])
Empty == Array("none", <<>>)

(* strarrcopy: a heap array; the entry past the last string is not set.    *)
strarrcopy(a) == IF a = Empty THEN Empty ELSE Array("heap", a.strings)

(* Constructors run before main, and may let setenv replace environ.       *)
Constructor ==
    /\ avPc = 1 /\ mpEnviron = Original("envp")
    /\ mpEnviron' = Array("heap", Append(mpEnviron.strings, <<"new", 1>>))
    /\ UNCHANGED <<params, entryBlock, avPc, slots, heap, seenArgs>> /\ UNCHANGED globalVars

Copied(p) == IF p \in {Tracked[i] : i \in DOMAIN Tracked} THEN strarrcopy(slots[p]) ELSE slots[p]

RunEntry ==
    /\ avPc \in 1 .. Len(entryBlock)
    /\ LET ins == entryBlock[avPc]
           after == avPc' = avPc + 1
       IN  CASE ins.op = "store" ->
                  /\ slots' = [slots EXCEPT ![ins.p] =
                                  IF ins.from = "param" THEN Original(ins.p) ELSE heap[ins.p]]
                  /\ after /\ UNCHANGED <<mpEnviron, heap, seenArgs>>
             [] ins.op = "argvcopy" ->
                  IF params >= 3 /\ slots["envp"] # Empty /\ mpEnviron # slots["envp"]
                  THEN avPc' = -1 /\ UNCHANGED <<slots, mpEnviron, heap, seenArgs>>
                  ELSE LET env == strarrcopy(mpEnviron) IN
                       /\ mpEnviron' = env
                       /\ slots' = [argv |-> Copied("argv"),
                                    envp |-> IF params >= 3 THEN env ELSE slots["envp"]]
                       /\ after /\ UNCHANGED <<heap, seenArgs>>
             [] ins.op = "load" ->
                  /\ heap' = [heap EXCEPT ![ins.p] = slots[ins.p]]
                  /\ after /\ UNCHANGED <<slots, mpEnviron, seenArgs>>
             [] ins.op = "use" ->
                  /\ seenArgs' = seenArgs \cup
                        {<<ins.p, IF ins.from = "param" THEN Original(ins.p) ELSE heap[ins.p]>>}
                  /\ after /\ UNCHANGED <<slots, mpEnviron, heap>>
             [] OTHER -> after /\ UNCHANGED <<slots, mpEnviron, heap, seenArgs>>
    /\ UNCHANGED <<params, entryBlock>> /\ UNCHANGED globalVars

(* Wherever main uses argv or envp it sees the heap copy, with the strings *)
(* the kernel passed in their order, and environ is the copy envp shows.   *)
MainSeesCopies ==
    /\ \A s \in seenArgs : s[2] = Array("heap", [i \in 1 .. Strings |-> <<s[1], i>>])
    /\ avPc > Len(entryBlock) => mpEnviron.where = "heap" /\ (params >= 3 => slots["envp"] = mpEnviron)

-----------------------------------------------------------------------------
ModuleInit ==
    /\ deep \in BOOLEAN
    /\ \E order \in SetToSeqs(Globals), align \in [Globals -> GlobalSize] :
          globals = [i \in 1 .. Len(order) |->
                       [of |-> "", name |-> order[i], align |-> align[order[i]]]]
    /\ cursor = 1 /\ metaDataInserted = {} /\ initCalls = <<>>
    /\ params \in 0 .. 3
    /\ entryBlock = <<I("first", "none", "none")>>
                 \o (IF params >= 2 THEN <<I("use", "argv", "param")>> ELSE <<>>)
                 \o (IF params >= 3 THEN <<I("use", "envp", "param")>> ELSE <<>>)
    /\ avPc = 0 /\ slots = [p \in {"argv", "envp"} |-> Empty] /\ heap = slots
    /\ mpEnviron = Original("envp") /\ seenArgs = {}

(* The two passes do not meet: the globals first, then main.               *)
ModuleNext ==
    \/ TrackGlobal
    \/ cursor > Len(globals) /\ (RunArgvTracker \/ Constructor \/ RunEntry)

ModuleSpec == ModuleInit /\ [][ModuleNext]_mpVars
=============================================================================
