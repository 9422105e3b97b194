----------------------------- MODULE FatPointers -----------------------------
(***************************************************************************)
(* The two compiler passes that make pointers carry their metadata in the  *)
(* high bits and take it off again where the machine would see it:         *)
(* MidFatPtrs (with PointerSink.h) and MaskPointers.  A function is a short *)
(* sequence of instructions in the order the passes visit them; an          *)
(* instruction names the earlier instructions whose results it uses.        *)
(* A pass changes a function in two ways only: it gives the result of an    *)
(* allocation its metadata, and it replaces an operand by its masked form.  *)
(* Run is the meaning of the instrumented function: which values carry      *)
(* metadata bits, and at which operands the program would notice them.      *)
(***************************************************************************)
EXTENDS Integers, Sequences, SequencesExt

CONSTANTS
    PTR_BITS,      \* bits of an address
    WORD_BITS,     \* bits of an i64; the ones above PTR_BITS hold metadata
    AndMasks,      \* constant masks a program may use
    TruncWidths,   \* widths a program may truncate to
    MaxLength,     \* instructions of a function
    FatPasses      \* the passes under test

VARIABLES
    prog,     \* the function, a sequence of instructions
    pass,     \* the pass it is compiled with
    fpPhase,  \* "build", the steps of runOnFunction, "done" or "error"
    sinks     \* sinklist_t: pairs <<ptrint, sink>>

fpVars == <<prog, pass, fpPhase, sinks>>

PTR_MASK == 2^PTR_BITS - 1
HighMask == 2^WORD_BITS - 1 - PTR_MASK

ASSUME FatPointersAssumption ==
    /\ PTR_BITS \in Nat \ {0} /\ WORD_BITS \in Nat /\ WORD_BITS > PTR_BITS
    /\ AndMasks \subseteq 0 .. (2^WORD_BITS - 1)
    /\ MaxLength \in Nat \ {0}
    /\ FatPasses \subseteq {"MidFatPtrs", "MaskPointers"}

-----------------------------------------------------------------------------
(* Instructions.  An operand 0 is a constant or a value with no metadata.  *)

Operand(v) == [v |-> v, masked |-> FALSE]

Ins(op, type, vs, c) ==
    [op |-> op, type |-> type, args |-> [k \in 1 .. Len(vs) |-> Operand(vs[k])],
     const |-> c, of |-> "", fat |-> FALSE, nested |-> "no"]

InsOf(op, type, vs, of) == [Ins(op, type, vs, 0) EXCEPT !.of = of]

(* The instructions that may follow: one per way the passes tell uses apart. *)
Candidates ==
    LET P == {i \in 1 .. Len(prog) : prog[i].type = "ptr"}
        I == {i \in 1 .. Len(prog) : prog[i].type = "int"}
        Pairs(S) == {<<x, y>> \in (S \cup {0}) \X (S \cup {0}) : x > y}
    IN  {Ins("alloc", "ptr", <<p>>, 0) : p \in P \cup {0}}
        \cup {Ins("gep", "ptr", <<p, i>>, 0) : p \in P, i \in I \cup {0}}
        \cup {Ins("load", t, <<p>>, 0) : p \in P, t \in {"ptr", "int"}}
        \cup {Ins("store", "none", <<v, p>>, 0) : v \in P \cup I, p \in P}
        \cup {InsOf("storeextern", "none", <<v, 0>>, "wide") : v \in P \cup I}
        \cup {InsOf("storeextern", "none", <<0, 0>>, "narrow")}
        \cup {Ins("ptrtoint", "int", <<p>>, 0) : p \in P}
        \cup {Ins("inttoptr", "ptr", <<i>>, 0) : i \in I}
        \cup {Ins("phi", "ptr", a, 0) : a \in Pairs(P)}
        \cup {Ins("phi", "int", a, 0) : a \in Pairs(I)}
        \cup {Ins("and", "int", <<i, 0>>, m) : i \in I, m \in AndMasks}
        \cup {Ins("andvar", "int", a, 0) : a \in Pairs(I)}
        \cup {Ins("arith", "int", <<i>>, 0) : i \in I}
        \cup {Ins("sub", "int", a, 0) : a \in Pairs(I)}
        \cup {Ins("mul", "int", <<i>>, 0) : i \in I}
        \cup {Ins("trunc", "none", <<i>>, w) : i \in I, w \in TruncWidths}
        \cup {Ins("cmpptr", "none", a, 0) : a \in Pairs(P)}
        \cup {Ins("cmpint", "none", a, 0) : a \in Pairs(I)}
        \cup {InsOf(op, "none", <<v>>, prog[v].type) : v \in P \cup I,
                  op \in {"callexternal", "callindirect", "ret"}}
        \cup {InsOf("callinternal", prog[v].type, <<v>>, prog[v].type) : v \in P \cup I}
        \cup {InsOf(op, "none", <<p>>, "ptr") : p \in P,
                  op \in {"callbyval", "callnested", "callintrinsic"}}
        \cup {InsOf("invoke", "none", <<i>>, "int") : i \in I}

(* The operands that are pointers: every other operand is an integer.      *)
IsPointerOperand(ins, k) ==
    \/ ins.op \in {"alloc", "load", "ptrtoint", "cmpptr",
                   "callbyval", "callnested", "callintrinsic"}
    \/ ins.op = "gep" /\ k = 1
    \/ ins.op \in {"store", "storeextern"} /\ k = 2
    \/ ins.op \in {"store", "storeextern"} /\ k = 1
         /\ ins.args[1].v # 0 /\ prog[ins.args[1].v].type = "ptr"
    \/ ins.op = "phi" /\ ins.type = "ptr"
    \/ ins.op \in {"callexternal", "callindirect", "ret", "callinternal"}
         /\ ins.of = "ptr"

-----------------------------------------------------------------------------
(* PointerSink.h                                                           *)

(* A ptrint is a pointer cast to an integer; a load never is one.          *)
isPtrInt(ins) == ins.op = "ptrtoint"

andPreservesSomeMetaPtr(ins) == ins.op = "and" /\ ins.const > PTR_MASK

andDefinitelyPreservesMetaPtr(ins) == ins.op = "and" /\ ins.const >= HighMask

andDefinitelyZeroesMetaPtr(ins) == ins.op = "and" /\ ins.const <= PTR_MASK

IsAnd(ins) == ins.op \in {"and", "andvar"}

isSinkOf(ins) ==
    \/ ins.op \in {"cmpint", "sub", "arith", "gep", "ret",
                   "callexternal", "callindirect", "callintrinsic"}
    \/ IsAnd(ins) /\ ~andDefinitelyPreservesMetaPtr(ins)

isTrivialNonSinkOf(ins) ==
    \/ ins.op \in {"store", "storeextern", "inttoptr", "callinternal"}
    \/ andDefinitelyZeroesMetaPtr(ins)
    \/ ins.op = "trunc" /\ ins.const <= PTR_BITS

FollowedBy(ins) == ins.op = "phi" \/ andDefinitelyPreservesMetaPtr(ins)

Uses(i, j) == \E k \in DOMAIN prog[i].args : prog[i].args[k].v = j

(* The ptrints collectSinks visits: the casts, and whatever it follows.    *)
KnownPtrInts ==
    LET known[i \in 0 .. Len(prog)] ==
            /\ i # 0
            /\ \/ isPtrInt(prog[i])
               \/ /\ FollowedBy(prog[i])
                  /\ \E j \in 1 .. i - 1 : Uses(i, j) /\ known[j]
    IN  {i \in 1 .. Len(prog) : known[i]}

(* A use of a ptrint that is in no class: the pass prints it and exits.    *)
UnknownUse ==
    \E i \in KnownPtrInts, j \in 1 .. Len(prog) :
        /\ Uses(j, i)
        /\ ~FollowedBy(prog[j]) /\ ~isTrivialNonSinkOf(prog[j]) /\ ~isSinkOf(prog[j])

collectSinks ==
    {<<i, j>> \in KnownPtrInts \X (1 .. Len(prog)) :
        Uses(j, i) /\ ~FollowedBy(prog[j])
            /\ ~isTrivialNonSinkOf(prog[j]) /\ isSinkOf(prog[j])}

-----------------------------------------------------------------------------
(* MidFatPtrs.cpp                                                          *)

Mask(ins, K) ==
    [ins EXCEPT !.args = [k \in DOMAIN ins.args |->
        IF k \in K THEN [ins.args[k] EXCEPT !.masked = TRUE] ELSE ins.args[k]]]

maskPointerArgs(ins) == Mask(ins, {k \in DOMAIN ins.args : IsPointerOperand(ins, k)})

(* Direct calls of functions the module only declares.                     *)
instrumentCallExt(ins) ==
    IF ins.op \in {"callexternal", "callnested", "alloc"} THEN maskPointerArgs(ins) ELSE ins

instrumentCallByval(ins) ==
    IF ins.op = "callbyval" THEN maskPointerArgs(ins) ELSE ins

(* maskNestedPointers loads and stores through the argument as it is now.  *)
instrumentCallExtNestedPtrs(ins) ==
    IF ins.op = "callnested"
    THEN [ins EXCEPT !.nested = IF ins.args[1].masked THEN "masked" ELSE "raw"]
    ELSE ins

(* putMetaPointerInHighBits: every use of the result now sees the fat one. *)
instrumentCallAlloc(ins) ==
    IF ins.op = "alloc" THEN [ins EXCEPT !.fat = TRUE] ELSE ins

instrumentCmpPtr(ins) ==
    IF ins.op = "cmpptr" THEN Mask(ins, {1, 2}) ELSE ins

InstrumentCall(ins) ==
    instrumentCallAlloc(instrumentCallExtNestedPtrs(
        instrumentCallByval(instrumentCallExt(ins))))

instrumentMemAccess(ins) ==
    CASE ins.op = "load" -> Mask(ins, {1})
      [] ins.op = "store" -> Mask(ins, {2})
      [] ins.op = "storeextern" -> Mask(ins, {1, 2})
      [] OTHER -> ins

(* maskPointer asserts a pointer or an i64, which a narrow value is not.   *)
MaskAsserts(ins) == ins.op = "storeextern" /\ ins.of = "narrow"

(* Sink->replaceUsesOfWith(PtrInt, Masked).                                *)
instrumentSinks ==
    [j \in 1 .. Len(prog) |->
        Mask(prog[j], {k \in DOMAIN prog[j].args : <<prog[j].args[k].v, j>> \in sinks})]

Emit ==
    /\ fpPhase = "build" /\ Len(prog) < MaxLength
    /\ \E ins \in Candidates : prog' = Append(prog, ins)
    /\ UNCHANGED <<pass, fpPhase, sinks>>

CollectSinks ==
    /\ fpPhase = "build" /\ pass = "MidFatPtrs" /\ Len(prog) > 1
    /\ fpPhase' = IF UnknownUse THEN "error" ELSE "calls"
    /\ sinks' = IF UnknownUse THEN sinks ELSE collectSinks
    /\ UNCHANGED <<prog, pass>>

InstrumentCalls ==
    /\ fpPhase = "calls"
    /\ prog' = [i \in 1 .. Len(prog) |-> InstrumentCall(instrumentCmpPtr(prog[i]))]
    /\ fpPhase' = "sinks"
    /\ UNCHANGED <<pass, sinks>>

InstrumentSinks ==
    /\ fpPhase = "sinks"
    /\ prog' = instrumentSinks
    /\ fpPhase' = "mems"
    /\ UNCHANGED <<pass, sinks>>

InstrumentMems ==
    /\ fpPhase = "mems"
    /\ IF \E i \in 1 .. Len(prog) : MaskAsserts(prog[i])
       THEN fpPhase' = "error" /\ UNCHANGED prog
       ELSE /\ prog' = [i \in 1 .. Len(prog) |-> instrumentMemAccess(prog[i])]
            /\ fpPhase' = "done"
    /\ UNCHANGED <<pass, sinks>>

-----------------------------------------------------------------------------
(* MaskPointers.cpp: the pointers get their metadata elsewhere.            *)

SfiCall(ins) ==
    [instrumentCallExtNestedPtrs(instrumentCallByval(instrumentCallExt(ins)))
        EXCEPT !.fat = (ins.op = "alloc")]

instrumentPtrSub(ins) ==
    IF /\ ins.op = "sub"
       /\ \A k \in {1, 2} : ins.args[k].v # 0 /\ prog[ins.args[k].v].op = "ptrtoint"
    THEN Mask(ins, {1, 2})
    ELSE ins

SfiMemAccess(ins) == instrumentMemAccess(ins)

(* Its maskPointer always casts from a pointer: an integer stored to an    *)
(* external variable makes an ill-typed ptrtoint.                          *)
IllTyped(ins) == ins.op = "storeextern" /\ ~IsPointerOperand(ins, 1)

MaskPointers ==
    /\ fpPhase = "build" /\ pass = "MaskPointers" /\ Len(prog) > 1
    /\ IF \E i \in 1 .. Len(prog) : IllTyped(prog[i])
       THEN fpPhase' = "error" /\ UNCHANGED prog
       ELSE /\ prog' = [i \in 1 .. Len(prog) |->
                  SfiMemAccess(instrumentPtrSub(instrumentCmpPtr(SfiCall(prog[i]))))]
            /\ fpPhase' = "done"
    /\ UNCHANGED <<pass, sinks>>

-----------------------------------------------------------------------------
(* What the instrumented function does.  A value is the set of ways it may *)
(* carry metadata: "fat" where its type or its cast shows it, "hidden"     *)
(* where an integer got it through memory or from another function.        *)

Hide(t) == IF t = {} THEN {} ELSE {"hidden"}
Show(t) == IF t = {} THEN {} ELSE {"fat"}

Result(ins, arg, mem) ==
    CASE ins.op = "alloc" -> IF ins.fat THEN {"fat"} ELSE {}
      [] ins.op = "load" -> IF ins.type = "ptr" THEN Show(mem) ELSE Hide(mem)
      [] ins.op = "inttoptr" -> Show(arg[1])
      [] ins.op \in {"gep", "ptrtoint"} -> arg[1]
      [] ins.op = "phi" -> arg[1] \cup arg[2]
      [] ins.op = "and" /\ (ins.const \div 2^PTR_BITS) # 0 -> arg[1]
      [] ins.op = "callinternal" -> IF ins.type = "ptr" THEN arg[1] ELSE Hide(arg[1])
      [] OTHER -> {}

(* The operands at which metadata bits would change what the program does. *)
Observes(ins, k) ==
    \/ ins.op \in {"alloc", "load", "storeextern", "cmpptr", "cmpint", "sub", "arith",
                   "mul", "andvar", "callexternal", "callbyval", "callnested"}
    \/ ins.op = "store" /\ k = 2
    \/ ins.op = "gep" /\ k = 2
    \/ ins.op = "and" /\ (ins.const \div 2^PTR_BITS) \notin {0, HighMask \div 2^PTR_BITS}
    \/ ins.op = "trunc" /\ ins.const > PTR_BITS
    \/ ins.op \in {"ret", "callindirect"} /\ ins.of = "int"

Run ==
    LET Step(s, ins) ==
            LET arg == [k \in DOMAIN ins.args |->
                            IF ins.args[k].v = 0 \/ ins.args[k].masked THEN {}
                            ELSE s.val[ins.args[k].v]]
                n == Len(s.val) + 1
            IN  [val |-> Append(s.val, Result(ins, arg, s.mem)),
                 mem |-> IF ins.op = "store" THEN s.mem \cup arg[1] ELSE s.mem,
                 seen |-> s.seen
                    \cup {<<n, k>> : k \in {k \in DOMAIN arg :
                                              Observes(ins, k) /\ "fat" \in arg[k]}}
                    \cup (IF ins.op = "callnested"
                             /\ (ins.nested = "raw" \/ (ins.nested = "no" /\ s.mem # {}))
                          THEN {<<n, 0>>} ELSE {})]
    IN  FoldLeft(Step, [val |-> <<>>, mem |-> {}, seen |-> {}], prog)

-----------------------------------------------------------------------------
FatInit ==
    /\ pass \in FatPasses
    /\ prog = <<Ins("alloc", "ptr", <<0>>, 0)>>
    /\ fpPhase = "build" /\ sinks = {}

FatNext ==
    \/ Emit \/ CollectSinks \/ InstrumentCalls \/ InstrumentSinks \/ InstrumentMems
    \/ MaskPointers

FatSpec == FatInit /\ [][FatNext]_fpVars

(* The integer uses MaskPointers leaves to the program: all but the        *)
(* difference of two pointers.                                             *)
LeftToProgram(i, k) ==
    /\ pass = "MaskPointers"
    /\ k # 0 /\ ~IsPointerOperand(prog[i], k)
    /\ ~ (prog[i].op = "sub" /\ \A a \in {1, 2} :
             prog[i].args[a].v # 0 /\ prog[prog[i].args[a].v].op = "ptrtoint")

(* In a function either pass has instrumented, no load, store, comparison, *)
(* external call, write to an external variable or (MidFatPtrs) integer    *)
(* arithmetic sees metadata bits the pass could know of: collectSinks      *)
(* follows a cast pointer through phis and alignment masks to every sink,  *)
(* and the nested-pointer stores go through an argument masked before.     *)
MetaNeverObserved ==
    fpPhase = "done" => \A o \in Run.seen : LeftToProgram(o[1], o[2])

(* A pass masks an operand only where the metadata would be noticed, so a  *)
(* pointer that is stored, cast back, aligned, merged or passed on inside  *)
(* the program keeps its metadata.                                         *)
MaskedOnlyWhereObserved ==
    fpPhase = "done" => \A i \in 1 .. Len(prog) :
        \A k \in DOMAIN prog[i].args :
            prog[i].args[k].masked => Observes(prog[i], k)
=============================================================================
