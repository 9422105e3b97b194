-------------------------- MODULE PreamblePatcher --------------------------
(***************************************************************************)
(* windows/preamble_patcher.cc and preamble_patcher_with_stub.cc, 64 bits:   *)
(* patching a function moves whole instructions of its first five bytes or   *)
(* more into a stub block near it, translating the ones that are relative to *)
(* the program counter, and unpatching moves them back.                      *)
(*                                                                           *)
(* An instruction is its kind, its size and the address it refers to from    *)
(* where it stands (a tag for a plain instruction); code is a sequence of    *)
(* instructions from an address on.                                          *)
(***************************************************************************)
EXTENDS Integers, Sequences, SequencesExt, FiniteSets, FiniteSetsExt, Functions

CONSTANTS
    Targets,            \* the functions to patch
    EntryOf,            \* target -> its address
    CodeOf,             \* target -> its code
    Studied, Bodies,    \* one target, and the code it may have instead
    Replacements,       \* addresses of replacement functions
    Granularity, PpPageBytes, StubSize,   \* granularity_, pagesize_, MAX_PREAMBLE_STUB_SIZE
    NearMax, ShortMax,  \* INT_MAX and SCHAR_MAX, scaled down
    Occupied,           \* granules VirtualAlloc cannot have
    LastGranule,        \* end of the address space
    PpMaxOps            \* bound on the calls

VARIABLES
    codeAt,             \* target -> its code
    pages,              \* preamble_pages_, newest first
    stubs,              \* block in use -> the code in it
    patch,              \* target -> what the caller of Patch was given, and (history)
                        \* the code before the last patch
    failed,             \* a page could not be had: AllocPreambleBlockNear uses NULL
    ppOps

ppVars == <<codeAt, pages, stubs, patch, failed, ppOps>>

Jumps == {"jcc8", "jmp8", "jcc32", "jmp32", "call32", "callabs", "callreg"}
Kinds == Jumps \cup {"plain", "mov", "ret", "unknown"}
Bytes(code) == FoldLeft(LAMBDA n, i : n + i.size, 0, code)
Jmp32(dest) == [kind |-> "jmp32", size |-> 5, dest |-> dest]
Int3 == [kind |-> "int3", size |-> 1, dest |-> 0]
Trampoline(dest) == [kind |-> "trampoline", size |-> 13, dest |-> dest]
Unpatched == [stub |-> 0, repl |-> 0, moved |-> 0, was |-> << >>]

ASSUME PreamblePatcherAssumption ==
    /\ PpPageBytes <= Granularity /\ 2 * StubSize <= PpPageBytes
    /\ Studied \in Targets /\ DOMAIN CodeOf = Targets
    /\ \A b \in Bodies \cup Range(CodeOf) :
         /\ \A i \in DOMAIN b : b[i].kind \in Kinds
         /\ b[1].kind \in {"jmp8", "jmp32"} => b[1].dest \in Range(EntryOf)

PpInit ==
    /\ \E body \in Bodies : codeAt = [CodeOf EXCEPT ![Studied] = body]
    /\ pages = << >> /\ stubs = << >>
    /\ patch = [t \in Targets |-> Unpatched]
    /\ failed = FALSE /\ ppOps = 0

-----------------------------------------------------------------------------
(* Blocks for stubs                                                        *)

IsNear(offset) == offset \in -NearMax - 1 .. NearMax

(* A page with a free block within 2GB of the target.                      *)
NearPage(page, target) ==
    LET val == page.base - target
    IN  /\ page.free # << >>
        /\ (val > 0 /\ val + PpPageBytes <= NearMax) \/ (val < 0 /\ val >= -NearMax - 1)

(* AllocPageNear: the nearest granule below the target's, else above it.   *)
PageFree(g) == g \notin Occupied /\ \A i \in DOMAIN pages : pages[i].base # g * Granularity
LowGranules(target) ==
    {g \in 1 .. (target \div Granularity) - 1 : target - g * Granularity <= NearMax /\ PageFree(g)}
HighGranules(target) ==
    {g \in (target \div Granularity) + 2 .. LastGranule :
       g * Granularity - target <= NearMax /\ PageFree(g)}
AllocPageNear(target) ==
    IF LowGranules(target) # {} THEN Max(LowGranules(target)) * Granularity
    ELSE IF HighGranules(target) # {} THEN Min(HighGranules(target)) * Granularity
    ELSE 0

NewPage(base) ==
    [base |-> base, free |-> [i \in 1 .. (PpPageBytes \div StubSize) - 1 |-> base + i * StubSize]]

(* AllocPreambleBlockNear: the pages afterwards, and the index of the page *)
(* whose first free block is the result; 0 if there is no page.            *)
PageFor(target) ==
    LET usable == {i \in DOMAIN pages : NearPage(pages[i], target)}
        base == AllocPageNear(target)
    IN  IF usable # {} THEN [pages |-> pages, at |-> Min(usable)]
        ELSE IF base # 0 THEN [pages |-> <<NewPage(base)>> \o pages, at |-> 1]
        ELSE [pages |-> pages, at |-> 0]
TakeBlock(ps, i) == [ps EXCEPT ![i].free = Tail(@)]

PageBase(block) == block - (block % Granularity)
(* FreePreambleBlock that gives the block to the newest page.              *)
FreePreambleBlockFirst(ps, block) == [ps EXCEPT ![1].free = <<block>> \o @]

FreePreambleBlock(ps, block) ==
    [i \in DOMAIN ps |->
       IF ps[i].base = PageBase(block) THEN [ps[i] EXCEPT !.free = <<block>> \o @] ELSE ps[i]]

-----------------------------------------------------------------------------
(* Instructions moved from one place to another                            *)

Moved(kind, size, dest, to) ==
    [ok |-> IsNear(dest - (to + size)), instr |-> [kind |-> kind, size |-> size, dest |-> dest]]

PatchShortConditionalJump(i, to) == Moved("jcc32", 6, i.dest, to)
PatchShortJump(i, to) == Moved("jmp32", 5, i.dest, to)
PatchMovWithDisplacement(i, to) == Moved("mov", 7, i.dest, to)

(* In range of a short jump, the near offset is put in a short jump, and   *)
(* counts from the end of that; anything but a Jcc becomes a JMP.          *)
PatchNearJumpOrCall(i, to) ==
    LET fixup == i.dest - (to + i.size)
    IN  IF fixup < ShortMax /\ fixup > -ShortMax - 1
        THEN [ok |-> TRUE,
              instr |-> [kind |-> IF i.kind = "jcc32" THEN "jcc8" ELSE "jmp8",
                         size |-> 2, dest |-> to + 2 + fixup]]
        ELSE Moved(i.kind, i.size, i.dest, to)

NearKinds == {"jcc32", "jmp32", "call32", "callabs"}

(* One instruction of RawPatchWithStub's loop.  A call through a register  *)
(* has two bytes and a first byte that IsShortConditionalJump accepts.     *)
ToStub(i, to) ==
    CASE i.kind \in {"jcc8", "callreg"} -> PatchShortConditionalJump(i, to)
      [] i.kind = "jmp8" -> PatchShortJump(i, to)
      [] i.kind \in NearKinds -> PatchNearJumpOrCall(i, to)
      [] i.kind = "mov" -> PatchMovWithDisplacement(i, to)
      [] i.kind \in {"plain", "int3"} -> [ok |-> TRUE, instr |-> i]
      [] i.kind \in {"ret", "unknown"} -> [ok |-> FALSE, instr |-> i]

kRequiredTargetPatchBytes == 5

(* The loop over the preamble: the instructions moved and how many bytes.  *)
MovePreamble(code, stub) ==
    FoldLeft(LAMBDA st, i :
               LET m == ToStub(i, stub + Bytes(st.out))
               IN  IF ~st.ok \/ st.moved >= kRequiredTargetPatchBytes THEN st
                   ELSE [ok |-> m.ok, moved |-> st.moved + i.size, out |-> Append(st.out, m.instr)],
             [ok |-> TRUE, moved |-> 0, out |-> << >>], code)

(* RawPatchWithStub: the stub and the target's new code, or a refusal that *)
(* leaves the target as it is.                                             *)
RawPatchWithStub(code, target, repl, stub) ==
    LET p == MovePreamble(code, stub)
        far == ~IsNear(repl - target - 5)
        back == <<Jmp32(target + p.moved)>>
        tramp == IF far THEN <<Trampoline(repl)>> ELSE << >>
        stubCode == p.out \o back \o tramp
        entry == IF far THEN stub + Bytes(p.out \o back) ELSE repl
        rest == SelectSeq([i \in DOMAIN code |-> [at |-> Bytes(SubSeq(code, 1, i - 1)), i |-> code[i]]],
                          LAMBDA r : r.at >= p.moved)
    IN  [ok |-> p.ok /\ (far => IsNear(stub - target - 5)) /\ Bytes(stubCode) <= StubSize,
         moved |-> p.moved, stub |-> stubCode,
         code |-> <<Jmp32(entry)>> \o [n \in 1 .. p.moved - 5 |-> Int3]
                    \o [i \in DOMAIN rest |-> rest[i].i]]

(* ResolveTarget: a function that starts with a jump stands for the one it *)
(* jumps to.                                                               *)
TargetAt(addr) == {t \in Targets : EntryOf[t] = addr}
Thunk(t) == codeAt[t][1].kind \in {"jmp32", "jmp8"} /\ TargetAt(codeAt[t][1].dest) # {}
ResolveTarget(t) ==
    IF Thunk(t) THEN CHOOSE u \in Targets : EntryOf[u] = codeAt[t][1].dest ELSE t

-----------------------------------------------------------------------------
(* Operations                                                              *)

(* Which targets have been patched through t or a thunk that leads to it.  *)
IsPatched(t) == patch[ResolveTarget(t)].stub # 0

(* RawPatch: a refused patch gives its block back.                         *)
RawPatch(t, repl) ==
    LET target == ResolveTarget(t)
        addr == EntryOf[target]
        page == PageFor(addr)
        block == page.pages[page.at].free[1]
        r == RawPatchWithStub(codeAt[target], addr, repl, block)
        taken == TakeBlock(page.pages, page.at)
    IN  /\ ppOps < PpMaxOps /\ ~failed /\ ~IsPatched(t)
        /\ ppOps' = ppOps + 1
        /\ IF page.at = 0 THEN failed' = TRUE /\ UNCHANGED <<codeAt, pages, stubs, patch>>
           ELSE IF r.ok
           THEN /\ pages' = taken
                /\ stubs' = [b \in DOMAIN stubs \cup {block} |-> IF b = block THEN r.stub ELSE stubs[b]]
                /\ codeAt' = [codeAt EXCEPT ![target] = r.code]
                /\ patch' = [patch EXCEPT ![target] = 
                             [stub |-> block, repl |-> repl, moved |-> r.moved, was |-> codeAt[target]]]
                /\ UNCHANGED failed
           ELSE /\ pages' = FreePreambleBlock(taken, block)
                /\ UNCHANGED <<codeAt, stubs, patch, failed>>

(* The loop of Unpatch.  The size of a MOV with a displacement is not      *)
(* added to target_bytes, so that the next instruction overwrites it.      *)
MoveBack(stubCode, addr) ==
    FoldLeft(LAMBDA st, i :
               LET to == addr + Bytes(st.out)
                   m == IF i.kind \in NearKinds THEN PatchNearJumpOrCall(i, to)
                        ELSE [ok |-> i.kind \in {"plain", "int3"}, instr |-> i]
               IN  IF ~st.ok \/ Bytes(st.out) >= kRequiredTargetPatchBytes THEN st
                   ELSE IF i.kind = "mov" THEN st
                   ELSE [ok |-> m.ok, out |-> Append(st.out, m.instr)],
             [ok |-> TRUE, out |-> << >>], stubCode)

(* The rest of a patched target: what follows the moved instructions.      *)
RestOf(t) == SubSeq(codeAt[t], patch[t].moved - 3, Len(codeAt[t]))

Unpatch(t) ==
    LET target == ResolveTarget(t)
        p == patch[target]
        back == MoveBack(stubs[p.stub] \o [n \in 1 .. 5 |-> Int3], EntryOf[target])
        gap == IF p.moved > Bytes(back.out) THEN p.moved - Bytes(back.out) ELSE 0
    IN  /\ ppOps < PpMaxOps /\ ~failed /\ p.stub # 0 /\ back.ok
        /\ ppOps' = ppOps + 1
        /\ codeAt' = [codeAt EXCEPT ![target] = back.out \o [n \in 1 .. gap |-> Int3] \o RestOf(target)]
        /\ pages' = FreePreambleBlock(pages, p.stub)
        /\ stubs' = [b \in DOMAIN stubs \ {p.stub} |-> stubs[b]]
        /\ patch' = [patch EXCEPT ![target].stub = 0]
        /\ UNCHANGED failed

PpNext ==
    \E t \in Targets : Unpatch(t) \/ \E r \in Replacements : RawPatch(t, r)

PpSpec == PpInit /\ [][PpNext]_ppVars

-----------------------------------------------------------------------------
(* What code does: its instructions by what they mean, up to the first     *)
(* unconditional jump.                                                     *)
Class(kind) ==
    CASE kind \in {"jcc8", "jcc32"} -> "jcc" [] kind \in {"jmp8", "jmp32"} -> "jmp" [] OTHER -> kind
Effects(code) ==
    FoldLeft(LAMBDA e, i : IF e # << >> /\ Last(e)[1] = "jmp" THEN e
                           ELSE Append(e, <<Class(i.kind), i.dest>>), << >>, code)

(* The first n bytes of code, as instructions.                             *)
FirstBytes(code, n) ==
    SubSeq(code, 1, CHOOSE j \in 0 .. Len(code) : Bytes(SubSeq(code, 1, j)) = n)
KindsIn(code) == {code[i].kind : i \in DOMAIN code}

(* A patched function goes to its replacement, directly or through the     *)
(* trampoline in its stub.                                                 *)
Redirected(t) ==
    LET p == patch[t]  dest == codeAt[t][1].dest
    IN  /\ IsNear(dest - EntryOf[t] - 5)
        /\ \/ dest = p.repl
           \/ /\ Last(stubs[p.stub]) = Trampoline(p.repl)
              /\ dest = p.stub + Bytes(Front(stubs[p.stub]))

(* Its stub does what the moved instructions did, at whatever distance,    *)
(* and continues with the first instruction that stayed.  Calls through a  *)
(* register, which RawPatchWithStub takes for a Jcc, are left out.         *)
StubRunsPreamble(t) ==
    LET p == patch[t]
        was == FirstBytes(p.was, p.moved)
    IN  "callreg" \notin KindsIn(was) =>
          Effects(stubs[p.stub]) = Effects(Append(was, Jmp32(EntryOf[t] + p.moved)))

(* Blocks are in use or free, each once, whatever was refused or undone.   *)
BlocksAccounted ==
    /\ \A i \in DOMAIN pages :
         LET blocks == {pages[i].base + j * StubSize : j \in 1 .. (PpPageBytes \div StubSize) - 1}
             used == {b \in DOMAIN stubs : PageBase(b) = pages[i].base}
         IN  /\ used \cap ToSet(pages[i].free) = {}
             /\ used \cup ToSet(pages[i].free) = blocks
             /\ IsInjective(pages[i].free)
    /\ \A b \in DOMAIN stubs : \E i \in DOMAIN pages : pages[i].base = PageBase(b)
    /\ DOMAIN stubs = {patch[t].stub : t \in Targets} \ {0}

(* Unpatch puts the code back.  Left out are preambles with a MOV with a   *)
(* displacement or with a jump or call that is short, or short enough to   *)
(* be written as one: those do not come back as they were.                 *)
PlainlyMoved(t) ==
    LET was == FirstBytes(patch[t].was, patch[t].moved)
    IN  \A i \in DOMAIN was :
          \/ was[i].kind = "plain"
          \/ was[i].kind \in NearKinds
               /\ was[i].dest - EntryOf[t] \notin -ShortMax - 1 .. ShortMax + kRequiredTargetPatchBytes + 6

(* For every function, replacement and sequence of calls of RawPatch and   *)
(* Unpatch: a patched function is redirected and its stub still runs the   *)
(* original, every stub block is accounted for, and an undone patch leaves *)
(* the code as it was.                                                     *)
PatchesSound ==
    /\ BlocksAccounted
    /\ \A t \in Targets :
         IF patch[t].stub # 0 THEN Redirected(t) /\ StubRunsPreamble(t)
         ELSE patch[t].was # << >> /\ PlainlyMoved(t) => codeAt[t] = patch[t].was

=============================================================================
