-------------------------- MODULE MiniDisassembler --------------------------
(***************************************************************************)
(* windows/mini_disassembler.cc: how long is the instruction at an address *)
(* and is it a jump or a return?  PreamblePatcher copies whole             *)
(* instructions on the strength of the answer.                             *)
(*                                                                         *)
(* The opcode tables (ia32_opcode_map.cc) are kept as the set of the       *)
(* different rows they have: the type of the instruction and, for each of  *)
(* its three operands, what it adds to the length.  An opcode byte is then *)
(* the row it selects.  One object decodes one instruction after another:  *)
(* it starts with whatever the previous one left in its members.           *)
(***************************************************************************)
EXTENDS Integers, Sequences, FiniteSets

CONSTANTS
    MdPrefixes,      \* sequences of prefix bytes in front of an opcode
    RexPrefixes    \* the same for 64-bit code, ending in a REX prefix

VARIABLES
    inst,          \* the instruction in memory
    md,            \* the members of the MiniDisassembler and the size so far
    mdPc           \* the method that is running

mdVars == <<inst, md, mdPc>>

-----------------------------------------------------------------------------
(* The tables                                                              *)

\* Operands: none or implicit, a register named by ModR/M, a register or
\* memory operand of ModR/M, and bytes of the given type in the instruction
No == <<"none", "">>
Reg == <<"reg", "">>
Mem == <<"rm", "">>
Imm(ot) == <<"I", ot>>
Jmp(ot) == <<"J", ot>>
Off(ot) == <<"O", ot>>
Far(ot) == <<"A", ot>>

\* A row that is not prefix dependent, and one that is: the rows for F2, F3, 66
Row(type, a, b, c) == [type |-> type, ops |-> <<a, b, c>>, alt |-> <<>>]
Dependent(ops, f2, f3, p66) ==
    [type |-> "IT_GENERIC", ops |-> ops, alt |-> <<f2, f3, p66>>]
NoRow == <<>>

\* s_first_opcode_byte, 0x00 .. 0x7F without the prefixes and references
LowRows ==
    {Row("IT_GENERIC", Mem, Reg, No), Row("IT_GENERIC", Reg, Mem, No),
     Row("IT_GENERIC", No, Imm("B"), No), Row("IT_GENERIC", No, Imm("V"), No),
     Row("IT_GENERIC", No, No, No), Row("IT_GENERIC", Imm("V"), No, No),
     Row("IT_GENERIC", Reg, Mem, Imm("V")), Row("IT_GENERIC", Imm("B"), No, No),
     Row("IT_GENERIC", Reg, Mem, Imm("B")), Row("IT_JUMP", Jmp("B"), No, No)}

\* s_first_opcode_byte, 0x80 .. 0xFF, likewise
HighRows ==
    {Row("IT_GENERIC", Mem, Reg, No), Row("IT_GENERIC", Reg, Mem, No),
     Row("IT_GENERIC", Mem, No, No), Row("IT_GENERIC", No, No, No),
     Row("IT_JUMP", Far("P"), No, No),
     Row("IT_GENERIC", No, Off("B"), No), Row("IT_GENERIC", No, Off("V"), No),
     Row("IT_GENERIC", Off("B"), No, No), Row("IT_GENERIC", Off("V"), No, No),
     Row("IT_GENERIC", No, Imm("B"), No), Row("IT_GENERIC", No, Imm("V"), No),
     Row("IT_GENERIC", No, Imm("V64"), No), Row("IT_RETURN", Imm("W"), No, No),
     Row("IT_RETURN", No, No, No), Row("IT_GENERIC", Mem, Imm("B"), No),
     Row("IT_GENERIC", Mem, Imm("V"), No), Row("IT_GENERIC", Imm("W"), Imm("B"), No),
     Row("IT_GENERIC", Imm("B"), No, No), Row("IT_UNUSED", No, No, No),
     Row("IT_UNKNOWN", No, No, No), Row("IT_JUMP", Jmp("B"), No, No),
     Row("IT_JUMP", Jmp("V"), No, No)}

\* Operands of the two-byte opcodes
RegMem == <<Reg, Mem, No>>
MemReg == <<Mem, Reg, No>>
RegReg == <<Reg, Reg, No>>
MemMem == <<Mem, Mem, No>>
RegMemImm == <<Reg, Mem, Imm("B")>>
RegRegImm == <<Reg, Reg, Imm("B")>>
NoOps == <<No, No, No>>

\* s_opcode_byte_after_0f, 0x00 .. 0x3F, without the references
ControlRows ==
    {Row("IT_GENERIC", Reg, Mem, No), Row("IT_UNUSED", No, No, No),
     Row("IT_GENERIC", No, No, No), Row("IT_GENERIC", Reg, Reg, No),
     Dependent(RegMem, RegMem, RegMem, RegMem), Dependent(MemReg, MemReg, MemReg, MemReg),
     Dependent(MemReg, RegReg, RegReg, RegMem), Dependent(RegMem, NoRow, NoRow, RegMem),
     Dependent(RegMem, RegReg, RegReg, RegMem), Dependent(MemReg, NoRow, NoRow, MemReg),
     Dependent(MemMem, RegMem, RegMem, MemMem)}

\* 0x40 .. 0x5F: the conditional moves and the floating-point arithmetic
MoveRows ==
    {Row("IT_GENERIC", Reg, Mem, No),
     Dependent(MemReg, NoRow, NoRow, MemReg), Dependent(RegMem, RegMem, RegMem, RegMem),
     Dependent(RegMem, NoRow, RegMem, NoRow), Dependent(RegMem, NoRow, NoRow, RegMem),
     Dependent(RegMem, NoRow, RegMem, RegMem)}

\* 0x60 .. 0x7F: packing and comparing
PackRows ==
    {Row("IT_GENERIC", No, No, No), Row("IT_UNKNOWN", No, No, No),
     Dependent(RegMem, NoRow, NoRow, RegMem), Dependent(NoOps, NoRow, NoRow, RegMem),
     Dependent(RegMem, NoRow, RegMem, RegMem), Dependent(MemReg, NoRow, RegMem, MemReg),
     Dependent(MemReg, NoRow, MemReg, MemReg),
     Dependent(RegMemImm, RegMemImm, RegMemImm, RegMemImm)}

\* 0x80 .. 0xBF: jumps, set-on-condition and bit operations.  0xA5 and 0xAD have
\* an aux operand AM_I | AM_REGISTER: no addressing mode, which adds nothing.
JumpRows ==
    {Row("IT_JUMP", Jmp("V"), No, No), Row("IT_GENERIC", Mem, No, No),
     Row("IT_GENERIC", No, No, No), Row("IT_GENERIC", Mem, Reg, No),
     Row("IT_GENERIC", Mem, Reg, Imm("B")), Row("IT_UNKNOWN", No, No, No),
     Row("IT_GENERIC", Reg, Mem, No)}

\* 0xC0 .. 0xDF: exchanges and the first half of the packed arithmetic
ExchangeRows ==
    {Row("IT_GENERIC", Mem, Reg, No), Row("IT_GENERIC", Mem, No, No),
     Row("IT_GENERIC", No, No, No), Row("IT_UNUSED", No, No, No),
     Dependent(RegMemImm, RegMemImm, RegMemImm, RegMemImm),
     Dependent(RegMemImm, NoRow, NoRow, RegMemImm),
     Dependent(RegRegImm, NoRow, NoRow, RegRegImm),
     Dependent(RegMem, NoRow, NoRow, RegMem), Dependent(NoOps, RegMem, RegMem, MemReg),
     Dependent(RegReg, NoRow, NoRow, RegReg)}

\* 0xE0 .. 0xFF: its second half
PackedRows ==
    {Row("IT_UNUSED", No, No, No), Dependent(RegMem, NoRow, NoRow, RegMem),
     Dependent(NoOps, RegMem, RegMem, RegMem), Dependent(MemReg, NoRow, NoRow, MemReg)}

TwoByteRows ==
    ControlRows \cup MoveRows \cup PackRows \cup JumpRows \cup ExchangeRows \cup PackedRows

\* Operands of the shifts that the reg field selects
RegImm == <<Reg, Imm("B"), No>>
MemImm == <<Mem, Imm("B"), No>>

\* The tables after one opcode byte, s_opcode_byte_after_80 .. _ff, of which the
\* reg field of ModR/M selects a row
GroupRows ==
    {Row("IT_GENERIC", Mem, Imm("B"), No), Row("IT_GENERIC", Mem, Imm("V"), No),
     Row("IT_GENERIC", Mem, No, No), Row("IT_GENERIC", No, Mem, No),
     Row("IT_JUMP", Mem, No, No), Row("IT_UNUSED", No, No, No)}

\* Those after two, s_opcode_byte_after_0f00 .. _0fc7
TwoByteGroupRows ==
    {Row("IT_GENERIC", Mem, No, No), Row("IT_UNUSED", No, No, No),
     Row("IT_GENERIC", No, No, No), Row("IT_GENERIC", Mem, Imm("B"), No),
     Dependent(RegImm, NoRow, NoRow, RegImm),
     Dependent(RegImm, NoRow, NoRow, MemImm),
     Dependent(MemImm, NoRow, NoRow, MemImm)}

\* s_ia16_modrm_map_: displacement bytes for the mod and r/m fields
Modrm16(mod, rm) ==
    CASE mod = 0 -> [bytes |-> IF rm = 6 THEN 2 ELSE 0, sib |-> FALSE]
      [] mod = 1 -> [bytes |-> 1, sib |-> FALSE]
      [] mod = 2 -> [bytes |-> 2, sib |-> FALSE]
      [] mod = 3 -> [bytes |-> 0, sib |-> FALSE]

\* s_ia32_modrm_map_
Modrm32(mod, rm) ==
    CASE mod = 0 -> [bytes |-> IF rm = 5 THEN 4 ELSE 0, sib |-> rm = 4]
      [] mod = 1 -> [bytes |-> 1, sib |-> rm = 4]
      [] mod = 2 -> [bytes |-> 4, sib |-> rm = 4]
      [] mod = 3 -> [bytes |-> 0, sib |-> FALSE]

-----------------------------------------------------------------------------
(* Instructions in memory.  refs is the number of opcode bytes that refer   *)
(* to a further table, ext says that the last one is ModR/M's reg field.    *)

HasModrm(ops) == \E i \in 1 .. 3 : ops[i][1] \in {"reg", "rm"}
HasMem(ops) == \E i \in 1 .. 3 : ops[i][1] = "rm"

\* The operands the processor sees: a mandatory prefix selects another row
SelectedOps(i) ==
    LET Got(b) == \E k \in 1 .. Len(i.prefixes) : i.prefixes[k] = b
        With(n) == i.row.alt # <<>> /\ i.row.alt[n] # NoRow
    IN  CASE Got(242) /\ With(1) -> i.row.alt[1]
          [] Got(243) /\ ~(Got(242) /\ With(1)) /\ With(2) -> i.row.alt[2]
          [] Got(102) /\ ~(Got(242) /\ With(1)) /\ ~(Got(243) /\ With(2))
               /\ With(3) -> i.row.alt[3]
          [] OTHER -> i.row.ops

Codes(x64, prefixes, refs, ext, rows) ==
    [x64 : {x64}, prefixes : prefixes, refs : {refs}, ext : {ext}, row : rows,
     mod : 0 .. 3, rm : {0, 4, 5, 6}, base : {0, 5}]

\* A ModR/M byte that selects no memory operand says so; 64-bit code has no far
\* pointers and gives a relative jump no operand size prefix
Sensible(i) ==
    LET ops == SelectedOps(i)
        memory == HasMem(ops) /\ i.mod # 3
    IN  /\ ~HasMem(ops) => i.mod = 3 /\ i.rm = 0
        /\ ~(memory /\ i.rm = 4) => i.base = 0
        /\ i.x64 => \A k \in 1 .. 3 : ops[k][1] # "A"
        /\ (\E k \in 1 .. Len(i.prefixes) : i.prefixes[k] = 102) /\ i.x64
             => \A k \in 1 .. 3 : ops[k][1] # "J"
        /\ ~i.x64 => \A k \in 1 .. 3 : ops[k][2] # "V64"

Instructions ==
    UNION {UNION {{i \in Codes(x64, IF x64 THEN MdPrefixes \cup RexPrefixes ELSE MdPrefixes,
                         0, FALSE, LowRows \cup HighRows) : Sensible(i)},
                  {i \in Codes(x64, IF x64 THEN MdPrefixes \cup RexPrefixes ELSE MdPrefixes,
                         1, FALSE, TwoByteRows) : Sensible(i)},
                  {i \in Codes(x64, IF x64 THEN MdPrefixes \cup RexPrefixes ELSE MdPrefixes,
                         1, TRUE, GroupRows) : Sensible(i)},
                  {i \in Codes(x64, IF x64 THEN MdPrefixes \cup RexPrefixes ELSE MdPrefixes,
                         2, TRUE, TwoByteGroupRows) : Sensible(i)}} : x64 \in BOOLEAN}

-----------------------------------------------------------------------------
(* The decoder                                                             *)

\* Initialize, and the local variables of Disassemble
Fresh ==
    [operand_is_32_bits |-> TRUE, address_is_32_bits |-> TRUE,
     operand_is_64_bits |-> FALSE, operand_bytes |-> 0, have_modrm |-> FALSE,
     should_decode_modrm |-> FALSE, f2 |-> FALSE, f3 |-> FALSE, p66 |-> FALSE,
     type |-> "IT_UNKNOWN", size |-> 0, at |-> 1, bytes |-> 0]

\* What an earlier instruction can have left behind
Leftover ==
    [operand_is_32_bits |-> FALSE, address_is_32_bits |-> FALSE,
     operand_is_64_bits |-> TRUE, operand_bytes |-> 5, have_modrm |-> TRUE,
     should_decode_modrm |-> TRUE, f2 |-> TRUE, f3 |-> TRUE, p66 |-> TRUE,
     type |-> "IT_JUMP", size |-> 2, at |-> 1, bytes |-> 0]

Initialize ==
    /\ mdPc = "Disassemble"
    /\ md' = Fresh
    /\ mdPc' = "ProcessPrefixes"
    /\ UNCHANGED inst

\* (*start_byte) & 0x48
RexBits(b) == (b \div 64) % 2 = 1 \/ (b \div 8) % 2 = 1

\* One byte of ProcessPrefixes
ProcessPrefixes ==
    /\ mdPc = "ProcessPrefixes"
    /\ IF md.at > Len(inst.prefixes)
       THEN mdPc' = "ProcessOpcode" /\ UNCHANGED md
       ELSE LET b == inst.prefixes[md.at]
                named == b \in {242, 243, 102}
            IN  /\ md' = [md EXCEPT
                     !.address_is_32_bits = IF b = 103 THEN FALSE ELSE @,
                     !.operand_is_32_bits = IF b = 102 THEN FALSE ELSE @,
                     !.f2 = @ \/ b = 242, !.f3 = @ \/ b = 243, !.p66 = @ \/ b = 102,
                     !.operand_is_64_bits = @ \/ (~named /\ inst.x64 /\ RexBits(b)),
                     !.size = @ + 1, !.at = @ + 1]
                /\ UNCHANGED mdPc
    /\ UNCHANGED inst

\* The row ProcessOpcode uses: the first of the F2, F3 and 66 rows whose
\* prefix was seen and that exists
SpecificOps ==
    LET alt == inst.row.alt
    IN  IF alt = <<>> THEN inst.row.ops
        ELSE IF md.f2 /\ alt[1] # NoRow THEN alt[1]
        ELSE IF md.f3 /\ alt[2] # NoRow THEN alt[2]
        ELSE IF md.p66 /\ alt[3] # NoRow THEN alt[3]
        ELSE inst.row.ops

\* ProcessOperand: the bytes an operand adds to operand_bytes_
OperandBytes(op) ==
    CASE op[1] \notin {"I", "J", "O"} -> 0
      [] op[2] = "B" -> 1
      [] op[2] = "W" -> 2
      [] OTHER -> IF op[2] = "V64" /\ md.operand_is_64_bits THEN 8
                  ELSE IF md.operand_is_32_bits THEN 4 ELSE 2

\* ProcessOpcode, its recursion through the tables included: one byte for each
\* reference, then the row.  The type of a row that is not an instruction is
\* the result.
ProcessOpcode ==
    LET ops == SpecificOps
    IN  /\ mdPc = "ProcessOpcode"
        /\ IF inst.row.type \in {"IT_UNUSED", "IT_UNKNOWN"}
           THEN /\ md' = [md EXCEPT !.type = "IT_UNKNOWN"]
                /\ mdPc' = "done"
           ELSE /\ md' = [md EXCEPT
                     !.type = inst.row.type,
                     !.operand_bytes = @ + OperandBytes(ops[1]) + OperandBytes(ops[2])
                                         + OperandBytes(ops[3]),
                     !.have_modrm = @ \/ HasModrm(ops),
                     !.should_decode_modrm = @ \/ HasMem(ops),
                     !.size = @ + inst.refs
                                + IF inst.ext /\ (md.have_modrm \/ HasModrm(ops))
                                  THEN 0 ELSE 1]
                /\ mdPc' = IF md.have_modrm \/ HasModrm(ops)
                           THEN "ProcessModrm" ELSE "return"
        /\ UNCHANGED inst

\* ProcessModrm
ProcessModrm ==
    LET entry == IF md.address_is_32_bits THEN Modrm32(inst.mod, inst.rm)
                 ELSE Modrm16(inst.mod, inst.rm)
    IN  /\ mdPc = "ProcessModrm"
        /\ IF ~md.should_decode_modrm
           THEN /\ md' = [md EXCEPT !.size = @ + 1]
                /\ mdPc' = "return"
           ELSE /\ md' = [md EXCEPT !.size = @ + 1,
                                    !.operand_bytes = @ + entry.bytes]
                /\ mdPc' = IF entry.sib THEN "ProcessSib" ELSE "return"
        /\ UNCHANGED inst

\* ProcessSib: a base of 101 has a displacement, of a size that mod gives
ProcessSib ==
    /\ mdPc = "ProcessSib"
    /\ md' = [md EXCEPT
         !.size = @ + 1,
         !.operand_bytes = @ + IF inst.base # 5 THEN 0
                               ELSE CASE inst.mod \in {0, 2} -> 4
                                      [] inst.mod = 1 -> 1
                                      [] OTHER -> 0]
    /\ mdPc' = "return"
    /\ UNCHANGED inst

\* The end of Disassemble
Return ==
    /\ mdPc = "return"
    /\ md' = [md EXCEPT !.bytes = md.operand_bytes + md.size]
    /\ mdPc' = "done"
    /\ UNCHANGED inst

MdInit ==
    /\ inst \in Instructions
    /\ md \in {Fresh, Leftover}
    /\ mdPc = "Disassemble"

MdNext == Initialize \/ ProcessPrefixes \/ ProcessOpcode \/ ProcessModrm
          \/ ProcessSib \/ Return

MdSpec == MdInit /\ [][MdNext]_mdVars

-----------------------------------------------------------------------------
(* What the processor takes the instruction to be (external)               *)

RexW(i) == \E k \in 1 .. Len(i.prefixes) : i.prefixes[k] \in 72 .. 79
Has(i, b) == \E k \in 1 .. Len(i.prefixes) : i.prefixes[k] = b

AddressBytes(i) ==
    IF i.x64 THEN (IF Has(i, 103) THEN 4 ELSE 8) ELSE (IF Has(i, 103) THEN 2 ELSE 4)

ArchImmediate(i, op) ==
    CASE op[1] = "A" -> IF Has(i, 102) THEN 4 ELSE 6
      [] op[1] = "O" -> AddressBytes(i)
      [] op[1] \in {"I", "J"} /\ op[2] = "B" -> 1
      [] op[1] \in {"I", "J"} /\ op[2] = "W" -> 2
      [] op[1] \in {"I", "J"} /\ op[2] \in {"V", "V64"} ->
           IF op[2] = "V64" /\ RexW(i) THEN 8
           ELSE IF Has(i, 102) THEN 2 ELSE 4
      [] OTHER -> 0

\* ModR/M, SIB and displacement
ArchModrm(i, ops) ==
    IF ~HasModrm(ops) THEN (IF i.ext THEN 1 ELSE 0)
    ELSE IF ~HasMem(ops) \/ i.mod = 3 THEN 1
    ELSE IF AddressBytes(i) = 2
    THEN 1 + (IF i.mod = 0 THEN (IF i.rm = 6 THEN 2 ELSE 0) ELSE i.mod)
    ELSE 1 + (IF i.rm = 4 THEN 1 ELSE 0)
           + CASE i.mod = 1 -> 1
               [] i.mod = 2 -> 4
               [] OTHER -> IF i.rm = 5 \/ (i.rm = 4 /\ i.base = 5) THEN 4 ELSE 0

ArchLength(i) ==
    LET ops == SelectedOps(i)
    IN  Len(i.prefixes) + i.refs + (IF i.ext THEN 0 ELSE 1) + ArchModrm(i, ops)
          + ArchImmediate(i, ops[1]) + ArchImmediate(i, ops[2])
          + ArchImmediate(i, ops[3])

\* Forms whose length Disassemble does not compute as the processor does:
\* a SIB byte with base EBP and a displacement of its own, whose bytes are
\* added twice; far pointers, whose bytes are not counted; memory offsets,
\* which are taken to have the operand's size; in 64-bit code a prefix other
\* than REX.W taken for it before MOV reg, imm, and 16-bit addressing tables
\* after an address size prefix.
Miscounted(i) ==
    LET ops == SelectedOps(i)
    IN  \/ i.rm = 4 /\ i.base = 5 /\ i.mod \in {1, 2}
        \/ \E k \in 1 .. 3 : ops[k][1] \in {"A", "O"}
        \/ /\ \E k \in 1 .. 3 : ops[k][2] = "V64"
           /\ ~RexW(i) /\ \E k \in 1 .. Len(i.prefixes) :
                            i.prefixes[k] \notin {242, 243, 102} /\ RexBits(i.prefixes[k])
        \/ i.x64 /\ Has(i, 103) /\ HasMem(ops) /\ i.mod # 3

\* mini_disassembler.h: Disassemble "Indicates if opcode is a jump (any kind)
\* or a return (any kind)" and adds the length of the instruction, whatever an
\* earlier instruction left in the object and whatever table and prefix led to
\* the row; it gives up exactly on rows that are not instructions.  The forms
\* above are left out.
DecodesExactly ==
    mdPc = "done" =>
      IF inst.row.type \in {"IT_UNUSED", "IT_UNKNOWN"}
      THEN md.type = "IT_UNKNOWN" /\ md.bytes = 0
      ELSE /\ md.type = inst.row.type
           /\ ~Miscounted(inst) => md.bytes = ArchLength(inst)

=============================================================================
