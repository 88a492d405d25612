----------------------------- MODULE PoreInline -----------------------------
(***************************************************************************)
(* The inline assembler of the PORE (pore_inline_assembler.c and           *)
(* pore_inline.h): one function per instruction, which checks its operands *)
(* and puts one or three words into the memory of a PoreInlineContext.     *)
(*                                                                         *)
(* A word is its first 8 bits, the opcode and the parity, and the 24 bits  *)
(* of the operand; an immediate of 64 bits is two words.  Memory addresses *)
(* count from the beginning of the memory.  A call is the mnemonic with    *)
(* its arguments.                                                          *)
(***************************************************************************)
EXTENDS Pgas, FiniteSets

CONSTANTS
    Creations,   \* the arguments of pore_inline_context_create
    Calls,       \* the calls of the assembler
    Targets,     \* what a branch is fixed up to
    FullProgram  \* bound: a program longer than that is not continued

VARIABLES
    ctx,      \* the PoreInlineContext
    memory,   \* the words of the memory
    program   \* what has been assembled, as [lc, call]

Opcode == [WAITS |-> 1, TRAP |-> 2, NOP |-> 15, BRA |-> 16, BRAZ |-> 18, BRANZ |-> 19, BSR |-> 20,
           RET |-> 21, BRAD |-> 28, BSRD |-> 29, LOOP |-> 31, ADD |-> 35, ADDS |-> 36, AND |-> 37,
           OR |-> 38, XOR |-> 39, SUBS |-> 40, SUB |-> 41, NEG |-> 42, MR |-> 44, ROLS |-> 46, LS |-> 48,
           LD0 |-> 50, LD1 |-> 54, STD0 |-> 57, STD1 |-> 58, HOOKI |-> 79, BRAI |-> 81,
           CMPIBRAEQ |-> 86, CMPIBRANE |-> 87, CMPIBSREQ |-> 88, ANDI |-> 96, ORI |-> 97, XORI |-> 98,
           LI |-> 113, LD0ANDI |-> 115, LD1ANDI |-> 119, STI |-> 120, SCAND |-> 124]

-----------------------------------------------------------------------------
(***************************************************************************)
(* Registers by class, parity, and what an instruction is before it is     *)
(* put into memory: an error, or an opcode with its operand and immediate. *)
(***************************************************************************)
Pervasive == {"P0", "P1"}
Address == {"A0", "A1"}
BranchCompareData == Data \cup {"CTR"}
LsDestination == Data \cup Address \cup Pervasive \cup {"CTR"}
LiDestination == LsDestination
MrSource == LsDestination \cup {"PC", "ETR", "SPRG0", "IFR", "EMR"}
MrDestination == LsDestination \cup {"PC", "SPRG0", "EMR"}

Popcount(n, width) == Cardinality({i \in 0 .. width - 1 : (n \div 2^i) % 2 = 1})
WordOnes(w) == Popcount(w[1], 8) + Popcount(w[2], 24)
Parity(words) ==
    LET ones[n \in 0 .. Len(words)] == IF n = 0 THEN 0 ELSE ones[n - 1] + WordOnes(words[n])
    IN  ones[Len(words)] % 2

Fail(code) == [rc |-> code, opcode |-> 0, operand |-> 0, imm |-> <<>>]
Short(opcode, operand) == [rc |-> "OK", opcode |-> Opcode[opcode], operand |-> operand, imm |-> <<>>]
Long(opcode, operand, imm) == [Short(opcode, operand) EXCEPT !.imm = imm]
Check(condition, code, i) == IF condition THEN i ELSE Fail(code)

R0(reg) == RegisterNumber[reg] * 2^20
R1(reg) == RegisterNumber[reg] * 2^16
Low(n, width) == n % 2^width   \* of a negative number too: two's complement
Signed(n, width) == n >= - 2^(width - 1) /\ n < 2^(width - 1)
Unsigned(n, width) == n >= 0 /\ n < 2^width

(* Branches, relative to the location counter, in words; C's division      *)
(* rounds towards zero.                                                    *)
Quotient(n) == IF n >= 0 THEN n \div 4 ELSE - ((- n) \div 4)
Offset(lc, target) == Quotient(target - lc)
InlineBra(lc, op, target) ==
    Check(target % 4 = 0, "ALIGNMENT", Check(Signed(Offset(lc, target), 24), "UNREACHABLE",
          Short(op, Low(Offset(lc, target), 24))))
InlineBrac(lc, op, reg, target) ==
    Check(target % 4 = 0, "ALIGNMENT", Check(reg \in BranchCompareData, "ILLEGAL_REGISTER",
          Check(Signed(Offset(lc, target), 21), "UNREACHABLE",
                Short(op, Low(Offset(lc, target), 20) + R0(reg)))))
InlineCmpibra(lc, op, reg, target, imm) ==
    Check(target % 4 = 0, "ALIGNMENT", Check(reg = "D0", "ILLEGAL_REGISTER",
          Check(Signed(Offset(lc, target), 24), "UNREACHABLE",
                Long(op, Low(Offset(lc, target), 24), imm))))
InlineBrad(op, reg) == Check(reg \in Data, "ILLEGAL_REGISTER", Short(op, R0(reg)))
BRAIA(space, offset) == Long("BRAI", 0, <<<<0, space>>, offset>>)

WAITS(cycles) ==
    Check(cycles # 0, "USE_HALT", Check(Unsigned(cycles, 24), "UINT24_REQUIRED", Short("WAITS", cycles)))
HOOKI(index, imm) == Check(Unsigned(index, 24), "UINT24_REQUIRED", Long("HOOKI", index, imm))

InlineIlogic(op, dest, src, imm) ==
    Check({dest, src} \subseteq Data, "ILLEGAL_REGISTER", Long(op, R0(dest) + R1(src), imm))
InlineAlurr(op, dest, src1, src2) ==
    Check(dest \in Data /\ src1 = "D0" /\ src2 = "D1", "ILLEGAL_REGISTER", Short(op, R0(dest)))
InlineAdds(op, dest, src, imm) ==
    Check(dest \in LsDestination /\ dest = src, "ILLEGAL_REGISTER",
          Check(Signed(imm, 16), "INT16_REQUIRED", Short(op, R0(dest) + Low(imm, 16))))
NEG(dest, src) == Check({dest, src} \subseteq Data, "ILLEGAL_REGISTER", Short("NEG", R0(dest) + R1(src)))
MR(dest, src) ==
    Check(dest \in MrDestination /\ src \in MrSource, "ILLEGAL_REGISTER", Short("MR", R0(dest) + R1(src)))
ROLS(dest, src, imm) ==
    Check({dest, src} \subseteq Data, "ILLEGAL_REGISTER",
          Check(imm \in {1, 4, 8, 16, 32}, "ILLEGAL_ROTATE", Short("ROLS", R0(dest) + R1(src) + imm)))
MutantLS(dest, imm) ==
    Check(dest \in LsDestination, "ILLEGAL_REGISTER",
          Check(Signed(imm, 21), "INT20_REQUIRED", Short("LS", R0(dest) + Low(imm, 20))))
LS(dest, imm) ==
    Check(dest \in LsDestination, "ILLEGAL_REGISTER",
          Check(Signed(imm, 20), "INT20_REQUIRED", Short("LS", R0(dest) + Low(imm, 20))))
LI(dest, imm) == Check(dest \in LiDestination, "ILLEGAL_REGISTER", Long("LI", R0(dest), imm))
SCAND(update, capture, length, select, offset) ==
    Check({update, capture} \subseteq 0 .. 1, "INVALID_PARAMETER",
          Long("SCAND", update * 2^23 + capture * 2^22 + length, <<select, offset>>))

(* Loads and stores: through a chiplet register to the PIB, whose address  *)
(* must have no bit where the chiplet's number is not, through an address  *)
(* register to memory.  The error of an earlier call is still there, which *)
(* is why this one does nothing then.                                      *)
Ima24(space, base, offset) == space + (RegisterNumber[base] % 2) * 2^22 + offset
Access(op, offset, base, imm) ==
    CASE base \in Pervasive ->
            Check(offset >= 0 /\ (offset \div 2^20) % 16 = 0, "ILLEGAL_SCOM_ADDRESS",
                  Long(op, Ima24(0, base, Low(offset, 20)), imm))
      [] base \in Address ->
            Check(Unsigned(offset, 22), "UINT22_REQUIRED", Check(offset % 8 = 0, "ALIGNMENT",
                  Long(op, Ima24(2^23, base, offset), imm)))
      [] OTHER -> Fail("ILLEGAL_REGISTER")
LoadStore(error, op, reg, offset, base, imm) ==
    LET opcode == CASE op = "LD" -> IF reg = "D0" THEN "LD0" ELSE "LD1"
                    [] op = "LDANDI" -> IF reg = "D0" THEN "LD0ANDI" ELSE "LD1ANDI"
                    [] op = "STD" -> IF reg = "D0" THEN "STD0" ELSE "STD1"
                    [] OTHER -> op
    IN  Check(op = "STI" \/ reg \in Data, "ILLEGAL_REGISTER",
              Check(error = "OK", error, Access(opcode, offset, base, imm)))

(* A call of the assembler: pore_<mnemonic>.                               *)
Moved(error, c) ==
    CASE c[1] \in {"ANDI", "ORI", "XORI"} -> InlineIlogic(c[1], c[2], c[3], c[4])
      [] c[1] \in {"AND", "OR", "XOR", "ADD", "SUB"} -> InlineAlurr(c[1], c[2], c[3], c[4])
      [] c[1] \in {"ADDS", "SUBS"} -> InlineAdds(c[1], c[2], c[3], c[4])
      [] c[1] = "NEG" -> NEG(c[2], c[3])
      [] c[1] = "MR" -> MR(c[2], c[3])
      [] c[1] = "ROLS" -> ROLS(c[2], c[3], c[4])
      [] c[1] = "LS" -> LS(c[2], c[3])
      [] c[1] = "LI" -> LI(c[2], c[3])
      [] c[1] \in {"LD", "STD"} -> [LoadStore(error, c[1], c[2], c[3], c[4], <<>>) EXCEPT !.imm = <<>>]
      [] c[1] = "LDANDI" -> LoadStore(error, c[1], c[2], c[3], c[4], c[5])
      [] c[1] = "STI" -> LoadStore(error, c[1], "D0", c[2], c[3], c[4])
      [] c[1] = "SCAND" -> SCAND(c[2], c[3], c[4], c[5], c[6])
Encoded(lc, error, c) ==
    CASE c[1] \in {"NOP", "TRAP", "RET"} -> Short(c[1], 0)
      [] c[1] = "HALT" -> Short("WAITS", 0)
      [] c[1] = "WAITS" -> WAITS(c[2])
      [] c[1] = "HOOKI" -> HOOKI(c[2], c[3])
      [] c[1] \in {"BRA", "BSR", "LOOP"} -> InlineBra(lc, c[1], c[2])
      [] c[1] \in {"BRAZ", "BRANZ"} -> InlineBrac(lc, c[1], c[2], c[3])
      [] c[1] \in {"CMPIBRAEQ", "CMPIBRANE", "CMPIBSREQ"} -> InlineCmpibra(lc, c[1], c[2], c[3], c[4])
      [] c[1] \in {"BRAD", "BSRD"} -> InlineBrad(c[1], c[2])
      [] c[1] = "BRAIA" -> BRAIA(c[2], c[3])
      [] OTHER -> Moved(error, c)

-----------------------------------------------------------------------------
(***************************************************************************)
(* The context.  base is the address of the memory, of which only the      *)
(* alignment matters, used the distance of lc_address from it.             *)
(***************************************************************************)
Options == {"GENERATE_PARITY", "CHECK_PARITY", "LISTING_MODE", "DISASSEMBLE_DATA", "8_BYTE_DATA",
            "DISASSEMBLE_UNKNOWN"}
Context == [base |-> 0, size |-> 0, original_lc |-> 0, options |-> {},
            used |-> 0, remaining |-> 0, lc |-> 0, error |-> "OK"]

Rewound(c, remaining) ==
    [c EXCEPT !.used = 0, !.remaining = remaining, !.lc = c.original_lc, !.error = "OK"]
ContextReset(c) == Rewound(c, c.size)
Excursion(c) == Rewound(c, c.size - c.remaining)
ContextCreate(c, base, size, lc, options) ==
    IF options \subseteq Options
    THEN ContextReset([c EXCEPT !.base = base, !.size = size, !.original_lc = lc, !.options = options])
    ELSE [c EXCEPT !.size = 0, !.error = "INVALID_PARAMETER"]
ContextBump(c, bytes) ==
    [c EXCEPT !.remaining = @ - bytes, !.lc = @ + bytes, !.used = @ + bytes]
Allocation(c, bytes) ==
    IF c.lc % 4 # 0 \/ (c.base + c.used) % 4 # 0 THEN "ALIGNMENT_ERROR"
    ELSE IF bytes > c.remaining THEN "NO_MEMORY" ELSE "OK"

WordAt(mem, c) == mem[c.used \div 4]
ParityBit(c, opcode, operand, imm) ==
    IF "GENERATE_PARITY" \in c.options THEN 1 - Parity(<<<<2 * opcode, operand>>>> \o imm) ELSE 0

(* Assemble one instruction: a state is the context, the memory and the    *)
(* program.  A success clears the error of the call before.                *)
Emitted(st, call, i) ==
    LET bytes == IF i.imm = <<>> THEN 4 ELSE 12
        at == st.ctx.used \div 4
        words == <<<<2 * i.opcode + ParityBit(st.ctx, i.opcode, i.operand, i.imm), i.operand>>>> \o i.imm
        got == IF i.rc = "OK" THEN Allocation(st.ctx, bytes) ELSE i.rc
    IN  IF got # "OK" THEN [st EXCEPT !.ctx.error = got]
        ELSE [ctx |-> [ContextBump(st.ctx, bytes) EXCEPT !.error = "OK"],
              memory |-> [w \in DOMAIN st.memory |->
                              IF w \in at .. at + Len(words) - 1 THEN words[w - at + 1] ELSE st.memory[w]],
              program |-> Append(st.program, [lc |-> st.ctx.lc, call |-> call])]
Called(st, call) == Emitted(st, call, Encoded(st.ctx.lc, st.ctx.error, call))

(* BSI and BCI are sequences, each instruction only if the one before it   *)
(* succeeded: the first of them remain when a later one does not.          *)
Complement(imm) == <<<<255 - imm[1][1], 2^24 - 1 - imm[1][2]>>, <<255 - imm[2][1], 2^24 - 1 - imm[2][2]>>>>
Instructions(c) ==
    CASE c[1] = "BSI" -> <<<<"LD", c[2], c[3], c[4]>>, <<"ORI", c[2], c[2], c[5]>>, <<"STD", c[2], c[3], c[4]>>>>
      [] c[1] = "BCI" -> <<<<"LDANDI", c[2], c[3], c[4], Complement(c[5])>>, <<"STD", c[2], c[3], c[4]>>>>
      [] OTHER -> <<c>>
AllCalled(st, calls) ==
    LET after[k \in 0 .. Len(calls)] ==
            IF k = 0 THEN st
            ELSE IF k > 1 /\ after[k - 1].ctx.error # "OK" THEN after[k - 1]
            ELSE Called(after[k - 1], calls[k])
    IN  after[Len(calls)]

(* Fix up a branch: assemble it again where it is, in a copy of the        *)
(* context of which only the error is kept.                                *)
RegisterOf(number) == CHOOSE r \in Registers : RegisterNumber[r] = number
Mnemonic(word) == LET is == {op \in DOMAIN Opcode : Opcode[op] = word[1] \div 2}
                  IN  IF is = {} THEN "UNKNOWN" ELSE CHOOSE op \in is : TRUE
Retargeted(mem, c, target) ==
    LET op == Mnemonic(WordAt(mem, c))
        imm == <<mem[c.used \div 4 + 1], mem[c.used \div 4 + 2]>>
    IN  CASE op \in {"BRA", "BSR", "LOOP"} -> <<op, target>>
          [] op \in {"BRAZ", "BRANZ"} -> <<op, RegisterOf(WordAt(mem, c)[2] \div 2^20), target>>
          [] op \in {"CMPIBRAEQ", "CMPIBRANE", "CMPIBSREQ"} -> <<op, "D0", target, imm>>
          [] OTHER -> <<>>
FixedUp(st, source, target) ==
    LET distance == st.ctx.lc - source
        there == [st.ctx EXCEPT !.lc = source, !.remaining = @ + distance, !.used = @ - distance, !.error = "OK"]
        call == Retargeted(st.memory, there, target)
        done == Called([st EXCEPT !.ctx = there], call)
        kept == [k \in DOMAIN st.program |->
                    IF st.program[k].lc = source THEN [st.program[k] EXCEPT !.call = call] ELSE st.program[k]]
    IN  IF source < st.ctx.original_lc \/ source > st.ctx.lc
        THEN [st EXCEPT !.ctx.error = "ILLEGAL_SOURCE_LC"]
        ELSE IF call = <<>> THEN [st EXCEPT !.ctx.error = "NOT_A_BRANCH"]
        ELSE IF done.ctx.error # "OK" THEN [st EXCEPT !.ctx.error = done.ctx.error]
        ELSE [ctx |-> [st.ctx EXCEPT !.error = "OK"], memory |-> done.memory, program |-> kept]

-----------------------------------------------------------------------------
(***************************************************************************)
(* A session of the assembler on one context and one memory, which at the  *)
(* beginning of a program holds nothing of the program before.             *)
(***************************************************************************)
Session == [ctx |-> ctx, memory |-> memory, program |-> program]
Becomes(st) == ctx' = st.ctx /\ memory' = st.memory /\ program' = st.program
Blank == [w \in 0 .. 15 |-> <<0, 0>>]
Anew(c) == Becomes([ctx |-> c, memory |-> Blank, program |-> <<>>])

Create == \E c \in Creations :
    LET made == ContextCreate(ctx, c.base, c.size, c.lc, c.options)
    IN  IF made.error = "OK" THEN Anew(made) ELSE Becomes([Session EXCEPT !.ctx = made])
Assemble == Len(program) < FullProgram /\ \E c \in Calls : Becomes(AllCalled(Session, Instructions(c)))
(* The instruction to be fixed up is one of the program, or the location   *)
(* is just outside of it, still in the memory.                             *)
Sources == {program[k].lc : k \in DOMAIN program} \cup {ctx.original_lc - 4}
           \cup (IF ctx.remaining >= 4 THEN {ctx.lc} ELSE {})
Fixup == program # <<>> /\ \E source \in Sources, target \in Targets : Becomes(FixedUp(Session, source, target))
Restart == Anew(ContextReset(ctx))
=============================================================================
