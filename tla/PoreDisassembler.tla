-------------------------- MODULE PoreDisassembler --------------------------
(***************************************************************************)
(* The disassembler of the PORE (pore_inline_disassembler.c): it reads the *)
(* next instruction, or in data mode the next piece of data, from a        *)
(* context, the one the program was assembled with or one created anew on  *)
(* the same memory.                                                        *)
(*                                                                         *)
(* The text of an instruction is its mnemonic with its operands: a call of *)
(* the assembler.  Targets of branches are those of listing mode.          *)
(***************************************************************************)
EXTENDS PoreInline
LOCAL INSTANCE SequencesExt

CONSTANT
    Readings   \* the options and the sizes a memory is read with

VARIABLES
    listing,   \* what has been disassembled, as [lc, call]
    reading    \* TRUE while the program is disassembled

disassemblerVars == <<ctx, memory, program, listing, reading>>

(***************************************************************************)
(* The fields of a word, and the instruction they make.                    *)
(***************************************************************************)
SignedField(n, width) == LET f == n % 2^width IN IF f < 2^(width - 1) THEN f ELSE f - 2^width
FieldR0(operand) == RegisterOf(operand \div 2^20)
FieldR1(operand) == RegisterOf((operand \div 2^16) % 16)
Base(operand) == LET odd == (operand \div 2^22) % 2 = 1
                 IN  IF operand >= 2^23 THEN (IF odd THEN "A1" ELSE "A0") ELSE (IF odd THEN "P1" ELSE "P0")
AccessOffset(operand) == IF operand >= 2^23 THEN operand % 2^22 ELSE operand % 2^20

IsLong(word) == word[1] >= 128
DecodedMove(op, word, imm) ==
    LET n == word[2] IN
    CASE op = "LS" -> <<op, FieldR0(n), SignedField(n, 20)>>
      [] op = "LI" -> <<op, FieldR0(n), imm>>
      [] op \in {"LD0", "LD1"} -> <<"LD", IF op = "LD0" THEN "D0" ELSE "D1", AccessOffset(n), Base(n)>>
      [] op \in {"STD0", "STD1"} -> <<"STD", IF op = "STD0" THEN "D0" ELSE "D1", AccessOffset(n), Base(n)>>
      [] op \in {"LD0ANDI", "LD1ANDI"} ->
            <<"LDANDI", IF op = "LD0ANDI" THEN "D0" ELSE "D1", AccessOffset(n), Base(n), imm>>
      [] op = "STI" -> <<op, AccessOffset(n), Base(n), imm>>
      [] op = "SCAND" -> <<op, n \div 2^23, (n \div 2^22) % 2, n % 2^16, imm[1], imm[2]>>
      [] OTHER -> <<"LONG", word>>
Decoded(lc, word, imm) ==
    LET op == Mnemonic(word)
        n  == word[2]
        branch(width) == lc + 4 * SignedField(n, width)
    IN  CASE op \in {"NOP", "TRAP", "RET"} -> <<op>>
          [] op = "HOOKI" -> <<op, n, imm>>
          [] op = "WAITS" -> IF n = 0 THEN <<"HALT">> ELSE <<op, n>>
          [] op \in {"BRA", "BSR", "LOOP"} -> <<op, branch(24)>>
          [] op \in {"BRAZ", "BRANZ"} -> <<op, FieldR0(n), branch(20)>>
          [] op \in {"CMPIBRAEQ", "CMPIBRANE", "CMPIBSREQ"} -> <<op, "D0", branch(24), imm>>
          [] op = "BRAI" -> <<"BRAIA", imm[1][2] % 2^16, imm[2]>>
          [] op \in {"BRAD", "BSRD"} -> <<op, FieldR0(n)>>
          [] op \in {"ANDI", "ORI", "XORI"} -> <<op, FieldR0(n), FieldR1(n), imm>>
          [] op \in {"AND", "OR", "XOR", "ADD", "SUB"} -> <<op, FieldR0(n), "D0", "D1">>
          [] op \in {"ADDS", "SUBS"} -> <<op, FieldR0(n), FieldR0(n), SignedField(n, 16)>>
          [] op \in {"NEG", "MR"} -> <<op, FieldR0(n), FieldR1(n)>>
          [] op = "ROLS" -> <<op, FieldR0(n), FieldR1(n), SignedField(n, 16)>>
          [] OTHER -> DecodedMove(op, word, imm)

(***************************************************************************)
(* One step of the disassembler: the error, how far the context goes, and  *)
(* the text.  After an error the context is what it was.                   *)
(***************************************************************************)
Stuck(error) == [error |-> error, bytes |-> 0, text |-> <<>>]
Text ==
    LET word == WordAt(memory, ctx)
        long == IsLong(word)
        known == Mnemonic(word) # "UNKNOWN"
        imm == IF ctx.remaining < 12 THEN <<>> ELSE <<memory[ctx.used \div 4 + 1], memory[ctx.used \div 4 + 2]>>
        bytes == IF known /\ long THEN 12 ELSE 4
    IN  IF Allocation(ctx, 4) # "OK" THEN Stuck(Allocation(ctx, 4))
        ELSE IF known /\ long /\ ctx.remaining < 12 THEN Stuck("NO_MEMORY")
        ELSE IF ~ known /\ "DISASSEMBLE_UNKNOWN" \notin ctx.options THEN Stuck("UNKNOWN_OPCODE")
        ELSE IF "CHECK_PARITY" \in ctx.options
                /\ Parity(<<word>> \o (IF bytes = 12 THEN imm ELSE <<>>)) # 1 THEN Stuck("PARITY_ERROR")
        ELSE [error |-> "OK", bytes |-> bytes, text |-> Decoded(ctx.lc, word, imm)]
Piece ==
    LET word == WordAt(memory, ctx)
    IN  IF ctx.remaining = 0 THEN Stuck("NO_MEMORY")
        ELSE IF ctx.remaining < 4 \/ ctx.lc % 4 # 0
             THEN [error |-> "OK", bytes |-> 1, text |-> <<"BYTE", word, ctx.used % 4>>]
        ELSE IF "8_BYTE_DATA" \in ctx.options /\ ctx.remaining >= 8 /\ ctx.lc % 8 = 0
             THEN [error |-> "OK", bytes |-> 8, text |-> <<"QUAD", word, memory[ctx.used \div 4 + 1]>>]
        ELSE [error |-> "OK", bytes |-> 4, text |-> <<"LONG", word>>]

DataMode == "DISASSEMBLE_DATA" \in ctx.options
Disassembled ==
    LET next == IF DataMode THEN Piece ELSE Text
    IN  /\ ctx' = IF next.error = "OK" THEN [ContextBump(ctx, next.bytes) EXCEPT !.error = "OK"]
                  ELSE [ctx EXCEPT !.error = next.error]
        /\ listing' = IF next.error = "OK" THEN Append(listing, [lc |-> ctx.lc, call |-> next.text]) ELSE listing

(***************************************************************************)
(* The session: the context is rewound to be read, or another one is       *)
(* created on what has been assembled, on less of it or on more.           *)
(***************************************************************************)
Edit(A) == ~ reading /\ A /\ UNCHANGED <<listing, reading>>
Begin(c) == ctx' = c /\ listing' = <<>> /\ reading' = TRUE /\ UNCHANGED <<memory, program>>
Rewind == ~ reading /\ program # <<>> /\ ctx.remaining <= ctx.size /\ Begin(Excursion(ctx))
Open ==
    /\ ~ reading /\ program # <<>>
    /\ \E r \in Readings : LET size == ctx.used + r.more
                           IN  /\ size \in 0 .. ctx.size
                               /\ Begin(ContextCreate(ctx, ctx.base, size, ctx.original_lc,
                                         r.options \cup (ctx.options \cap {"GENERATE_PARITY"})))
Disassemble == reading /\ ctx.error = "OK" /\ Disassembled /\ UNCHANGED <<memory, program, reading>>
Reuse == reading /\ Restart /\ reading' = FALSE /\ listing' = <<>>

DisassemblerInit ==
    /\ ctx = Context
    /\ memory = Blank
    /\ program = <<>> /\ listing = <<>> /\ reading = FALSE
DisassemblerNext ==
    Edit(Create) \/ Edit(Assemble) \/ Edit(Fixup) \/ Edit(Restart)
    \/ Rewind \/ Open \/ Disassemble \/ Reuse

-----------------------------------------------------------------------------
(***************************************************************************)
(* What the listing of a program is.  The distance of BRAZ and BRANZ is    *)
(* checked against more bits than the instruction has: where it does not   *)
(* fit, the instruction that was assembled goes elsewhere.                 *)
(***************************************************************************)
Fits(e) == e.call[1] \in {"BRAZ", "BRANZ"} => Signed(Offset(e.lc, e.call[3]), 20)
Meant(e) ==
    [e EXCEPT !.call =
        CASE e.call[1] \in {"LD", "STD", "LDANDI"} /\ e.call[4] \in Pervasive -> [e.call EXCEPT ![3] = @ % 2^20]
          [] e.call[1] = "STI" /\ e.call[3] \in Pervasive -> [e.call EXCEPT ![2] = @ % 2^20]
          [] OTHER -> e.call]

(* The disassembly of a memory is the program that was assembled into it,  *)
(* instruction by instruction, and stops at none of those that are whole   *)
(* in the memory it was given: no word of theirs is unknown, and none has  *)
(* the wrong parity if the parity was generated.                           *)
Whole(e) ==
    LET at == e.lc - ctx.original_lc
    IN  at + (IF IsLong(memory[at \div 4]) THEN 12 ELSE 4) <= ctx.size
ListingIsProgram ==
    reading /\ ~ DataMode =>
        /\ ctx.error # "ALIGNMENT_ERROR"
        /\ \A k \in DOMAIN program :
              /\ k \in DOMAIN listing =>
                    /\ listing[k].lc = program[k].lc
                    /\ Fits(program[k]) => listing[k] = Meant(program[k])
              /\ \/ ctx.error \in {"NO_MEMORY", "UNKNOWN_OPCODE"}
                 \/ ctx.error = "PARITY_ERROR" /\ "GENERATE_PARITY" \in ctx.options
                 => (Whole(program[k]) => k \in DOMAIN listing)
=============================================================================
