------------------------------ MODULE SlwTable ------------------------------
(***************************************************************************)
(* The section .slw of an image (p8_pore_table_gen_api_fixed.C and the     *)
(* creation of the section in p8_image_help.C): the RAM tables, which      *)
(* restore registers of a core, and the SCOM tables, PORE subroutines that *)
(* restore its SCOM registers in three parts, when it leaves deep idle.    *)
(*                                                                         *)
(* Here a cell holds one entry of a table, 16 bytes in the image.          *)
(***************************************************************************)
EXTENDS RingBlock, FiniteSets

CONSTANTS
    Cores,         \* SLW_MAX_CORES
    RamOps,        \* SLW_MAX_CPUREGS_OPS, the entries of a core's RAM table
    ScomOps,       \* <<SLW_MAX_SCOMS_NC, _L2, _L3>>
    CoreRegs,      \* the core's registers of SLW_SPR_REGS
    ThreadRegs,    \* those of its threads: HSPRG0, LPCR and MSR
    Threads,       \* SLW_CORE_THREADS
    SlwAlignment,  \* the alignment of .slw: 128 bytes
    FfdcSize,      \* FIXED_FFDC_SECTION_SIZE
    FixedSize,     \* FIXED_SLW_IMAGE_SIZE
    RamVector,     \* the address of slw_host_reg_vector, one pointer per core
    ScomVectors    \* the addresses of slw_host_scom_nc_vector, _l2_ and _l3_

CoreIds == 0 .. Cores - 1
Parts == {1, 2, 3}   \* P8_SCOM_SECTION_NC, _L2 and _L3, plus one
RamSpace == RamOps   \* SLW_RAM_TABLE_SPACE_PER_CORE
ScomSpace(part) == ScomOps[part] + 1
PartStart(part) ==
    Cores * (RamSpace + (IF part > 1 THEN ScomSpace(1) ELSE 0) + (IF part > 2 THEN ScomSpace(2) ELSE 0))
TableSize == PartStart(3) + Cores * ScomSpace(3)
SlwSize == Align(TableSize, SlwAlignment)

(* No two of the pointers are one.                                         *)
ASSUME SlwAssumption ==
    /\ {SLW, FIT, FFDC} \subseteq Sections /\ Zero = Word(0)
    /\ Cores \in Nat \ {0} /\ RamOps \in Nat \ {0} /\ ScomOps \in [Parts -> Nat] /\ SlwAlignment \in Nat \ {0}
    /\ Threads \in Nat /\ FfdcSize \in Nat /\ FixedSize \in 0 .. BufferSize
    /\ RamVector \in Nat /\ ScomVectors \in [Parts -> Nat]
    /\ \A part \in Parts, c, d \in CoreIds :
          /\ RamVector + c # ScomVectors[part] + d
          /\ \A p \in Parts \ {part} : ScomVectors[p] + c # ScomVectors[part] + d

RamTable(core) == RamSpace * core
ScomTable(core, part) == PartStart(part) + ScomSpace(part) * core

RamEntry(reg, thread, end, data) == [kind |-> "ram", reg |-> reg, thread |-> thread, end |-> end, data |-> data]
LsSti(core, addr, data) == [kind |-> "scom", chiplet |-> core + CidExLow, addr |-> addr, data |-> data]
RNNN == [kind |-> "ret"]
NNNN == [kind |-> "nop"]

-----------------------------------------------------------------------------
(***************************************************************************)
(* The sections of a fixed image.  append_empty_section: no room for the   *)
(* section, and for its alignment unless the image is of fixed size, is an *)
(* error, and a size of 0 is nothing to do.                                *)
(***************************************************************************)
AppendEmpty(img, max, s, size, fixed) ==
    LET estimate == img.size + size + (IF fixed THEN 0 ELSE SlwAlignment)
        r == DoAppend(img, s, [i \in 1 .. size |-> Zero], estimate)
    IN  IF size = 0 THEN Answer("OK", img)
        ELSE IF estimate > max THEN Answer("IMAGE_TOO_LARGE", img)
        ELSE IF r.rc # "OK" THEN Answer("IMAGE_ERROR", r.image)
        ELSE Validated(r.image)

Sized(img, s, size) == Answer(IF img.section[s].size = size THEN "OK" ELSE "SECTION_SIZING", img)
AppendSized(img, max, s, size, fixed) ==
    Then(AppendEmpty(img, max, s, size, fixed), LAMBDA i : Sized(i, s, size))

(* The SCOM tables are filled with RNNN, and the vectors with the tables'  *)
(* addresses; the ones of the RAM tables, whose memory is zero, only in a  *)
(* fixed image.                                                            *)
VectorCells(vector, first, space) ==
    [a \in (vector - LinkAddress) .. (vector - LinkAddress + Cores - 1) |->
        Word(first + space * (a + LinkAddress - vector))]
Laid(mem, cells) == [a \in DOMAIN mem |-> IF a \in DOMAIN cells THEN cells[a] ELSE mem[a]]

FillTables(img) ==
    LET start == img.section[SLW].offset
    IN  [img EXCEPT !.mem = [a \in DOMAIN @ |->
            IF a \in (start + PartStart(1)) .. (start + TableSize - 1) THEN RNNN ELSE @[a]]]
SetVectors(img) ==
    LET start == LinkAddress + img.section[SLW].offset
        one(mem, part) == Laid(mem, VectorCells(ScomVectors[part], start + PartStart(part), ScomSpace(part)))
    IN  [img EXCEPT !.mem = one(one(one(@, 1), 2), 3)]
SetRamVector(img) ==
    [img EXCEPT !.mem = Laid(@, VectorCells(RamVector, LinkAddress + img.section[SLW].offset, RamSpace))]

(* The vectors are found by their names.                                   *)
Symbols(img) == TOC \in Present(img)
Initialized(img) ==
    IF Symbols(img) THEN Answer("OK", SetVectors(FillTables(img)))
    ELSE Answer("KEYWORD_NOT_FOUND", FillTables(img))

(* initialize_slw_section                                                  *)
InitializeSlw(img, max) ==
    Then(AppendSized(img, max, SLW, SlwSize, FALSE), LAMBDA i : Initialized(i))

(* create_and_initialize_fixed_image: .fit fills the image up, so that     *)
(* .slw and .ffdc are where the firmware that uses them expects them.      *)
FitSize(img) == FixedSize - img.size - SlwSize - FfdcSize
CreateFixed(img) ==
    LET named(i) == Answer(IF Symbols(i) THEN "OK" ELSE "KEYWORD_NOT_FOUND", i)
    IN  IF FitSize(img) < 0 THEN Answer("SECTION_SIZING", img)
        ELSE Then(Then(Then(Then(Then(AppendSized(img, FixedSize, FIT, FitSize(img), TRUE),
            LAMBDA i : AppendSized(i, FixedSize, SLW, SlwSize, TRUE)),
            LAMBDA i : AppendSized(i, FixedSize, FFDC, FfdcSize, TRUE)),
            LAMBDA i : named(i)),
            LAMBDA i : Answer("OK", SetRamVector(i))),
            LAMBDA i : Initialized(i))

-----------------------------------------------------------------------------
(***************************************************************************)
(* Where a call finds the tables: at the fixed place (modes IPL and        *)
(* REBUILD), which must be where the image has them, or by the image (mode *)
(* SRAM).                                                                  *)
(***************************************************************************)
FixedSlw == FixedSize - FfdcSize - SlwSize
SlwCheck(img, mode) ==
    IF mode # "SRAM" /\ img.section[SLW].offset # FixedSlw THEN "HDRS_NOT_SYNCED"
    ELSE IF img.section[SLW].size # SlwSize THEN "HDRS_NOT_SYNCED" ELSE "OK"

VectorWord(img, vector, core) == Pointer(img, vector + core)

Put(img, at, cell) == [img EXCEPT !.mem[at] = cell]

(***************************************************************************)
(* p8_pore_gen_cpureg_fixed.  Only a register of a thread has one.  The    *)
(* last entry of a table has the end bit, and a table without an entry is  *)
(* new; a register that is in it is replaced.                              *)
(***************************************************************************)
RamCheck(reg, core, thread) ==
    IF reg \notin CoreRegs \cup ThreadRegs \/ core >= Cores
       \/ (reg \in ThreadRegs /\ thread >= Threads) THEN "INVALID_PARM" ELSE "OK"

IsNew(img, mode, core) ==
    IF mode = "SRAM" THEN VectorWord(img, RamVector, core) = 0
    ELSE img.mem[FixedSlw + RamTable(core)] = Zero
TableAt(img, mode, core) ==
    IF mode = "SRAM" /\ ~ IsNew(img, mode, core) THEN VectorWord(img, RamVector, core) - LinkAddress
    ELSE img.section[SLW].offset + RamTable(core)

IsFor(cell, reg, thread) == cell # Zero /\ cell.reg = reg /\ cell.thread = thread
Ends(cell) == cell # Zero /\ cell.end

(* The entries up to the first with the end bit, as far as RamOps.         *)
Ended(img, at) == {k \in 0 .. RamOps - 1 : Ends(img.mem[at + k])}
LastEntry(img, at) == CHOOSE k \in Ended(img, at) : \A j \in Ended(img, at) : k <= j
Replaced(img, at, reg, thread) ==
    {k \in 0 .. RamOps - 1 : /\ \A j \in 0 .. k - 1 : ~ Ends(img.mem[at + j])
                             /\ k < RamOps - 1 \/ Ends(img.mem[at + k])
                             /\ IsFor(img.mem[at + k], reg, thread)}

NewTable(img, mode, core, entry) ==
    LET at == TableAt(img, mode, core)
        vectored == IF mode = "SRAM"
                    THEN Put(img, RamVector - LinkAddress + core, Word(LinkAddress + at)) ELSE img
    IN  Answer(IF img.mem[at] = Zero THEN "OK" ELSE "WARN_CONTAMINATION",
               Put(vectored, at, [entry EXCEPT !.end = TRUE]))
OldTable(img, at, entry) ==
    LET hit  == Replaced(img, at, entry.reg, entry.thread)
        k    == CHOOSE j \in hit : \A i \in hit : j <= i
        last == LastEntry(img, at)
    IN  IF hit # {} THEN Answer("OK", Put(img, at + k, [entry EXCEPT !.end = img.mem[at + k].end]))
        ELSE IF Ended(img, at) = {} THEN Answer("TABLE_END_NOT_FOUND", img)
        ELSE IF last + 1 >= RamOps THEN Answer("TABLE_FULL", img)
        ELSE Answer("OK", Put(Put(img, at + last, [img.mem[at + last] EXCEPT !.end = FALSE]),
                              at + last + 1, [entry EXCEPT !.end = TRUE]))

GenCpuReg(img, mode, reg, data, core, thread) ==
    LET entry == RamEntry(reg, IF reg \in ThreadRegs THEN thread ELSE 0, FALSE, data)
    IN  IF RamCheck(reg, core, thread) # "OK" THEN Answer("INVALID_PARM", img)
        ELSE IF SlwCheck(img, mode) # "OK" THEN Answer("HDRS_NOT_SYNCED", img)
        ELSE IF IsNew(img, mode, core) THEN NewTable(img, mode, core, entry)
        ELSE OldTable(img, TableAt(img, mode, core), entry)

-----------------------------------------------------------------------------
(***************************************************************************)
(* p8_pore_gen_scom_fixed.  The search passes the entries up to the first  *)
(* RET, for the first of that address and the first NOP.                   *)
(***************************************************************************)
Operations == {"APPEND", "REPLACE", "OR", "AND", "NOOP", "RESET", "OR_APPEND", "AND_APPEND"}

ScomAt(img, mode, core, part) ==
    IF mode = "SRAM" THEN VectorWord(img, ScomVectors[part], core) - LinkAddress
    ELSE img.section[SLW].offset + ScomTable(core, part)

(* The number of entries up to the first RET.                              *)
EntriesCount(img, at) ==
    CHOOSE n \in 0 .. BufferSize - at : /\ img.mem[at + n] = RNNN
                                        /\ \A k \in 0 .. n - 1 : img.mem[at + k] # RNNN
FirstOf(img, at, Is(_)) ==
    LET found == {k \in 0 .. EntriesCount(img, at) - 1 : Is(img.mem[at + k])}
    IN  IF found = {} THEN -1 ELSE CHOOSE k \in found : \A j \in found : k <= j
EntryMatch(img, at, addr) == FirstOf(img, at, LAMBDA e : e.kind = "scom" /\ e.addr = addr)
EntryNOP(img, at) == FirstOf(img, at, LAMBDA e : e = NNNN)

Translated(operation, match) ==
    CASE operation = "REPLACE" -> IF match >= 0 THEN "REPLACE" ELSE "APPEND"
      [] operation = "OR_APPEND" -> IF match >= 0 THEN "OR" ELSE "APPEND"
      [] operation = "AND_APPEND" -> IF match >= 0 THEN "AND" ELSE "APPEND"
      [] OTHER -> operation

MutantOverrun(operation, count, nop, part) == count > ScomOps[part]
Overrun(operation, count, nop, part) ==
    \/ operation = "APPEND" /\ count = ScomOps[part] /\ nop < 0
    \/ count > ScomOps[part]

Insert(img, at, operation, iis) ==
    LET count == EntriesCount(img, at)
        match == EntryMatch(img, at, iis.addr)
        nop   == EntryNOP(img, at)
        over(data) == Answer("OK", Put(img, at + match, [img.mem[at + match] EXCEPT !.data = data]))
    IN  CASE operation = "APPEND" -> Answer("OK", Put(img, at + (IF nop >= 0 THEN nop ELSE count), iis))
          [] operation = "RESET" -> Answer("OK", [img EXCEPT !.mem =
                [a \in DOMAIN @ |-> IF a \in at .. at + count - 1 THEN RNNN ELSE @[a]]])
          [] operation \in {"NOOP", "OR", "AND"} /\ match < 0 -> Answer("SCOM_ENTRY_NOT_FOUND", img)
          [] operation = "REPLACE" -> Answer("OK", Put(img, at + match, iis))
          [] operation = "NOOP" /\ match >= 0 -> Answer("OK", Put(img, at + match, NNNN))
          [] operation = "OR" /\ match >= 0 -> over(img.mem[at + match].data \cup iis.data)
          [] operation = "AND" /\ match >= 0 -> over(img.mem[at + match].data \cap iis.data)

GenScom(img, mode, addr, core, data, operation, part) ==
    LET at    == ScomAt(img, mode, core, part)
        match == EntryMatch(img, at, addr)
        op    == Translated(operation, match)
    IN  IF core >= Cores THEN Answer("INVALID_PARM", img)
        ELSE IF SlwCheck(img, mode) # "OK" THEN Answer("HDRS_NOT_SYNCED", img)
        ELSE IF part \notin Parts THEN Answer("INVALID_SUBSECTION", img)
        ELSE IF Overrun(op, EntriesCount(img, at), EntryNOP(img, at), part) THEN Answer("CHECK_CODE", img)
        ELSE Insert(img, at, op, LsSti(core, addr, data))
=============================================================================
