----------------------------- MODULE ImageBuild -----------------------------
(***************************************************************************)
(* Images for a chip, built from the reference image: p8_ipl_build keeps   *)
(* the rings of one DD level for the IPL, p8_centaur_build makes programs  *)
(* of them; the SLW image is customised and fixed by calls of              *)
(* p8_image_help, and its tables are filled by the calls of SlwTable.      *)
(*                                                                         *)
(* The variables image and call of XipImage are the built image and the    *)
(* last call on it; the model follows the file until an image is built.    *)
(***************************************************************************)
EXTENDS DeltaScan, SlwTable, SequencesExt

CONSTANTS
    DdLevels,      \* the levels images are built for
    VpdRings,      \* the rings a chip's VPD brings
    Program,       \* data -> the wiggle-flip program of a ring
    MaxAlign,      \* SBE_XIP_MAX_SECTION_ALIGNMENT
    CentaurMax,    \* SIZE_IMAGE_CENTAUR_MAX
    RamRequests,   \* calls of p8_pore_gen_cpureg_fixed
    ScomRequests,  \* calls of p8_pore_gen_scom_fixed
    FullTables,    \* a bound: the rings in the file when tables are filled
    FullRams,      \* a bound: the RAM entries when SCOM calls begin
    FullVpd,       \* a bound: the VPD rings of a built image
    RuntimeScom    \* <<slot, value>>: host_runtime_scom, and sub_slw_runtime_scom's address

VARIABLES
    ref,     \* the reference image the build has read
    build,   \* what was built: its kind and level, and the VPD rings in it
    rams,    \* what the calls on the RAM tables ask for
    scoms    \* what the calls on the SCOM tables ask for
tableVars == <<rams, scoms>>
buildVars == <<image, call, ref, build, tableVars>>

(* The addresses of the pointers that calls on an image set.               *)
TablePointers ==
    {RamVector + core : core \in CoreIds} \cup {ScomVectors[part] + core : part \in Parts, core \in CoreIds}
Cell(address) == address - LinkAddress
InSection(img, s, a) == a \in img.section[s].offset .. End(img.section[s]) - 1

(* The sections that p8_ipl_build drops.                                   *)
DATA == 6
PIBMEM0 == 10
Unnecessary == <<DCRINGS, RINGS, PIBMEM0, HALT, STRINGS, TOC, DATA, TEXT>>

(* In the reference image the pointers are data of sections that rings do  *)
(* not go to, those of the RAM tables are zero, and the sections of an SLW *)
(* image are not there yet.  The slots of rings are in .ipl_data, and the  *)
(* programs' pointers are none of them.                                    *)
ASSUME BuildAssumption ==
    /\ MaxAlign \in Nat /\ RuntimeScom[1] \in Nat /\ RuntimeScom[1] \notin TablePointers /\ CentaurMax \in 0 .. BufferSize
    /\ \A req \in Requests : req.data \in DOMAIN Program
    /\ \A data \in DOMAIN Program : Program[data] \in Seq(Nat)
    /\ VpdRings \subseteq [name : {n \in RingName : VpdType(n) # "none"}, chiplet : Nat, data : Seq(Nat),
                         raw : Nat, program : Seq(Nat), worst : Nat]
    /\ RamRequests \subseteq [reg : STRING, core : Nat, thread : Nat, data : Nat]
    /\ ScomRequests \subseteq
          [operation : Operations, core : Nat, part : Nat, addr : Nat, data : SUBSET Nat]
    /\ \A img \in Images :
          /\ {SLW, FIT, FFDC} \cap Present(img) = {}
          /\ \A p \in TablePointers \cup {RuntimeScom[1]} : \E s \in Present(img) \ RingSections : InSection(img, s, Cell(p))
          /\ \A core \in CoreIds : img.mem[Cell(RamVector + core)] = Word(0)
          /\ \A name \in RingName : \A i \in 0 .. Elements(name) - 1 :
                \E s \in Present(img) : /\ s \notin {Unnecessary[k] : k \in DOMAIN Unnecessary}
                                        /\ InSection(img, s, Cell(SlotOf[name] + i))
    /\ {Unnecessary[k] : k \in DOMAIN Unnecessary} \subseteq Sections
    /\ \A name \in RingName : \A i \in 0 .. Elements(name) - 1 :
          SlotOf[name] + i \notin TablePointers \cup {RuntimeScom[1]}

NoImage == 0
NoBuild == [kind |-> "none", dd |-> 0, vpd |-> 0, ready |-> FALSE]

-----------------------------------------------------------------------------
(***************************************************************************)
(* The loop of a build: each next ring of the section that matches is      *)
(* added, until there is none or adding one fails.  A search cannot find   *)
(* more rings than there are cells.                                        *)
(***************************************************************************)
NextRing(a, found, more) ==
    CASE a.rc # "OK" \/ a.done -> a
      [] a.rc = "OK" /\ ~ a.done /\ found.rc = "NO_MATCH" -> [a EXCEPT !.done = TRUE]
      [] a.rc = "OK" /\ ~ a.done /\ found.rc \in {"MATCH", "EXHAUST_MATCH"}
            -> [rc |-> more.rc, image |-> more.image, next |-> found.next, done |-> found.rc # "MATCH"]
      [] OTHER -> [a EXCEPT !.rc = "INCOMPLETE_IMG_BUILD"]
AtFirst(img) == [rc |-> "OK", image |-> img, next |-> 0, done |-> FALSE]

Delete(img, s) == Mapped(Then(DoDelete(img, s), Validated), LAMBDA rc : "SECTION_DELETE")
Deleted(img, sections) ==
    LET after[k \in 0 .. Len(sections)] ==
            IF k = 0 THEN Answer("OK", img) ELSE Then(after[k - 1], LAMBDA i : Delete(i, sections[k]))
    IN  after[Len(sections)]

(***************************************************************************)
(* p8_ipl_build: without the sections the IPL does not need; .pibmem0 and  *)
(* the rings of the level come back.                                       *)
(***************************************************************************)
BringBack(img, from) ==
    LET r == DoAppend(img, PIBMEM0, Contents(from, PIBMEM0), from.size)
    IN  Mapped(Answer(r.rc, r.image), LAMBDA rc : "APPEND")
CopyRing(img, from, at, s) ==
    Mapped(WriteRingBlock(img, NoName, Block(from, at), 0, 0, 0, from.size, s, RingBuffer),
           LAMBDA rc : "RING_WRITE_TO_IMAGE")
CopyTurn(a, from, dd, phase, s) ==
    LET found == GetRingLayout2(from, dd, phase, a.next, s)
    IN  NextRing(a, found, CopyRing(a.image, from, found.at, s))
CopiedIn(img, from, dd, phase, s) ==
    LET after[k \in 0 .. BufferSize] ==
            IF k = 0 THEN AtFirst(img) ELSE CopyTurn(after[k - 1], from, dd, phase, s)
    IN  Answer(after[BufferSize].rc, after[BufferSize].image)
MutantCopied(img, from, dd, s) == CopiedIn(img, from, dd, 1, s)
Copied(img, from, dd, s) == CopiedIn(img, from, dd, 0, s)
IplBuild(from, dd) ==
    Then(Then(Then(Deleted(from, Unnecessary), LAMBDA i : BringBack(i, from)),
        LAMBDA i : Copied(i, from, dd, RINGS)),
        LAMBDA i : Copied(i, from, dd, DCRINGS))

(***************************************************************************)
(* p8_centaur_build: only .rings goes, and comes back as programs.  The    *)
(* SLW image drops .dcrings too, and has the programs of phase 1.          *)
(***************************************************************************)
ProgramRing(img, from, at, max) ==
    WriteWiggleFlip(img, max, [back |-> from.mem[at].back],
        Program[[k \in 1 .. from.mem[at].size - 1 |-> from.mem[at + k].data]], MaxAlign)
ProgramTurn(a, from, dd, phase, max) ==
    LET found == GetRingLayout2(from, dd, phase, a.next, RINGS)
    IN  NextRing(a, found, ProgramRing(a.image, from, found.at, max))
Programs(img, from, dd, phase, max) ==
    LET after[k \in 0 .. BufferSize] ==
            IF k = 0 THEN AtFirst(img) ELSE ProgramTurn(after[k - 1], from, dd, phase, max)
    IN  Answer(after[BufferSize].rc, after[BufferSize].image)
CentaurBuild(from, dd) == Then(Delete(from, RINGS), LAMBDA i : Programs(i, from, dd, 0, CentaurMax))
SlwBuild(from, dd) ==
    Then(Then(Delete(from, DCRINGS), LAMBDA i : Delete(i, RINGS)),
        LAMBDA i : Programs(i, from, dd, 1, FixedSize))

Built(kind, dd) ==
    CASE kind = "ipl" -> IplBuild(file.image, dd)
      [] kind = "centaur" -> CentaurBuild(file.image, dd)
      [] kind = "slw" -> SlwBuild(file.image, dd)

Build == \E dd \in DdLevels, kind \in {"ipl", "centaur", "slw"} :
    /\ build = NoBuild /\ (kind = "centaur" <=> chip = "centaur")
    /\ FileCheck(file) = "OK"
    /\ \E r \in {Built(kind, dd)} :
          /\ r.rc = "OK"
          /\ image' = r.image /\ ref' = file.image
          /\ build' = [kind |-> kind, dd |-> dd, vpd |-> 0, ready |-> FALSE]
          /\ call' = Call("build", HEADER, r.rc)
          /\ UNCHANGED <<tableVars, scanVars>>

-----------------------------------------------------------------------------
(***************************************************************************)
(* Calls on a built image.                                                 *)
(***************************************************************************)
VpdCode(r, name) ==
    /\ image' = r.image
    /\ call' = Call(name, RINGS, r.rc)
    /\ UNCHANGED <<ref, tableVars, scanVars>>

AddVpdIpl == \E ring \in VpdRings :
    /\ build.kind = "ipl" /\ build.vpd < FullVpd
    /\ VpdCode(WriteVpdRingIpl(image, ref.size, ring, build.dd, 0, ring.name, RINGS), "vpd")
    /\ build' = [build EXCEPT !.vpd = @ + 1]
AddVpdSlw == \E ring \in VpdRings :
    /\ build.kind = "slw" /\ build.vpd < FullVpd
    /\ VpdCode(WriteVpdRingSlw(image, FixedSize, ring, ring.name, VpdType(ring.name) = "R"), "vpd")
    /\ build' = [build EXCEPT !.vpd = @ + 1]

Fix ==
    /\ build.kind = "slw"
    /\ LET r == CreateFixed(image)
       IN  /\ VpdCode(r, "fixed")
           /\ build' = [build EXCEPT !.kind = IF r.rc = "OK" THEN "fixed" ELSE "failed"]
InitSlw ==
    /\ build.kind = "slw"
    /\ LET r == InitializeSlw(image, FixedSize)
       IN  /\ VpdCode(r, "sram")
           /\ build' = [build EXCEPT !.kind = IF r.rc = "OK" THEN "sram" ELSE "failed"]

(* update_runtime_scom_pointer: the function's address for the pointer     *)
(* that the programs of the image call.                                    *)
UpdateRuntimeScom ==
    /\ build.kind \in {"fixed", "sram"} /\ ~ build.ready /\ TOC \in Present(image)
    /\ VpdCode(Answer("OK", Put(image, RuntimeScom[1] - LinkAddress, Word(RuntimeScom[2]))), "runtime")
    /\ build' = [build EXCEPT !.ready = TRUE]

(* The tables: what a core is to restore, by table and address.  They are  *)
(* filled while no run is at work on the file: a bound.                    *)
With(asked, k, x) == [j \in DOMAIN asked \cup {k} |-> IF j = k THEN x ELSE asked[j]]
Filling ==
    /\ build.ready /\ build.vpd = 0
    /\ Len(added) <= FullTables /\ \A w \in Writers : writer[w].pc = "idle"
Mode == IF build.kind = "fixed" THEN {"IPL", "SRAM"} ELSE {"SRAM"}

FillRam == \E q \in RamRequests, mode \in Mode :
    LET r == GenCpuReg(image, mode, q.reg, q.data, q.core, q.thread)
        k == <<q.core, q.reg, IF q.reg \in ThreadRegs THEN q.thread ELSE 0>>
    IN  /\ Filling /\ scoms = << >>
        /\ image' = r.image /\ call' = Call("ram", SLW, r.rc)
        /\ rams' = IF r.rc = "OK" THEN With(rams, k, q.data) ELSE rams
        /\ UNCHANGED <<ref, build, scoms, scanVars>>

(* The value the calls that have succeeded leave to be written to an       *)
(* address, as a set of at most one, unless a second entry for the address *)
(* has been appended.                                                      *)
Nothing == [value |-> {}, several |-> FALSE]
Asked(q, old) ==
    [several |-> old.several \/ (q.operation = "APPEND" /\ old.value # {}),
     value |-> CASE q.operation = "NOOP" -> {}
                 [] q.operation \in {"OR", "OR_APPEND"} /\ old.value # {} -> {d \cup q.data : d \in old.value}
                 [] q.operation \in {"AND", "AND_APPEND"} /\ old.value # {} -> {d \cap q.data : d \in old.value}
                 [] OTHER -> {q.data}]
FillScom == \E q \in ScomRequests, mode \in Mode :
    LET r   == GenScom(image, mode, q.addr, q.core, q.data, q.operation, q.part)
        k   == <<q.core, q.part, q.addr>>
        old == IF k \in DOMAIN scoms THEN scoms[k] ELSE Nothing
    IN  /\ Filling /\ Cardinality(DOMAIN rams) <= FullRams
        /\ image' = r.image /\ call' = Call("scom", SLW, r.rc)
        /\ scoms' = IF r.rc # "OK" THEN scoms
                    ELSE IF q.operation = "RESET"
                    THEN [j \in {i \in DOMAIN scoms : i[1] # q.core \/ i[2] # q.part} |-> scoms[j]]
                    ELSE With(scoms, k, Asked(q, old))
        /\ UNCHANGED <<ref, build, rams, scanVars>>

BuildInit ==
    /\ ScanInit
    /\ image = NoImage /\ ref = NoImage /\ build = NoBuild
    /\ call = Call("none", HEADER, "OK")
    /\ rams = << >> /\ scoms = << >>
BuildNext ==
    \/ build = NoBuild /\ ScanNext /\ UNCHANGED buildVars
    \/ Build \/ AddVpdIpl \/ AddVpdSlw \/ Fix \/ InitSlw \/ UpdateRuntimeScom
    \/ FillRam \/ FillScom
BuildSpec == BuildInit /\ [][BuildNext]_<<scanVars, buildVars>>

-----------------------------------------------------------------------------
SlotsOf(names) == UNION {SlotOf[n] .. SlotOf[n] + Elements(n) - 1 : n \in names}
Chosen(slot) == {at \in Blocks(ref, RINGS) :
    /\ ref.mem[at].back = slot
    /\ Matches(ref.mem[at], build.dd, IF build.kind \in {"ipl", "centaur"} THEN 0 ELSE 1)}

(* In a built image each slot that is not of the VPD leads to the ring     *)
(* that was added last for it and the level and phase of the image, and in *)
(* a P8 image it is zero when there is none: rings are selected, copied or *)
(* compiled, moved by .dcrings and VPD rings, and addressed through it all.*)
LastRingWins ==
    build.kind \in {"ipl", "slw", "fixed", "sram", "centaur"} =>
        \A slot \in SlotsOf({n \in RingName : VpdType(n) = "none"}) :
            LET all  == Chosen(slot)
                last == CHOOSE at \in all : \A b \in all : b <= at
            IN  IF all = {} THEN build.kind # "centaur" => Pointer(image, slot) = 0
                ELSE /\ Pointer(image, slot) - LinkAddress \in Blocks(image, RINGS)
                     /\ DataAt(image, Pointer(image, slot) - LinkAddress)
                           = IF build.kind = "ipl" THEN DataAt(ref, last) ELSE Program[DataAt(ref, last)]

(* Every forward pointer of a built P8 image, the VPD's vectors included,  *)
(* leads to a block that points back to its slot.                          *)
AllLead ==
    build.kind \in {"ipl", "slw", "fixed", "sram"} => \A slot \in SlotsOf(RingName) : Leads(image, slot)

(* However many rings it holds, a fixed image has .slw at the fixed place  *)
(* the tables' calls and the firmware compute, and the vectors agree.      *)
FixedPlaces ==
    build.kind = "fixed" =>
        /\ image.size = FixedSize /\ image.section[SLW].offset = FixedSlw
        /\ \A core \in CoreIds :
              /\ VectorWord(image, RamVector, core) = LinkAddress + FixedSlw + RamTable(core)
              /\ \A part \in Parts : ScomAt(image, "SRAM", core, part) = ScomAt(image, "IPL", core, part)
        /\ call.op \in {"ram", "scom"} => call.rc # "HDRS_NOT_SYNCED"

(* The program of a core and part ends within its own space, and writes    *)
(* what the calls asked for, to the registers of that core.                *)
Run(core, part) == LET at == ScomAt(image, "SRAM", core, part)
                   IN  [k \in 1 .. EntriesCount(image, at) |-> image.mem[at + k - 1]]
ScomsApply ==
    build.kind \in {"fixed", "sram"} => \A core \in CoreIds, part \in Parts :
        LET run == Run(core, part)
        IN  /\ Len(run) < ScomSpace(part)
            /\ \A k \in DOMAIN run : run[k] # NNNN => run[k].chiplet = core + CidExLow
            /\ \A key \in DOMAIN scoms : key[1] = core /\ key[2] = part /\ ~ scoms[key].several =>
                  {run[k].data : k \in {j \in DOMAIN run : run[j] # NNNN /\ run[j].addr = key[3]}} = scoms[key].value

(* A core's RAM table ends with its only end bit, within its space, and    *)
(* has each register and thread that was asked for once, with its last     *)
(* value.                                                                  *)
RamsApply ==
    build.kind \in {"fixed", "sram"} => \A core \in CoreIds :
        LET at    == image.section[SLW].offset + RamTable(core)
            asked == {k \in DOMAIN rams : k[1] = core}
            n     == Cardinality(asked)
        IN  /\ n <= RamOps
            /\ \A k \in 0 .. RamOps - 1 : Ends(image.mem[at + k]) <=> k = n - 1
            /\ {<<core, image.mem[at + k].reg, image.mem[at + k].thread, image.mem[at + k].data>> : k \in 0 .. n - 1}
                  = {<<core, k[2], k[3], rams[k]>> : k \in asked}

(* Every call that fills the SCOM and RAM tables leaves them where the     *)
(* firmware looks for them and such that running them writes what has been *)
(* asked for: p8_pore_gen_scom_fixed and p8_pore_gen_cpureg_fixed.         *)
TablesApply == FixedPlaces /\ ScomsApply /\ RamsApply
=============================================================================
