------------------------------ MODULE XipImage ------------------------------
(***************************************************************************)
(* The layout half of the SBE-XIP image library (sbe_xip_image.c): a       *)
(* buffer that holds the sections of an image one after the other, grown   *)
(* and shrunk only at its end.  Every published call is an operator on an  *)
(* image that yields its return code and the image it leaves; the ones     *)
(* that change an image are also actions.                                  *)
(*                                                                         *)
(* A cell of the buffer is one byte of code or data.  The structures of    *)
(* the library that lie in sections (a TOC entry, a string) take one cell  *)
(* each here; XipToc says what they hold.                                  *)
(***************************************************************************)
EXTENDS Integers, Sequences

CONSTANTS
    Sections,        \* the section table: 0 .. 15
    Cells,           \* what one cell of the buffer can hold
    Zero,            \* the cell memset writes
    Targets,         \* the sections a client appends to, deletes and copies
    Samples,         \* section -> the data a client appends to it: sequences of cells
    BufferSize,      \* the memory that holds the image
    Allocations,     \* the i_allocation arguments: at most BufferSize
    FinalAlignment,  \* SBE_XIP_FINAL_ALIGNMENT
    CodeAlignment,   \* the alignment of a PORE address: 4 bytes
    DataAlignment,   \* the size and the alignment of a doubleword: 8 bytes
    LinkAddress,     \* iv_linkAddress, its low 32 bits
    Images           \* the images the link editor produces

(* SBE_XIP_SECTION_*                                                       *)
HEADER == 0
FIXED == 1
FIXED_TOC == 2
TEXT == 5
TOC == 7
STRINGS == 8
HALT == 9
DCRINGS == 11
RINGS == 12
SLW == 13
FIT == 14
FFDC == 15

SectionEntry == [offset : Nat, size : Nat, alignment : Nat \ {0}]

(* SbeXipHeader, as far as calls depend on it, with the buffer it heads.   *)
Image == [mem : [0 .. BufferSize - 1 -> Cells], size : Nat, magic : BOOLEAN,
          section : [Sections -> SectionEntry],
          normalized : BOOLEAN, tocSorted : BOOLEAN]

ASSUME XipAssumption ==
    /\ Sections \subseteq Nat /\ {HEADER, TOC} \subseteq Sections
    /\ BufferSize \in Nat /\ Targets \subseteq Sections
    /\ FinalAlignment \in Nat \ {0} /\ CodeAlignment \in Nat \ {0} /\ DataAlignment \in Nat \ {0}
    /\ LinkAddress \in Nat
    /\ Zero \in Cells /\ Samples \in [Sections -> SUBSET Seq(Cells)]
    /\ Allocations \subseteq 0 .. BufferSize

VARIABLES
    image,  \* the image in host memory
    call    \* the last call: its name, section and return code
vars == <<image, call>>

-----------------------------------------------------------------------------
(***************************************************************************)
(* Local helpers.                                                          *)
(***************************************************************************)

(* The first multiple of a at or after n.                                  *)
Align(n, a) == IF n % a = 0 THEN n ELSE n + (a - (n % a))

(* An image pointer is good if the magic number and version are; most      *)
(* calls that change an image also require it to be normalized.            *)
QuickCheck(img, normalizationRequired) ==
    IF ~ img.magic THEN "IMAGE_ERROR"
    ELSE IF normalizationRequired /\ ~ img.normalized THEN "NOT_NORMALIZED" ELSE "OK"

Present(img) == {s \in Sections : img.section[s].size # 0}
End(sec) == sec.offset + sec.size

(* The section that starts last; the later one in the table if two do.     *)
MutantFinal(img, s) ==
    /\ s \in Present(img) /\ \A t \in Present(img) : s >= t
Final(img, s) ==
    /\ s \in Present(img)
    /\ \A t \in Present(img) : \/ img.section[t].offset < img.section[s].offset
                               \/ img.section[t].offset = img.section[s].offset /\ t <= s

(* Cells of data laid over memory from cell at on.                         *)
Overlay(mem, at, data) ==
    [i \in DOMAIN mem |-> IF i \in at .. at + Len(data) - 1 THEN data[i - at + 1] ELSE mem[i]]

(* xipPadImage's memset.                                                   *)
Clear(mem, from, upto) == [i \in DOMAIN mem |-> IF i \in from .. upto - 1 THEN Zero ELSE mem[i]]

Contents(img, s) ==
    [i \in 1 .. img.section[s].size |-> img.mem[img.section[s].offset + i - 1]]

-----------------------------------------------------------------------------
(***************************************************************************)
(* sbe_xip_append.  An empty section starts at the end of the image, padded *)
(* to the section's alignment; any other must be the final one, and loses  *)
(* the padding that follows it.  The data must fit, and then the final     *)
(* alignment must; a failure puts the section entry and the image size     *)
(* back, and leaves what has been written to memory.                       *)
(***************************************************************************)
AppendStart(img, s) ==
    IF s \in Present(img) THEN End(img.section[s]) ELSE Align(img.size, img.section[s].alignment)

PadFails(img, s, allocation) ==
    /\ s \notin Present(img)
    /\ AppendStart(img, s) # img.size /\ AppendStart(img, s) > allocation

AppendCheck(img, s, data, allocation) ==
    IF QuickCheck(img, TRUE) # "OK" THEN QuickCheck(img, TRUE)
    ELSE IF s \in Present(img) /\ ~ Final(img, s) THEN "SECTION_ERROR"
    ELSE IF PadFails(img, s, allocation) \/ AppendStart(img, s) + Len(data) > allocation THEN "WOULD_OVERFLOW"
    ELSE "OK"

Padded(img, s, allocation) ==
    IF s \in Present(img) \/ PadFails(img, s, allocation) THEN img.mem
    ELSE Clear(img.mem, img.size, AppendStart(img, s))

(* The special case at the end: an appended TOC is not sorted.             *)
MutantExtended(img, s, data) ==
    [img EXCEPT !.size = AppendStart(img, s) + Len(data),
                !.section[s] = [offset |-> IF s \in Present(img) THEN @.offset ELSE AppendStart(img, s),
                                size |-> @.size + Len(data), alignment |-> @.alignment],
                !.tocSorted = @ /\ s # TOC]
MutantStillSorted(img, s, data) ==
    [img EXCEPT !.size = Align(AppendStart(img, s) + Len(data), FinalAlignment),
                !.section[s] = [offset |-> IF s \in Present(img) THEN @.offset ELSE AppendStart(img, s),
                                size |-> @.size + Len(data), alignment |-> @.alignment]]
Extended(img, s, data) ==
    [img EXCEPT !.size = Align(AppendStart(img, s) + Len(data), FinalAlignment),
                !.section[s] = [offset |-> IF s \in Present(img) THEN @.offset ELSE AppendStart(img, s),
                                size |-> @.size + Len(data), alignment |-> @.alignment],
                !.tocSorted = @ /\ s # TOC]

MutantDoAppend(img, s, data, allocation) ==
    LET check   == AppendCheck(img, s, data, allocation)
        written == [img EXCEPT !.mem = Overlay(Padded(img, s, allocation), AppendStart(img, s), data)]
        answer(rc, img2) == [rc |-> rc, offset |-> img.section[s].size, image |-> img2]
    IN  CASE check = "OK" /\ data # << >> /\ Align(AppendStart(img, s) + Len(data), FinalAlignment) > allocation
                -> answer("WOULD_OVERFLOW", Extended(written, s, data))
          [] check = "OK" /\ data # << >> /\ Align(AppendStart(img, s) + Len(data), FinalAlignment) <= allocation
                -> answer("OK", Extended(written, s, data))
          [] OTHER -> answer(check, img)
DoAppend(img, s, data, allocation) ==
    LET check   == AppendCheck(img, s, data, allocation)
        fits    == Align(AppendStart(img, s) + Len(data), FinalAlignment) <= allocation
        written == [img EXCEPT !.mem = Overlay(Padded(img, s, allocation), AppendStart(img, s), data)]
        answer(rc, img2) == [rc |-> rc, offset |-> img.section[s].size, image |-> img2]
    IN  CASE QuickCheck(img, TRUE) = "OK" /\ data = << >> -> answer("OK", img)
          [] check = "WOULD_OVERFLOW" /\ data # << >>
                -> answer(check, [img EXCEPT !.mem = Padded(img, s, allocation)])
          [] check = "OK" /\ data # << >> /\ ~ fits -> answer("WOULD_OVERFLOW", written)
          [] check = "OK" /\ data # << >> /\ fits -> answer("OK", Extended(written, s, data))
          [] OTHER -> answer(check, img)

(***************************************************************************)
(* sbe_xip_delete_section: a NOP for an empty section, refused for any but *)
(* the final one; the padding before the deleted section goes with it.     *)
(* Deleting the only section there is deletes it and fails.                *)
(***************************************************************************)
Without(img, s) == [img EXCEPT !.section[s] = [offset |-> 0, size |-> 0, alignment |-> @.alignment]]
MutantTrimmed(img) ==
    LET last == CHOOSE t \in Sections : Final(img, t)
    IN  [img EXCEPT !.size = Align(img.section[last].size, FinalAlignment)]
Trimmed(img) ==
    LET last == CHOOSE t \in Sections : Final(img, t)
    IN  [img EXCEPT !.size = Align(End(img.section[last]), FinalAlignment)]

DoDelete(img, s) ==
    LET answer(rc, img2) == [rc |-> rc, image |-> img2]
    IN  CASE QuickCheck(img, TRUE) # "OK" -> answer(QuickCheck(img, TRUE), img)
          [] QuickCheck(img, TRUE) = "OK" /\ s \notin Present(img) -> answer("OK", img)
          [] QuickCheck(img, TRUE) = "OK" /\ s \in Present(img) /\ ~ Final(img, s)
                -> answer("SECTION_ERROR", img)
          [] QuickCheck(img, TRUE) = "OK" /\ Final(img, s) /\ Present(img) = {s}
                -> answer("IMAGE_ERROR", Without(img, s))
          [] OTHER -> answer("OK", Trimmed(Without(img, s)))

(* sbe_xip_duplicate_section: a copy of a section that is present, when    *)
(* malloc finds the memory.                                                *)
DuplicateAnswers(img, s) ==
    CASE QuickCheck(img, FALSE) # "OK" -> {[rc |-> QuickCheck(img, FALSE), data |-> << >>]}
      [] QuickCheck(img, FALSE) = "OK" /\ s \notin Present(img) -> {[rc |-> "SECTION_ERROR", data |-> << >>]}
      [] OTHER -> {[rc |-> "OK", data |-> Contents(img, s)], [rc |-> "NO_MEMORY", data |-> << >>]}

-----------------------------------------------------------------------------
(***************************************************************************)
(* Addresses: from a section and an offset to a PORE address, and back.    *)
(***************************************************************************)
InImage(img, address, size) ==
    address >= LinkAddress /\ address <= LinkAddress + img.size - size

(* sbe_xip_section2pore; the address is returned even if it is unaligned,  *)
(* and the bound is the image offset of the section's end.                 *)
Section2Pore(img, s, offset) ==
    LET address == LinkAddress + img.section[s].offset + offset
        rc == IF QuickCheck(img, FALSE) # "OK" THEN QuickCheck(img, FALSE)
              ELSE IF s \notin Present(img) THEN "SECTION_ERROR"
              ELSE IF offset > End(img.section[s]) THEN "INVALID_ARGUMENT"
              ELSE IF address % CodeAlignment # 0 THEN "ALIGNMENT_ERROR" ELSE "OK"
    IN  [rc |-> rc, address |-> address]

(* xipPore2Section: the first section of the table the address lies in.    *)
Holding(img, address) ==
    {s \in Present(img) : /\ address - LinkAddress >= img.section[s].offset
                          /\ address - LinkAddress < End(img.section[s])}
InFirst(img, address, holding) ==
    LET s == CHOOSE t \in holding : \A u \in holding : t <= u
    IN  CASE ~ InImage(img, address, 0) -> [rc |-> "INVALID_ARGUMENT", section |-> 0, offset |-> 0]
          [] InImage(img, address, 0) /\ holding = {} -> [rc |-> "IMAGE_ERROR", section |-> 0, offset |-> 0]
          [] OTHER -> [rc |-> "OK", section |-> s,
                       offset |-> address - LinkAddress - img.section[s].offset]
Pore2Section(img, address) == InFirst(img, address, Holding(img, address))

(* sbe_xip_pore2host and sbe_xip_host2pore; a host address is an index of  *)
(* the buffer.                                                             *)
Pore2Host(img, address) ==
    [rc |-> IF QuickCheck(img, FALSE) # "OK" THEN QuickCheck(img, FALSE)
            ELSE IF InImage(img, address, 0) THEN "OK" ELSE "INVALID_ARGUMENT",
     host |-> address - LinkAddress]
Host2Pore(img, host) ==
    [rc |-> IF QuickCheck(img, FALSE) # "OK" THEN QuickCheck(img, FALSE)
            ELSE IF host > img.size THEN "INVALID_ARGUMENT"
            ELSE IF (LinkAddress + host) % CodeAlignment # 0 THEN "ALIGNMENT_ERROR" ELSE "OK",
     address |-> LinkAddress + host]

(* The check of sbe_xip_read_uint64 and sbe_xip_write_uint64.              *)
DoublewordCheck(img, address) ==
    IF QuickCheck(img, FALSE) # "OK" THEN QuickCheck(img, FALSE)
    ELSE IF ~ InImage(img, address, DataAlignment) THEN "INVALID_ARGUMENT"
    ELSE IF address % DataAlignment # 0 THEN "ALIGNMENT_ERROR" ELSE "OK"
ReadDoubleword(img, address) ==
    [i \in 1 .. DataAlignment |-> img.mem[address - LinkAddress + i - 1]]
DoWriteDoubleword(img, address, data) ==
    [img EXCEPT !.mem = IF DoublewordCheck(img, address) = "OK"
                        THEN Overlay(@, address - LinkAddress, data) ELSE @]

-----------------------------------------------------------------------------
(***************************************************************************)
(* What sbe_xip_validate asks of the layout, in its order.                 *)
(***************************************************************************)
WithinImage(img, s) == End(img.section[s]) <= img.size
Aligned(img, s) == img.section[s].offset % img.section[s].alignment = 0

LayoutCheck(img, size, ignoreFileSize) ==
    IF QuickCheck(img, FALSE) # "OK" THEN QuickCheck(img, FALSE)
    ELSE IF img.size < img.section[HEADER].size \/ (img.size # size /\ ~ ignoreFileSize) THEN "IMAGE_ERROR"
    ELSE IF img.size % FinalAlignment # 0 THEN "ALIGNMENT_ERROR"
    ELSE IF \E s \in Sections : /\ ~ WithinImage(img, s)
                                /\ \A t \in Sections : t < s => Aligned(img, t) THEN "IMAGE_ERROR"
    ELSE IF \E s \in Sections : ~ Aligned(img, s) THEN "ALIGNMENT_ERROR" ELSE "OK"

-----------------------------------------------------------------------------
(***************************************************************************)
(* A client of the library.                                                *)
(***************************************************************************)
Call(op, s, rc) == [op |-> op, section |-> s, rc |-> rc]

Init ==
    /\ image \in Images
    /\ call = Call("none", HEADER, "OK")

AppendData(s, data, allocation) ==
    LET r == DoAppend(image, s, data, allocation)
    IN  image' = r.image /\ call' = Call("append", s, r.rc)

DeleteSection(s) ==
    LET r == DoDelete(image, s)
    IN  image' = r.image /\ call' = Call("delete", s, r.rc)

DuplicateSection(s) == \E r \in DuplicateAnswers(image, s) :
    call' = Call("duplicate", s, r.rc) /\ UNCHANGED image

WriteDoubleword(address, data) ==
    /\ image' = DoWriteDoubleword(image, address, data)
    /\ call' = Call("write", HEADER, DoublewordCheck(image, address))

LayoutNext ==
    \/ \E s \in Targets, allocation \in Allocations : \E data \in Samples[s] : AppendData(s, data, allocation)
    \/ \E s \in Targets : DeleteSection(s) \/ DuplicateSection(s)
LayoutSpec == Init /\ [][LayoutNext]_vars

-----------------------------------------------------------------------------
(* The type invariant of the library's two variables.                      *)
ImageTypeOK ==
    /\ image \in Image
    /\ image.size <= BufferSize
    /\ call.op \in {"none", "append", "delete", "duplicate", "write", "normalize", "set", "open"}

(* No two sections share a byte, each lies in the image, and the image in  *)
(* its buffer: what sbe_xip_append's arithmetic of starts, sizes, padding  *)
(* and restored entries must keep through any sequence of calls.           *)
DisjointIn(img) ==
    /\ img.size <= BufferSize
    /\ \A s \in Present(img) : WithinImage(img, s)
    /\ \A s, t \in Present(img) : s # t =>
          \/ End(img.section[s]) <= img.section[t].offset
          \/ End(img.section[t]) <= img.section[s].offset
Disjoint == DisjointIn(image)

(* The link editor lays the sections out one after the other, and pads the *)
(* image to its final alignment.                                           *)
LaidOut(img) == img \in Image /\ DisjointIn(img) /\ img.size % FinalAlignment = 0
ASSUME ImagesAssumption == \A img \in Images : LaidOut(img)

(* A call of the layout API leaves the contents of every section but its   *)
(* own as they were, whatever it answers (sbe_xip_append copies, pads and  *)
(* moves the end of the image, sbe_xip_delete_section cuts it): another    *)
(* section is never overwritten by data or by padding.                     *)
OthersKept(img, img2, s) ==
    \A t \in Sections \ {s} : /\ img2.section[t] = img.section[t]
                              /\ Contents(img2, t) = Contents(img, t)
OthersUntouched ==
    [][call'.op \in {"append", "delete"} => OthersKept(image, image', call'.section)]_vars

(* A call that fails leaves the image as it was, but for bytes beyond its  *)
(* sections (sbe_xip_append restores the entry and the size; a delete that *)
(* leaves nothing is the exception).                                       *)
Restored(img, img2) ==
    /\ img2.size = img.size /\ img2.section = img.section
    /\ \A t \in Sections : Contents(img2, t) = Contents(img, t)
FailureRestores ==
    [][call'.op \in {"append", "delete"} /\ call'.rc \notin {"OK", "IMAGE_ERROR"} =>
          Restored(image, image')]_vars

(* The image as its users see it.                                          *)
ContentsOf(img) == [s \in Sections |-> Contents(img, s)]
BelowIn(img) == {p \in Present(img) \X Present(img) : img.section[p[1]].offset < img.section[p[2]].offset}
Stack == INSTANCE SectionStack WITH
    Data <- Cells, Appends <- (UNION {Samples[s] : s \in Sections}) \ {<< >>},
    contents <- ContentsOf(image), below <- BelowIn(image)
ImplementsStack == Stack!StackSpec
=============================================================================
