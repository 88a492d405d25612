------------------------------ MODULE RingBlock ------------------------------
(***************************************************************************)
(* Ring blocks in an SBE-XIP image (p8_image_help_base.C, and the writers  *)
(* of p8_image_help.C): a section .rings or .dcrings is a sequence of      *)
(* blocks, each with a header that names the slot of its forward pointer   *)
(* (backItemPtr), and the slot holds the block's address.                  *)
(*                                                                         *)
(* A cell is 8 bytes: a number (a forward pointer, a vector's entry), the  *)
(* header of a block, or a part of its code and data.  Blocks, entries and *)
(* sections are multiples of 8 bytes in all programs of the repository, so *)
(* that every alignment is one cell.                                       *)
(***************************************************************************)
EXTENDS XipImage

CONSTANTS
    RingName,      \* the names of rings in the TOC
    SlotOf,        \* name -> the address of its first forward pointer
    FixedNames,    \* the names in .fixed_toc
    VpdG, VpdR,    \* RING_ID_LIST_PG and _PR: name -> its range of chiplets
    CidExLow, CidExHigh,  \* CID_EX_LOW and CID_EX_HIGH
    RingBuffer     \* FIXED_RING_BUF_SIZE, the size of either work buffer

NoName == "none"
Word(n) == [kind |-> "word", value |-> n]
Body(data) == [kind |-> "body", data |-> data]
Header(back, size, dd, phase, override) ==
    [kind |-> "ring", back |-> back, size |-> size, dd |-> dd, phase |-> phase, override |-> override]

(* An RS4 ring block of a ring whose compressed delta is data: launcher    *)
(* and ring.  The code of a wiggle-flip block keeps no qualifiers.         *)
NoDd == 0
Rs4Block(back, dd, phase, override, data) ==
    <<Header(back, 1 + Len(data), dd, phase, override)>> \o [i \in DOMAIN data |-> Body(data[i])]
WfBlock(back, data) ==
    <<Header(back, 1 + Len(data), NoDd, 0, 0)>> \o [i \in DOMAIN data |-> Body(data[i])]

(* The name of a ring is looked up in the TOC, or in .fixed_toc when the   *)
(* TOC is stripped.                                                        *)
Found(img, name) ==
    /\ QuickCheck(img, TRUE) = "OK"
    /\ TOC \in Present(img) \/ name \in FixedNames

(* get_vpd_ring_list_entry: a #G ring, a #R ring or not a VPD ring.        *)
VpdType(name) ==
    CASE name \in DOMAIN VpdG -> "G" [] name \in DOMAIN VpdR -> "R" [] OTHER -> "none"

(* The forward pointers of a name: one and that of the override, or one    *)
(* for each EX chiplet.  Alignments are those of 8-byte cells, and no      *)
(* pointer belongs to two names.                                           *)
Elements(name) == IF VpdType(name) = "none" THEN 2 ELSE CidExHigh - CidExLow + 1
MaxElements == 32
ASSUME RingAssumption ==
    /\ {RINGS, DCRINGS} \subseteq Sections
    /\ FinalAlignment = 1 /\ DataAlignment = 1
    /\ NoName \notin RingName /\ SlotOf \in [RingName -> Nat]
    /\ CidExLow \in Nat /\ CidExHigh \in CidExLow .. CidExLow + MaxElements - 1
    /\ \A n, m \in RingName : n # m => SlotOf[m] \notin SlotOf[n] .. SlotOf[n] + Elements(n) - 1

-----------------------------------------------------------------------------
(***************************************************************************)
(* A call in steps, each of which yields a return code and an image.       *)
(***************************************************************************)
Answer(rc, img) == [rc |-> rc, image |-> img]
Then(r, Step(_)) == IF r.rc = "OK" THEN Step(r.image) ELSE r
Mapped(r, Code(_)) == IF r.rc = "OK" THEN r ELSE [r EXCEPT !.rc = Code(r.rc)]
Validated(img) == Answer(IF LayoutCheck(img, img.size, FALSE) = "OK" THEN "OK" ELSE "XIP_MISC", img)

(* Where the blocks of a sequence of cells start, and those of a section.  *)
Starts(c) ==
    LET from[k \in 1 .. Len(c)] ==
            LET next == k + c[k].size
            IN  {k} \cup (IF next \in k + 1 .. Len(c) THEN from[next] ELSE {})
    IN  IF c = << >> THEN {} ELSE from[1]
Blocks(img, s) == {img.section[s].offset + k - 1 : k \in Starts(Contents(img, s))}

(***************************************************************************)
(* get_ring_layout_from_image2: the next block of the section, from the    *)
(* block at nextRing (0: from the first), that matches.  A block of both   *)
(* phases (2) matches either; nextRing ends as 0 at the end of the section.*)
(***************************************************************************)
MutantMatches(h, dd, phase) == h.dd = dd /\ h.phase = phase
Matches(h, dd, phase) ==
    h.dd = dd /\ \/ h.phase = phase /\ phase \in {0, 1}
                 \/ h.phase = 2 /\ phase \in {0, 1}

Search(img, from, end, dd, phase) ==
    LET cells == [i \in 1 .. end - from |-> img.mem[from + i - 1]]
        hits  == {at \in {from + k - 1 : k \in Starts(cells)} : Matches(img.mem[at], dd, phase)}
        first == CHOOSE at \in hits : \A b \in hits : at <= b
        next  == first + img.mem[first].size
    IN  IF hits = {} THEN [rc |-> "NO_MATCH", at |-> 0, next |-> 0]
        ELSE IF next >= end THEN [rc |-> "EXHAUST_MATCH", at |-> first, next |-> 0]
        ELSE [rc |-> "MATCH", at |-> first, next |-> next]

GetRingLayout2(img, dd, phase, nextRing, s) ==
    LET sec == img.section[s]
    IN  CASE QuickCheck(img, FALSE) # "OK" -> [rc |-> "KEYWORD_NOT_FOUND", at |-> 0, next |-> nextRing]
          [] QuickCheck(img, FALSE) = "OK" /\ sec.offset = 0 -> [rc |-> "NO_MATCH", at |-> 0, next |-> nextRing]
          [] OTHER -> Search(img, IF nextRing = 0 THEN sec.offset ELSE nextRing, End(sec), dd, phase)

(* get_ring_layout_from_image searches .rings alike, and copies out what   *)
(* it finds.                                                               *)
GetRingLayout(img, dd, phase, nextRing) == GetRingLayout2(img, dd, phase, nextRing, RINGS)
Block(img, at) == SubSeq([i \in 1 .. BufferSize |-> img.mem[i - 1]], at + 1, at + img.mem[at].size)

(* Blocks fill the section.                                                *)
Tiled(c) == \A k \in Starts(c) : /\ c[k].size \in Nat \ {0}
                                 /\ k + c[k].size \in Starts(c) \cup {Len(c) + 1}

-----------------------------------------------------------------------------
(***************************************************************************)
(* write_ring_block_to_image.  A named block gets its back pointer from    *)
(* the name.  .rings can only grow when .dcrings, which follows it, is     *)
(* taken off first and put back afterwards: a failure in between loses it. *)
(***************************************************************************)
BackPointer(name, idx, override, overridable) ==
    SlotOf[name] + idx * (1 + overridable) + override * overridable

TakeOff(img, s, bufSize) ==
    IF s # RINGS \/ DCRINGS \notin Present(img) THEN Answer("OK", img)
    ELSE IF img.section[DCRINGS].size > bufSize THEN Answer("BUFFER_TOO_SMALL", img)
    ELSE Mapped(DoDelete(img, DCRINGS), LAMBDA rc : "SECTION_DELETE")
AppendCode(rc) == IF rc = "WOULD_OVERFLOW" THEN rc ELSE "APPEND"

PutBack(img, old, s, max) ==
    IF s # RINGS \/ DCRINGS \notin Present(old) THEN Answer("OK", img)
    ELSE Mapped([rc |-> DoAppend(img, DCRINGS, Contents(old, DCRINGS), max).rc,
                 image |-> DoAppend(img, DCRINGS, Contents(old, DCRINGS), max).image], AppendCode)

(* The forward pointer: the address of the block in .rings, zero for a     *)
(* block in .dcrings.  It is read back before it is trusted.               *)
MutantLink(img, s, offset, back) ==
    LET fwd   == Section2Pore(img, s, offset)
        wrote == DoWriteDoubleword(img, back, <<Word(fwd.address)>>)
    IN  IF fwd.rc # "OK" \/ DoublewordCheck(img, back) # "OK" THEN Answer("XIP_MISC", img)
        ELSE Answer("OK", wrote)
Link(img, s, offset, back) ==
    LET fwd   == IF s = RINGS THEN Section2Pore(img, s, offset) ELSE [rc |-> "OK", address |-> 0]
        wrote == DoWriteDoubleword(img, back, <<Word(fwd.address)>>)
    IN  IF fwd.rc # "OK" \/ DoublewordCheck(img, back) # "OK" THEN Answer("XIP_MISC", img)
        ELSE IF ReadDoubleword(wrote, back) # <<Word(fwd.address)>> THEN Answer("FWD_BACK_PTR_MESS", wrote)
        ELSE Answer("OK", wrote)

WriteRingBlock(img, name, block, idx, override, overridable, max, s, bufSize) ==
    LET back   == IF name = NoName THEN block[1].back ELSE BackPointer(name, idx, override, overridable)
        ring   == [block EXCEPT ![1].back = back]
        off    == TakeOff(img, s, bufSize)
        room   == max - (IF s = RINGS THEN img.section[DCRINGS].size ELSE 0)
        added  == DoAppend(off.image, s, ring, room)
        put    == PutBack(added.image, img, s, max)
        linked == Link(put.image, s, added.offset, back)
    IN  IF name # NoName /\ ~ Found(img, name) THEN Answer("KEYWORD_NOT_FOUND", img)
        ELSE IF off.rc # "OK" THEN off
        ELSE IF added.rc # "OK" THEN Answer(AppendCode(added.rc), added.image)
        ELSE IF put.rc # "OK" THEN put
        ELSE IF Validated(put.image).rc # "OK" THEN Validated(put.image)
        ELSE IF linked.rc # "OK" THEN linked
        ELSE Validated(linked.image)

-----------------------------------------------------------------------------
(***************************************************************************)
(* write_vpd_ring_to_ipl_image: a launcher and the ring make a block; the  *)
(* launcher jumps to proc_sbe_decompress_scan.  An ex_ chiplet selects the *)
(* element of the ring's vector, any other the first.  The ring's own      *)
(* buffer is the work buffer for .dcrings.                                 *)
(***************************************************************************)
Launcher == "proc_sbe_decompress_scan_chiplet_address"
MaxRotate == "scan_max_rotate_38xxx"
Waits == "waits_delay_for_scan"
VectorIndex(chiplet) == IF chiplet >= CidExLow /\ chiplet <= CidExHigh THEN chiplet - CidExLow ELSE 0

VpdBlockCode(rc) == IF rc = "WOULD_OVERFLOW" THEN rc ELSE "RING_WRITE_TO_IMAGE"
WriteVpdRingIpl(img, max, ring, dd, phase, name, s) ==
    LET block == Rs4Block(0, dd, phase, 0, ring.data)
    IN  IF ~ Found(img, Launcher) THEN Answer("KEYWORD_NOT_FOUND", img)
        ELSE IF Len(block) > RingBuffer THEN Answer("RING_TOO_LARGE", img)
        ELSE Mapped(WriteRingBlock(img, name, block, VectorIndex(ring.chiplet), 0, 0, max, s, RingBuffer),
                    VpdBlockCode)

(***************************************************************************)
(* write_vpd_ring_to_slw_image: the ring is decompressed, and the          *)
(* wiggle-flip program that scans it (ring.program) written; a repair ring *)
(* gets the space of the worst case, filled with halts.                    *)
(***************************************************************************)
Halts(n) == [i \in 1 .. n |-> 0]
Reserved(ring, worstCase) ==
    IF worstCase /\ ring.worst > Len(ring.program)
    THEN ring.program \o Halts(ring.worst - Len(ring.program)) ELSE ring.program
WriteVpdRingSlw(img, max, ring, name, worstCase) ==
    LET block == WfBlock(0, Reserved(ring, worstCase))
    IN  IF ring.raw > RingBuffer THEN Answer("RING_TOO_LARGE", img)
        ELSE IF ~ Found(img, MaxRotate) \/ ~ Found(img, Waits) THEN Answer("XIP_MISC", img)
        ELSE IF Len(ring.program) > RingBuffer THEN Answer("WF_CREATE", img)
        ELSE IF Len(block) > RingBuffer THEN Answer("RING_TOO_LARGE", img)
        ELSE Mapped(WriteRingBlock(img, name, block, VectorIndex(ring.chiplet), 0, 0, max, RINGS, RingBuffer),
                    VpdBlockCode)

(***************************************************************************)
(* write_wiggle_flip_to_image: the qualifiers leave the header; there must *)
(* be room for the block and the worst alignment.                          *)
(***************************************************************************)
WriteWiggleFlip(img, max, layout, program, maxAlign) ==
    LET block    == WfBlock(layout.back, program)
        estimate == img.size + Len(block) + maxAlign
        added    == DoAppend(img, RINGS, block, estimate)
    IN  IF estimate > max THEN Answer("IMAGE_TOO_LARGE", img)
        ELSE Then(Then(Then(Mapped([rc |-> added.rc, image |-> added.image], LAMBDA rc : "XIP_MISC"),
            Validated),
            LAMBDA i : Link(i, RINGS, added.offset, layout.back)),
            Validated)

-----------------------------------------------------------------------------
(* How sbe_xip_tool lists a block: the ring is the one whose symbol is     *)
(* nearest before the slot, and an odd element of a ring that is not of    *)
(* the VPD is an override; without a TOC only the header tells.            *)
PairRing(back) ==
    LET near == {x \in RingName \X (0 .. MaxElements - 1) : SlotOf[x[1]] = back - x[2]}
    IN  CHOOSE x \in near : \A y \in near : x[2] <= y[2]
ListedName(img, at) == IF TOC \in Present(img) THEN PairRing(img.mem[at].back)[1] ELSE NoName
ListedOverride(img, at) ==
    LET pair == PairRing(img.mem[at].back)
    IN  IF TOC \notin Present(img) THEN img.mem[at].override
        ELSE IF VpdType(pair[1]) = "none" THEN pair[2] % 2 ELSE 0

(* What a slot of the image holds.                                         *)
SlotCell(img, slot) == img.mem[slot - LinkAddress]
Pointer(img, slot) == IF SlotCell(img, slot).kind = "word" THEN SlotCell(img, slot).value ELSE 0

(* A forward pointer leads to a block of .rings that points back to it.    *)
Leads(img, slot) ==
    Pointer(img, slot) # 0 =>
        /\ Pointer(img, slot) - LinkAddress \in Blocks(img, RINGS)
        /\ img.mem[Pointer(img, slot) - LinkAddress].back = slot
=============================================================================
