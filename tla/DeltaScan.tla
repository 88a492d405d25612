------------------------------ MODULE DeltaScan ------------------------------
(***************************************************************************)
(* The reference image file and the programs that add rings to it:         *)
(* p8_delta_scan_w, which locks the file, and p8_delta_scan_w_centaur,     *)
(* which does not; p8_delta_scan_r, which reads rings back.  Several runs  *)
(* of a program may be under way at a time, and any may be stopped.        *)
(***************************************************************************)
EXTENDS RingBlock

CONSTANTS
    Writers,   \* runs of the programs
    CentaurWriters,  \* a bound: the ones of them for the Centaur image, which has no lock
    Requests,  \* their arguments: what ring to add
    RefMax,    \* MAX_REF_IMAGE_SIZE
    Torn,      \* where a write may end too early, in cells
    FullList   \* a bound: how many rings are added

VARIABLES
    chip,    \* "p8" or "centaur": which program, and the magic number of the image
    file,    \* the reference image file: what it holds and its length
    writer,  \* run -> where it is, its request and its copy of the image
    added    \* the requests whose write of the file has been complete, in order
scanVars == <<chip, file, writer, added>>

(* A DD level may be given as an EC level of five or six digits.           *)
DdOf(arg) == IF arg < 256 THEN arg ELSE (arg \div 4096) % 256

(***************************************************************************)
(* The reference image before any ring is added to it: it ends where its   *)
(* last section does, and the slots of the rings' pointers are data of     *)
(* other sections than those that rings go to, and zero.                   *)
(***************************************************************************)
RingSections == {RINGS, DCRINGS}
Covered(img, i) == \E s \in Present(img) : i \in img.section[s].offset .. End(img.section[s]) - 1
Abutting(img) ==
    /\ Covered(img, img.size - 1)
    /\ \A s \in RingSections \cap Present(img) : Covered(img, img.section[s].offset - 1)
Unlinked(img) == \A name \in RingName : \A i \in 0 .. Elements(name) - 1 : Pointer(img, SlotOf[name] + i) = 0
SlotsHeld(img) == \A name \in RingName : \A i \in 0 .. Elements(name) - 1 : \E s \in Present(img) \ RingSections :
    (SlotOf[name] + i) - LinkAddress \in img.section[s].offset .. End(img.section[s]) - 1
Extensible(img) ==
    /\ Abutting(img) /\ TOC \in Present(img) /\ SlotsHeld(img)
    /\ \A s \in RingSections : img.section[s].alignment = 1
    /\ \A s \in RingSections \ Present(img) : img.section[s].offset = 0
ASSUME ScanAssumption ==
    /\ RefMax \in 0 .. BufferSize /\ Torn \subseteq Nat
    /\ Requests \subseteq [name : RingName, dd : Nat, phase : Nat, override : Nat, chiplet : Nat, data : Seq(Nat)]
    /\ Word(0) \in Cells
    /\ \A req \in Requests, i \in 0 .. MaxElements - 1 :
          Rs4Block(SlotOf[req.name] + i, DdOf(req.dd), req.phase, req.override, req.data) \in Seq(Cells)
    /\ \A img \in Images : Extensible(img) /\ RingSections \cap Present(img) = {} /\ Unlinked(img)

(* The status of a run that is not under way.                              *)
Idle == [pc |-> "idle", request |-> 0, image |-> 0]

-----------------------------------------------------------------------------
(***************************************************************************)
(* What main refuses before it looks at the image.                         *)
(***************************************************************************)
ChipletRange(name) == IF name \in DOMAIN VpdG THEN VpdG[name] ELSE VpdR[name]
ChipletMess(req) ==
    VpdType(req.name) # "none" /\ req.chiplet # 255
        /\ req.chiplet < ChipletRange(req.name).min /\ req.chiplet > ChipletRange(req.name).max

Arguments(req) ==
    IF req.dd >= 16777216 \/ req.phase > 2 \/ req.override > 1 THEN "GENERIC"
    ELSE IF VpdType(req.name) = "R" THEN "RINGTYPE_NOT_ALLOWED"
    ELSE IF ChipletMess(req) THEN "CHIPLET_ID_MESS"
    ELSE IF VpdType(req.name) = "G" /\ req.override = 1 THEN "BAD_ARGS" ELSE "OK"

(* p8_delta_scan_w_centaur refuses neither #R rings nor overrides of them. *)
CentaurArguments(req) ==
    IF req.dd >= 16777216 \/ req.phase > 2 \/ req.override > 1 THEN "GENERIC"
    ELSE IF ChipletMess(req) THEN "CHIPLET_ID_MESS" ELSE "OK"

(* The image must be as long as its file and valid.                        *)
FileCheck(f) ==
    IF f.length = f.image.size /\ LayoutCheck(f.image, f.length, FALSE) = "OK" THEN "OK" ELSE "GENERIC"

(***************************************************************************)
(* write_rs4_ring_to_ref_image in memory.  A ring that is not of the VPD   *)
(* goes to .rings, and .dcrings is taken off meanwhile; the pointer stays  *)
(* zero until an image is built.  A #G ring goes to .dcrings.              *)
(***************************************************************************)
(* The slot a ring is written for: an element's, or the override's.        *)
SlotFor(req) ==
    SlotOf[req.name] + (IF VpdType(req.name) = "none" THEN req.override ELSE VectorIndex(req.chiplet))
BlockOf(req) ==
    Rs4Block(SlotOf[req.name] + req.override, DdOf(req.dd), req.phase, req.override, req.data)

AddToRings(img, req) ==
    LET off    == TakeOff(img, RINGS, BufferSize)
        added1 == DoAppend(off.image, RINGS, BlockOf(req), RefMax)
        put    == PutBack(added1.image, img, RINGS, RefMax)
    IN  IF ~ Found(img, Launcher) \/ ~ Found(img, req.name) THEN Answer("GENERIC", img)
        ELSE IF off.rc # "OK" THEN off
        ELSE IF added1.rc # "OK" THEN Answer("APPEND", added1.image)
        ELSE IF put.rc # "OK" THEN Answer("APPEND", put.image)
        ELSE Validated(put.image)

AddRing(img, req) ==
    IF VpdType(req.name) = "none" THEN AddToRings(img, req)
    ELSE Mapped(WriteVpdRingIpl(img, RefMax, req, DdOf(req.dd), req.phase, req.name, DCRINGS),
                LAMBDA rc : "GENERIC")

(***************************************************************************)
(* The same of the Centaur program, which does not expect .dcrings and     *)
(* points the first slot of the name to the ring, be it an override.       *)
(***************************************************************************)
SetFirstSlot(img, req, offset) ==
    Answer(Section2Pore(img, RINGS, offset).rc,
           DoWriteDoubleword(img, SlotOf[req.name], <<Word(Section2Pore(img, RINGS, offset).address)>>))
CentaurAddRing(img, req) ==
    LET r == DoAppend(img, RINGS, BlockOf(req), RefMax)
    IN  IF VpdType(req.name) # "none"
        THEN Mapped(WriteVpdRingIpl(img, RefMax, req, DdOf(req.dd), req.phase, req.name, RINGS),
                    LAMBDA rc : "GENERIC")
        ELSE IF ~ Found(img, req.name) THEN Answer("GENERIC", img)
        ELSE Mapped(Then(Then(Then([rc |-> r.rc, image |-> r.image],
            Validated),
            LAMBDA i : SetFirstSlot(i, req, r.offset)),
            Validated), LAMBDA rc : "GENERIC")

-----------------------------------------------------------------------------
(***************************************************************************)
(* A run of p8_delta_scan_w: lock and copy, add in memory, write, unlock.  *)
(* Any return closes the file and so drops the lock.                       *)
(***************************************************************************)
Locked == \E w \in Writers : writer[w].pc # "idle"
MutantUnlocked == Len(added) >= 0
Unlocked == ~ Locked

Open(w) == \E req \in Requests :
    /\ chip = "p8" /\ writer[w].pc = "idle" /\ Len(added) < FullList
    /\ Arguments(req) = "OK" /\ Unlocked /\ FileCheck(file) = "OK"
    /\ AddRing(file.image, req).rc = "OK"
    /\ writer' = [writer EXCEPT ![w] = [pc |-> "open", request |-> req, image |-> file.image]]
    /\ UNCHANGED <<chip, file, added>>

(* The write's result is not looked at.                                    *)
FileAfter(f, img, n) ==
    IF n = img.size THEN [image |-> img, length |-> n]
    ELSE LET head == IF n > 0 THEN img ELSE f.image
         IN  [image |-> [head EXCEPT !.mem = [i \in DOMAIN @ |-> IF i < n THEN img.mem[i] ELSE f.image.mem[i]]],
              length |-> IF n > f.length THEN n ELSE f.length]
WriteAndUnlock(w) ==
    /\ chip = "p8" /\ writer[w].pc = "open"
    /\ LET new == AddRing(writer[w].image, writer[w].request).image
       IN  \E n \in {m \in Torn : m < new.size} \cup {0, new.size} :
              /\ file' = FileAfter(file, new, n)
              /\ added' = IF n = new.size THEN Append(added, writer[w].request) ELSE added
    /\ writer' = [writer EXCEPT ![w] = Idle]
    /\ UNCHANGED chip

(***************************************************************************)
(* A run of p8_delta_scan_w_centaur: copy; truncate the file; write it.    *)
(***************************************************************************)
CentaurOpen(w) == \E req \in Requests :
    /\ chip = "centaur" /\ w \in CentaurWriters /\ writer[w].pc = "idle" /\ Len(added) < FullList
    /\ CentaurArguments(req) = "OK" /\ FileCheck(file) = "OK"
    /\ CentaurAddRing(file.image, req).rc = "OK"
    /\ writer' = [writer EXCEPT ![w] = [pc |-> "open", request |-> req, image |-> file.image]]
    /\ UNCHANGED <<chip, file, added>>
CentaurTruncate(w) ==
    /\ chip = "centaur" /\ writer[w].pc = "open"
    /\ file' = [file EXCEPT !.length = 0]
    /\ writer' = [writer EXCEPT ![w].pc = "truncated"]
    /\ UNCHANGED <<chip, added>>
CentaurWrite(w) ==
    /\ chip = "centaur" /\ writer[w].pc = "truncated"
    /\ LET new == CentaurAddRing(writer[w].image, writer[w].request).image
       IN  file' = [image |-> new, length |-> new.size]
    /\ added' = Append(added, writer[w].request)
    /\ writer' = [writer EXCEPT ![w] = Idle]
    /\ UNCHANGED chip

(* A run that is stopped.                                                  *)
Stopped(w) ==
    /\ writer[w].pc # "idle"
    /\ writer' = [writer EXCEPT ![w] = Idle]
    /\ UNCHANGED <<chip, file, added>>

ScanInit ==
    /\ chip \in {"p8", "centaur"}
    /\ \E img \in Images : file = [image |-> img, length |-> img.size]
    /\ writer = [w \in Writers |-> Idle]
    /\ added = << >>
ScanNext == \E w \in Writers :
    Open(w) \/ WriteAndUnlock(w) \/ CentaurOpen(w) \/ CentaurTruncate(w) \/ CentaurWrite(w) \/ Stopped(w)
ScanSpec == ScanInit /\ [][ScanNext]_scanVars

-----------------------------------------------------------------------------
(***************************************************************************)
(* p8_delta_scan_r: the first block of that slot, level, phase, override.  *)
(***************************************************************************)
RingSection(name) == IF VpdType(name) = "none" THEN RINGS ELSE DCRINGS
Wanted(img, name, dd, phase, override) ==
    {at \in Blocks(img, RingSection(name)) :
        LET h == img.mem[at]
        IN  h.back = SlotOf[name] + override /\ Matches(h, dd, phase) /\ h.override = override}
DataAt(img, at) == [k \in 1 .. img.mem[at].size - 1 |-> img.mem[at + k].data]
ReadRing(img, name, dd, phase, override) ==
    LET at == CHOOSE a \in Wanted(img, name, dd, phase, override) :
                  \A b \in Wanted(img, name, dd, phase, override) : a <= b
    IN  IF ~ Found(img, name) THEN [rc |-> "GENERIC", data |-> << >>]
        ELSE IF Wanted(img, name, dd, phase, override) = {} THEN [rc |-> "RING_NOT_FOUND", data |-> << >>]
        ELSE [rc |-> "OK", data |-> DataAt(img, at)]

-----------------------------------------------------------------------------
Whole == FileCheck(file) = "OK"
AddedIn(req, img) == \E at \in Blocks(img, RingSection(req.name)) :
    /\ SubSeq(Block(img, at), 2, img.mem[at].size) = SubSeq(BlockOf(req), 2, Len(BlockOf(req)))
    /\ ListedName(img, at) = req.name /\ ListedOverride(img, at) = req.override

(* No ring that a run of p8_delta_scan_w has written to the file is lost   *)
(* to another run, whether they overlap (the lock), are stopped, or leave  *)
(* an incomplete file behind: the file is either refused or has them all,  *)
(* and lists each under its name, through each removal and re-append of    *)
(* .dcrings.                                                               *)
NoRingLost ==
    chip = "p8" /\ Whole => \A k \in DOMAIN added : AddedIn(added[k], file.image)

(* p8_delta_scan_r finds under its name, level, phase and override a ring  *)
(* that p8_delta_scan_w was given for them, and the one that was given     *)
(* first: p8_ipl_build uses the last.  It looks at the first element of a  *)
(* VPD ring only.                                                          *)
SameKey(r, q) ==
    r.name = q.name /\ DdOf(r.dd) = DdOf(q.dd) /\ r.override = q.override /\ SlotFor(r) = SlotFor(q)
ReadsBack ==
    chip = "p8" /\ Whole => \A k \in DOMAIN added : \A phase \in {0, 1} :
        added[k].phase \in {phase, 2} /\ SlotFor(added[k]) = SlotOf[added[k].name] + added[k].override =>
            LET r == ReadRing(file.image, added[k].name, DdOf(added[k].dd), phase, added[k].override)
                same == {j \in DOMAIN added : SameKey(added[j], added[k]) /\ added[j].phase \in {phase, 2}}
            IN  r.rc = "OK" /\ r.data = added[CHOOSE j \in same : \A i \in same : j <= i].data
=============================================================================
