------------------------------ MODULE XipTool ------------------------------
(***************************************************************************)
(* sbe_xip_tool.c: the commands that look at and change an image file.     *)
(* Every command maps the file and validates it.  normalize, set and setv  *)
(* work in the mapped file; append and delete build a new image in memory, *)
(* truncate the file and write it again, and can fail in between.          *)
(***************************************************************************)
EXTENDS XipToc

CONSTANTS
    Flags,           \* the -i flags: what validation ignores
    Pairs,           \* the arguments of set: <<name, index, value>> triples
    Indices, Values, \* those of a program's set_element, set_scalar, set_string
    Cuts,            \* the lengths of the files that are left half written
    MaxAlign,        \* SBE_XIP_MAX_SECTION_ALIGNMENT
    Symbols          \* name, section, offset, type as the source declares them

VARIABLES
    length,  \* the bytes of the image that are in the file
    pending  \* the new image a command is writing; its size is 0 if none
toolVars == <<vars, length, pending>>

NoImage == [size |-> 0]
Idle == pending = NoImage

(* openAndMap: an empty file cannot be mapped; any other is validated      *)
(* against its size, unless a flag says not to.                            *)
Opens(flag) ==
    /\ length # 0
    /\ flag = "iv" \/ Validate2(image, length, flag = "ifs") = "OK"
(* A flag that makes a command ignore checks is not given for a file that  *)
(* is known to be incomplete.                                              *)
GivenFlags == {flag \in Flags : flag = "none" \/ length = image.size}
Opened == Idle /\ {flag \in GivenFlags : Opens(flag)} # {}

Exit(op, rc) == call' = Call(op, HEADER, rc)
(* What a command answers: the image changed in place, or a new one that   *)
(* is written to the file, which has been truncated.                       *)
Changed(op, r) == image' = r.image /\ Exit(op, r.rc)
Replaced(op, r) ==
    /\ IF r.rc = "OK" THEN pending' = r.image /\ length' = 0 ELSE UNCHANGED <<pending, length>>
    /\ Exit(op, r.rc)
    /\ UNCHANGED image

Refuse(op, flag) ==
    /\ Idle /\ ~ Opens(flag)
    /\ Exit(op, "REFUSED")
    /\ UNCHANGED <<image, length, pending>>

(* normalize: a copy is normalized and validated, then copied back.        *)
ToolNormalized(flag) ==
    LET n == DoNormalize(image)
        v == IF flag = "iv" THEN "OK" ELSE Validate2(n.image, length, flag = "ifs")
        rc == IF n.rc # "OK" THEN n.rc ELSE v
    IN  [rc |-> rc, image |-> IF rc = "OK" THEN n.image ELSE image]
ToolNormalize(flag) ==
    /\ Idle /\ Opens(flag)
    /\ Changed("normalize", ToolNormalized(flag))
    /\ UNCHANGED <<length, pending>>

(* set: one pair after the other, in place, up to the first that fails.    *)
SetPair(img, name, index, value) ==
    LET item == Find(img, name)
    IN  CASE item.rc # "OK" -> [rc |-> item.rc, image |-> img]
          [] item.rc = "OK" /\ item.elements # 0 /\ index >= item.elements
                -> [rc |-> "EXIT", image |-> img]
          [] item.rc = "OK" /\ item.type \in Scalars /\ (item.elements = 0 \/ index < item.elements)
                -> DoSetElement(img, name, index, value)
          [] item.rc = "OK" /\ item.type = "STRING" -> DoSetString(img, name, value)
          [] OTHER -> [rc |-> "EXIT", image |-> img]
SetPairs(img, pairs) ==
    FoldLeft(LAMBDA acc, p : IF acc.rc = "OK" THEN SetPair(acc.image, p[1], p[2], p[3]) ELSE acc,
             [rc |-> "OK", image |-> img], pairs)
ToolSet ==
    /\ Opened
    /\ \E pairs \in Pairs : Changed("setv", SetPairs(image, pairs))
    /\ UNCHANGED <<length, pending>>

(* append: in a buffer with room for the data and the worst alignment; a   *)
(* section whose start is unaligned for code is no error.                  *)
ToolAppended(s, data) ==
    LET r       == DoAppend(image, s, data, image.size + Len(data) + MaxAlign)
        address == Section2Pore(r.image, s, r.offset)
    IN  [rc |-> IF r.rc # "OK" THEN r.rc ELSE IF address.rc = "ALIGNMENT_ERROR" THEN "OK" ELSE address.rc,
         image |-> r.image]
ToolAppend ==
    /\ Opened
    /\ \E s \in Targets : \E data \in Samples[s] :
          /\ data # << >> /\ image.size + Len(data) + MaxAlign <= BufferSize
          /\ Replaced("append", ToolAppended(s, data))

(* delete: the sections named, in turn.                                    *)
ToolDeleted(sections) ==
    FoldLeft(LAMBDA acc, s : IF acc.rc = "OK" THEN DoDelete(acc.image, s) ELSE acc,
             [rc |-> "OK", image |-> image], sections)
ToolDelete ==
    /\ Opened
    /\ \E s, t \in Targets : Replaced("delete", ToolDeleted(<<s, t>>))

(* The file has been truncated: write() stores the new image, or part of   *)
(* it and the tool exits, as it does when it is stopped.  What a mapping   *)
(* shows beyond the end of the file is zero, the header included.          *)
Partial(img, n) ==
    [img EXCEPT !.mem = Clear(@, n, img.size), !.magic = @ /\ n >= img.section[HEADER].size]
ToolWrite == \E n \in Cuts \cup {pending.size} :
    /\ ~ Idle /\ n <= pending.size
    /\ image' = Partial(pending, n) /\ length' = n /\ pending' = NoImage
    /\ Exit("write", IF n = pending.size THEN "OK" ELSE "EXIT")
ToolStopped ==
    /\ ~ Idle
    /\ image' = Partial(pending, 0) /\ pending' = NoImage
    /\ Exit("write", "EXIT")
    /\ UNCHANGED length

(* A program that uses the library on a copy of the image in memory, and   *)
(* writes the file when it is done.                                        *)
Program(Action) ==
    Idle /\ length = image.size /\ Action /\ length' = image'.size /\ UNCHANGED pending

Normalize == Changed("normalize", DoNormalize(image))
SetElement == \E name \in Names, index \in Indices, value \in Values :
    Changed("set", DoSetElement(image, name, index, value))
SetScalar == \E name \in Names, value \in Values : Changed("set", DoSetScalar(image, name, value))
SetString == \E name \in Names, size \in Values : Changed("set", DoSetString(image, name, size))
WriteWord == \E index \in Indices, value \in Values :
    WriteDoubleword(LinkAddress + image.section[FIXED].offset + index,
                    [i \in 1 .. DataAlignment |-> IF i = 1 THEN Byte(value) ELSE Zero])

(* .strings and .toc are removed "as a unit" (p8_ipl_build.C:43).  Nobody  *)
(* sorts a TOC that has lost its strings: bytes of the header would be     *)
(* compared, and the TOC pass for sorted when the strings are back.        *)
Unit(img) == TOC \in Present(img) => STRINGS \in Present(img)

Tool ==
    \/ \E flag \in GivenFlags : Refuse("open", flag) \/ (Unit(image) /\ ToolNormalize(flag))
    \/ ToolSet \/ ToolAppend \/ ToolDelete

ToolInit == Init /\ length = image.size /\ pending = NoImage
Next == \/ Program(LayoutNext) \/ Program(Unit(image) /\ Normalize) \/ Program(WriteWord)
        \/ Program(SetElement) \/ Program(SetScalar) \/ Program(SetString)
        \/ Tool \/ ToolWrite \/ ToolStopped
Spec == ToolInit /\ [][Next]_toolVars

-----------------------------------------------------------------------------
(* Where the link editor put the symbol: its section and its offset there. *)
Complete == length = image.size /\ Idle
Linked(name) == CHOOSE l \in Symbols : l.name = name
Right(img, name, item) ==
    /\ item.type = Linked(name).type
    /\ item.host = img.section[Linked(name).section].offset + Linked(name).offset

(* The symbols an image without TOC still has: those of .fixed, by hash,   *)
(* and the fields of the header.                                           *)
Hashed(img, name) ==
    /\ Linked(name).section = FIXED
    /\ \E e \in Range(FixedToc(img)) : e.hash = Hash[name] /\ e.offset = Linked(name).offset
Listed(img, name) ==
    IF TOC \in Present(img) THEN \E e \in Range(Toc(img)) : NameOf(img, e) = name
    ELSE Hashed(img, name) \/ name \in DOMAIN HeaderNames

(* A name found in the image, by binary search in a sorted TOC, by linear  *)
(* search in one that has been appended to since, through the hashed       *)
(* .fixed TOC or the header when the TOC is stripped, is the item the link *)
(* editor meant, and a name that is listed is never missed.  Without a TOC *)
(* a name the image does not have can be taken for one of the same hash:   *)
(* xipHashCollision compares the symbols of .fixed only.                   *)
FindsTheSymbol ==
    Complete /\ Unit(image) => \A name \in Names : LET item == Find(image, name) IN
        /\ item.rc = "OK" => \/ Right(image, name, item)
                             \/ TOC \notin Present(image) /\ ~ Listed(image, name)
        /\ item.rc = "ITEM_NOT_FOUND" => ~ Listed(image, name)

(* An image that validates goes on doing so through every call and every   *)
(* command (sbe_xip_validate is what each of them starts with), unless the *)
(* section of a symbol has been deleted; but one whose TOC has been given  *)
(* a symbol twice does not: each entry is looked up by its own name.       *)
Twice(img) == \E j, k \in DOMAIN Toc(img) : j # k /\ NameOf(img, Toc(img)[j]) = NameOf(img, Toc(img)[k])
StaysValid ==
    Complete /\ image.magic /\ image.normalized /\ Unit(image) =>
        IF Twice(image) THEN Validate(image, image.size) # "OK"
        ELSE Validate(image, image.size) \in {"OK", "DATA_NOT_PRESENT"}
=============================================================================
