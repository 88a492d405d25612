------------------------------- MODULE XipToc -------------------------------
(***************************************************************************)
(* The table-of-contents half of the SBE-XIP image library                 *)
(* (sbe_xip_image.c): normalization, sorting, lookup by name, access to    *)
(* named data, validation.                                                 *)
(*                                                                         *)
(* A cell is one of: a byte of data, which is also a string of .strings    *)
(* (its name, a number: names are ordered) and a string of data (its       *)
(* length); a TOC entry; an entry of the hashed .fixed TOC; a HALT record. *)
(***************************************************************************)
EXTENDS XipImage, FiniteSetsExt, SequencesExt

CONSTANTS
    Names,        \* the symbols a client looks up
    HeaderNames,  \* those of the built-in TOC of header fields: name -> field
    Hash,         \* xipHash32: name -> hash
    FixedLimit,   \* an offset in .fixed must fit the 16 bits of iv_offset
    Width         \* the cells an item of each type takes

Byte(n) == [byte |-> n]
TocEntry(id, data, section, type, elements) ==
    [id |-> id, data |-> data, section |-> section, type |-> type, elements |-> elements]
HashedEntry(h, offset, type, elements) ==
    [hash |-> h, offset |-> offset, type |-> type, elements |-> elements]

ASSUME TocAssumption ==
    /\ Zero = Byte(0) /\ FixedLimit \in Nat
    /\ DOMAIN Hash = Names /\ DOMAIN HeaderNames \subseteq Names

-----------------------------------------------------------------------------
(* A cell read as something it is not reads as zeros.                      *)
AsByte(c) == IF "byte" \in DOMAIN c THEN c.byte ELSE 0
AsEntry(c) == IF "id" \in DOMAIN c THEN c ELSE TocEntry(0, 0, 0, "none", 0)
AsHashed(c) == IF "hash" \in DOMAIN c THEN c ELSE HashedEntry(0, 0, "none", 0)

(* xipGetToc and xipGetFixedToc: the entries of a table.                   *)
Toc(img) == LET at == img.section[TOC].offset
            IN  [k \in 1 .. img.section[TOC].size |-> AsEntry(img.mem[at + k - 1])]
FixedToc(img) == LET at == img.section[FIXED_TOC].offset
                 IN  [k \in 1 .. img.section[FIXED_TOC].size |-> AsHashed(img.mem[at + k - 1])]
NameOf(img, e) == AsByte(img.mem[img.section[STRINGS].offset + e.id])

(* xipNormalizeToc: the entry's addresses become offsets in their          *)
(* sections, and an entry of .fixed is given an entry of .fixed_toc.       *)
Rewritten(img, acc, at, e, name, data) ==
    LET fixed == data.section = FIXED
        rc    == CASE name.rc # "OK" -> name.rc
                   [] name.rc = "OK" /\ name.section # STRINGS -> "IMAGE_ERROR"
                   [] name.section = STRINGS /\ data.rc # "OK" -> data.rc
                   [] fixed /\ acc.used = Len(FixedToc(img)) -> "TOC_ERROR"
                   [] fixed /\ acc.used # Len(FixedToc(img)) /\ data.offset >= FixedLimit -> "IMAGE_ERROR"
                   [] OTHER -> "OK"
        hashed == HashedEntry(Hash[AsByte(img.mem[e.id - LinkAddress])], data.offset, e.type, e.elements)
        slot   == img.section[FIXED_TOC].offset + acc.used
    IN  IF rc # "OK" THEN [acc EXCEPT !.rc = rc]
        ELSE [rc |-> "OK", used |-> acc.used + (IF fixed THEN 1 ELSE 0),
              mem |-> LET m == IF fixed THEN [acc.mem EXCEPT ![slot] = hashed] ELSE acc.mem
                      IN  [m EXCEPT ![at] = TocEntry(name.offset, data.offset, data.section,
                                                     e.type, e.elements)]]
NormalizeEntry(img, acc, k) ==
    LET at == img.section[TOC].offset + k - 1
        e  == AsEntry(acc.mem[at])
    IN  IF acc.rc # "OK" THEN acc
        ELSE Rewritten(img, acc, at, e, Pore2Section(img, e.id), Pore2Section(img, e.data))
NormalizedToc(img) ==
    FoldLeft(LAMBDA acc, k : NormalizeEntry(img, acc, k),
             [rc |-> "OK", mem |-> img.mem, used |-> 0], [k \in 1 .. Len(Toc(img)) |-> k])

(* xipHashCollision                                                        *)
HashesCollide(table) == \E i, j \in DOMAIN table : i # j /\ table[i].hash = table[j].hash

(***************************************************************************)
(* xipQuickSort, from left to right: the partition around the name in the  *)
(* middle, as the loop of i and j leaves it, then both parts.              *)
(***************************************************************************)
Swap(s, i, j) == [s EXCEPT ![i] = s[j], ![j] = s[i]]
RECURSIVE Partition(_, _, _, _, _)
Partition(img, s, i, j, pivot) ==
    IF i > j THEN [s |-> s, i |-> i, j |-> j]
    ELSE LET up   == CHOOSE n \in i .. Len(s) : /\ NameOf(img, s[n]) >= pivot
                                                /\ \A m \in i .. n - 1 : NameOf(img, s[m]) < pivot
             down == CHOOSE n \in 1 .. j : /\ NameOf(img, s[n]) <= pivot
                                           /\ \A m \in n + 1 .. j : NameOf(img, s[m]) > pivot
         IN  IF up > down THEN [s |-> s, i |-> up, j |-> down]
             ELSE Partition(img, Swap(s, up, down), up + 1, down - 1, pivot)

RECURSIVE QuickSort(_, _, _, _)
QuickSort(img, s, left, right) ==
    IF left >= right THEN s
    ELSE LET p == Partition(img, s, left, right, NameOf(img, s[((left + right - 2) \div 2) + 1]))
         IN  QuickSort(img, QuickSort(img, p.s, left, p.j), p.i, right)

(* xipSortToc                                                              *)
Sorted(img) ==
    IF img.tocSorted THEN img
    ELSE [img EXCEPT !.mem = Overlay(@, img.section[TOC].offset, QuickSort(img, Toc(img), 1, Len(Toc(img)))),
                     !.tocSorted = TRUE]

(***************************************************************************)
(* sbe_xip_normalize.  A failure clears the normalization status, whatever *)
(* part of the TOC has been rewritten.                                     *)
(***************************************************************************)
ClearEmpty(img) ==
    [img EXCEPT !.section = [s \in Sections |->
        IF s \in Present(img) THEN @[s] ELSE [@[s] EXCEPT !.offset = 0]]]

NormalizeCheck(img, n, written) ==
    CASE ~ img.magic -> "IMAGE_ERROR"
      [] img.magic /\ img.normalized -> "OK"
      [] img.magic /\ ~ img.normalized /\ n.rc # "OK" -> n.rc
      [] img.magic /\ ~ img.normalized /\ n.rc = "OK" /\ n.used # Len(FixedToc(img)) -> "TOC_ERROR"
      [] img.magic /\ ~ img.normalized /\ n.rc = "OK" /\ n.used = Len(FixedToc(img))
                   /\ HashesCollide(FixedToc(written)) -> "HASH_COLLISION"
      [] OTHER -> "OK"
Normalized(img, written, rc) ==
    CASE ~ img.magic -> [rc |-> rc, image |-> [img EXCEPT !.normalized = FALSE]]
      [] img.magic /\ rc # "OK" -> [rc |-> rc, image |-> [written EXCEPT !.normalized = FALSE]]
      [] OTHER -> [rc |-> rc, image |->
            ClearEmpty(Sorted([(IF img.normalized THEN img ELSE written) EXCEPT !.normalized = TRUE]))]
NormalizedWith(img, n) ==
    LET written == [img EXCEPT !.mem = n.mem]
    IN  Normalized(img, written, NormalizeCheck(img, n, written))
DoNormalize(img) == NormalizedWith(img, NormalizedToc(img))

-----------------------------------------------------------------------------
(***************************************************************************)
(* Lookup.  An item is where its data lies in the image, its type and      *)
(* number of elements, and the entry it was found by (0 for a partial one).*)
(***************************************************************************)
Item(rc, entry, host, type, elements) ==
    [rc |-> rc, entry |-> entry, host |-> host, type |-> type, elements |-> elements]
Missing(rc) == Item(rc, 0, 0, 0, 0)

(* xipLinearSearch and xipBinarySearch: the entry of that name, or 0.      *)
LinearSearch(img, name) ==
    SelectInSeq(Toc(img), LAMBDA e : NameOf(img, e) = name)
RECURSIVE BinarySearch(_, _, _, _)
BinarySearch(img, name, left, right) ==
    LET next == ((left + right) \div 2) + 1   \* left and right count from 0, entries from 1
        at   == NameOf(img, Toc(img)[next])
    IN  IF left > right THEN 0
        ELSE IF at = name THEN next
        ELSE IF name < at THEN BinarySearch(img, name, left, next - 2)
        ELSE BinarySearch(img, name, next, right)
Search(img, name) ==
    IF img.tocSorted THEN BinarySearch(img, name, 0, Len(Toc(img)) - 1) ELSE LinearSearch(img, name)

(* xipDecodeToc: the section of the data may have been removed.            *)
DecodeToc(img, k) ==
    LET e == Toc(img)[k]
    IN  IF ~ img.normalized THEN Missing("NOT_NORMALIZED")
        ELSE IF e.section \notin Present(img) THEN Missing("DATA_NOT_PRESENT")
        ELSE Item("OK", k, img.section[e.section].offset + e.data, e.type, e.elements)

(* xipFixedFind: by hash, among the symbols of .fixed.                     *)
FixedItem(img, table, k) ==
    IF k = 0 THEN Missing("ITEM_NOT_FOUND")
    ELSE IF FIXED \notin Present(img) THEN Missing("DATA_NOT_PRESENT")
    ELSE Item("OK", 0, img.section[FIXED].offset + table[k].offset, table[k].type, table[k].elements)
FixedFind(img, name) ==
    FixedItem(img, FixedToc(img), SelectInSeq(FixedToc(img), LAMBDA e : e.hash = Hash[name]))

(* xipHeaderFind: the fields of the header.                                *)
HeaderFind(img, name) ==
    IF name \notin DOMAIN HeaderNames THEN Missing("ITEM_NOT_FOUND")
    ELSE IF HEADER \notin Present(img) THEN Missing("DATA_NOT_PRESENT")
    ELSE Item("OK", 0, img.section[HEADER].offset + HeaderNames[name].offset, HeaderNames[name].type, 1)

(* sbe_xip_find: the small TOCs are for an image whose TOC is stripped.    *)
Either(item, other) == IF item.rc = "OK" THEN item ELSE other
Decoded(img, k) == IF k = 0 THEN Missing("ITEM_NOT_FOUND") ELSE DecodeToc(img, k)
Find(img, name) ==
    LET quick == QuickCheck(img, TRUE)
    IN  CASE quick # "OK" -> Missing(quick)
          [] quick = "OK" /\ TOC \notin Present(img) -> Either(FixedFind(img, name), HeaderFind(img, name))
          [] OTHER -> Decoded(img, Search(img, name))

-----------------------------------------------------------------------------
(***************************************************************************)
(* sbe_xip_get_ and sbe_xip_set_ scalar, element and string.               *)
(***************************************************************************)
Scalars == {"UINT8", "UINT32", "UINT64"}
Value(img, item, index) == AsByte(img.mem[item.host + index * Width[item.type]])

GetScalar(img, name) ==
    LET item == Find(img, name)
    IN  CASE item.rc # "OK" -> [rc |-> item.rc, value |-> 0]
          [] item.rc = "OK" /\ item.type \in Scalars -> [rc |-> "OK", value |-> Value(img, item, 0)]
          [] item.rc = "OK" /\ item.type = "ADDRESS" -> [rc |-> "OK", value |-> LinkAddress + item.host]
          [] OTHER -> [rc |-> "TYPE_ERROR", value |-> 0]

(* A vector of 0 elements is not bounds-checked.                           *)
ElementCheck(item, index) ==
    CASE item.rc # "OK" -> item.rc
      [] item.rc = "OK" /\ item.elements # 0 /\ index >= item.elements -> "BOUNDS_ERROR"
      [] OTHER -> IF item.type \in Scalars THEN "OK" ELSE "TYPE_ERROR"

GetElement(img, name, index) ==
    LET item == Find(img, name)
    IN  IF ElementCheck(item, index) = "OK" THEN [rc |-> "OK", value |-> Value(img, item, index)]
        ELSE [rc |-> ElementCheck(item, index), value |-> 0]

Stored(item, index, value) == [i \in 1 .. Width[item.type] |-> IF i = 1 THEN Byte(value) ELSE Zero]
DoSetElement(img, name, index, value) ==
    LET item == Find(img, name)
        rc   == ElementCheck(item, index)
    IN  [rc |-> rc, image |-> IF rc = "OK"
            THEN [img EXCEPT !.mem = Overlay(@, item.host + index * Width[item.type], Stored(item, index, value))]
            ELSE img]
DoSetScalar(img, name, value) ==
    LET item == Find(img, name)
        rc   == IF item.rc # "OK" THEN item.rc ELSE IF item.type \in Scalars THEN "OK" ELSE "TYPE_ERROR"
    IN  [rc |-> rc, image |-> IF rc = "OK"
            THEN [img EXCEPT !.mem = Overlay(@, item.host, Stored(item, 0, value))] ELSE img]

(* A string is cut to the length of the one it replaces.                   *)
DoSetString(img, name, length) ==
    LET item == Find(img, name)
        rc   == IF item.rc # "OK" THEN item.rc ELSE IF item.type = "STRING" THEN "OK" ELSE "TYPE_ERROR"
        now  == AsByte(img.mem[item.host])
    IN  [rc |-> rc, image |-> IF rc = "OK"
            THEN [img EXCEPT !.mem[item.host] = Byte(IF now < length THEN now ELSE length)] ELSE img]
GetString(img, name) ==
    LET item == Find(img, name)
    IN  [rc |-> IF item.rc # "OK" THEN item.rc ELSE IF item.type = "STRING" THEN "OK" ELSE "TYPE_ERROR",
         value |-> IF item.rc = "OK" THEN AsByte(img.mem[item.host]) ELSE 0]

-----------------------------------------------------------------------------
(***************************************************************************)
(* sbe_xip_validate: the layout, then sbe_xip_map_toc with                 *)
(* xipValidateTocEntry, which looks every entry up by its own name and so  *)
(* finds a duplicate.                                                      *)
(***************************************************************************)
FoundSelf(found, k) == IF found.rc # "OK" THEN found.rc ELSE IF found.entry # k THEN "TOC_ERROR" ELSE "OK"
EntryCheck(img, k) ==
    IF DecodeToc(img, k).rc # "OK" THEN DecodeToc(img, k).rc
    ELSE FoundSelf(Find(img, NameOf(img, Toc(img)[k])), k)

Validate2(img, size, ignoreFileSize) ==
    LET bad == {k \in 1 .. Len(Toc(img)) : EntryCheck(img, k) # "OK"}
    IN  IF LayoutCheck(img, size, ignoreFileSize) # "OK" THEN LayoutCheck(img, size, ignoreFileSize)
        ELSE IF ~ img.normalized \/ bad = {} THEN "OK"
        ELSE EntryCheck(img, Min(bad))
Validate(img, size) == Validate2(img, size, FALSE)
=============================================================================
