------------------------------- MODULE MCXip -------------------------------
(* An instance of XipTool for TLC: base images with six sections, linked   *)
(* with an unsorted TOC, one of them with a .fixed TOC that is too short   *)
(* and one with two symbols that have the same hash.  .data, .strings and  *)
(* .toc end the image, in this order, so that each can be deleted; .rings, *)
(* the strings and two normalized symbols of the TOC can be appended: the  *)
(* symbols to the TOC as it was linked, or to none.                        *)
EXTENDS XipTool

MCZero == Byte(0)
Fixed(name, offset, type) == [name |-> name, section |-> FIXED, offset |-> offset, type |-> type]
MCSymbols == {Fixed(1, 4, "UINT8"), Fixed(2, 0, "UINT32"), Fixed(5, 0, "UINT8"),
    [name |-> 3, section |-> 6, offset |-> 0, type |-> "STRING"],
    [name |-> 4, section |-> HEADER, offset |-> 0, type |-> "UINT8"]}
MCHash == [n \in 1 .. 5 |-> IF n = 5 THEN 11 ELSE n + 10]
MCHeaderNames == [n \in {4} |-> [offset |-> 0, type |-> "UINT8"]]
MCWidth == [t \in {"UINT8", "UINT32", "UINT64", "STRING", "ADDRESS"} |-> IF t = "UINT8" THEN 1 ELSE 2]

Symbol(name) == CHOOSE x \in MCSymbols : x.name = name
Elements(name) == IF name = 2 THEN 2 ELSE 1
(* .header 0, .fixed 2, .fixed_toc 8, .toc 10, .strings 12, .data 16; the  *)
(* names are not in the order of the strings.                              *)
MCStrings == <<1, 3, 4, 2>>
IdOf(strings, name) == CHOOSE i \in 0 .. 3 : strings[i + 1] = name
Entry(strings, name) ==
    LET start == CASE Symbol(name).section = FIXED -> 2 [] Symbol(name).section = 6 -> 16
    IN  TocEntry(32 + 12 + IdOf(strings, name), 32 + start + Symbol(name).offset, 0, Symbol(name).type, Elements(name))
(* A symbol as normalization would leave it.                               *)
Normal(name) ==
    TocEntry(IdOf(MCStrings, name), Symbol(name).offset, Symbol(name).section, Symbol(name).type, Elements(name))

Base(strings, first, second, hashed) ==
    [mem |-> [i \in 0 .. 17 |->
        CASE i = 10 -> Entry(strings, first)
          [] i = 11 -> Entry(strings, second)
          [] i \in 12 .. 15 -> Byte(strings[i - 11])
          [] i \in {0, 2, 4, 6, 16} -> Byte(3)
          [] OTHER -> Byte(0)],
     size |-> 18, magic |-> TRUE, normalized |-> FALSE, tocSorted |-> FALSE,
     section |-> [s \in Sections |->
        CASE s = HEADER -> [offset |-> 0, size |-> 2, alignment |-> 1]
          [] s = FIXED -> [offset |-> 2, size |-> 6, alignment |-> 2]
          [] s = FIXED_TOC -> [offset |-> 8, size |-> hashed, alignment |-> 2]
          [] s = TOC -> [offset |-> 10, size |-> 2, alignment |-> 2]
          [] s = STRINGS -> [offset |-> 12, size |-> 4, alignment |-> 1]
          [] s = 6 -> [offset |-> 16, size |-> 1, alignment |-> 2]
          [] s = RINGS -> [offset |-> 18, size |-> 0, alignment |-> 4]
          [] OTHER -> [offset |-> 18, size |-> 0, alignment |-> 1]]]
MCImages == {Base(MCStrings, 3, 1, 1), Base(MCStrings, 2, 1, 2), Base(MCStrings, 1, 2, 1), Base(<<1, 3, 4, 5>>, 5, 1, 2)}
MCCells == {Byte(n) : n \in 0 .. 9} \cup {Entry(MCStrings, n) : n \in 1 .. 3} \cup {Entry(<<1, 3, 4, 5>>, n) : n \in {1, 5}}
           \cup {Normal(2), Normal(4)}
MCSamples == [s \in Sections |->
    CASE s = RINGS -> {<< >>, [i \in 1 .. 5 |-> Byte(7)]}
      [] s = TOC -> {<<Normal(4), Normal(2)>>}
      [] s = STRINGS -> {[i \in 1 .. 4 |-> Byte(MCStrings[i])]}
      [] OTHER -> {}]
MCPairs == {<< <<1, 0, 3>>, <<3, 0, 3>> >>, << <<2, 1, 5>>, <<1, 1, 3>> >>}
=============================================================================
