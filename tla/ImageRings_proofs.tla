------------------------- MODULE ImageRings_proofs -------------------------
(***************************************************************************)
(* The rings of a built image, for every chip, reference image, VPD ring   *)
(* and call: the slot of a ring leads to the block that was added last for *)
(* it, however many sections have been added, taken off and repacked and   *)
(* however many blocks have been copied since.                             *)
(***************************************************************************)
EXTENDS ImageBuild_proofs

-----------------------------------------------------------------------------
(***************************************************************************)
(* The rings of an image.  Of an image on its way only the blocks of       *)
(* .rings and the cells of the slots matter here: the slots are in         *)
(* sections that no step takes off, adds or appends to.                    *)
(***************************************************************************)
RingSlots == SlotsOf(RingName)
Dropped == {Unnecessary[k] : k \in DOMAIN Unnecessary}
Home == Sections \ (Dropped \cup {SLW, FIT, FFDC})
AtHome(img, slot) == \E t \in Present(img) \cap Home : InSection(img, t, Cell(slot))
Sound(img) ==
    Shaped(img) /\ Tiled(Contents(img, RINGS)) /\ \A slot \in RingSlots : AtHome(img, slot)
SameBlock(img, r, at) == r.mem[at] = img.mem[at] /\ DataAt(r, at) = DataAt(img, at)
KeepsBlocks(img, r) ==
    /\ RINGS \in Present(img) => RINGS \in Present(r) /\ r.section[RINGS].offset = img.section[RINGS].offset
    /\ \A at \in Blocks(img, RINGS) : at \in Blocks(r, RINGS) /\ SameBlock(img, r, at)
Carried(img, r, slots) ==
    Sound(r) /\ KeepsBlocks(img, r) /\ \A slot \in RingSlots \ slots : SlotCell(r, slot) = SlotCell(img, slot)

(* A slot is the address of an element of a ring's pointers.               *)
LEMMA SlotOfRing ==
  ASSUME NEW slot
  PROVE  /\ slot \in RingSlots <=> \E name \in RingName : \E idx \in 0 .. Elements(name) - 1 : slot = SlotOf[name] + idx
         /\ slot \in RingSlots => slot \in Nat /\ IsSlot(Cell(slot))
<1>1. \A name \in RingName : SlotOf[name] \in Nat /\ Elements(name) \in Nat
  BY RingAssumption DEF Elements, MaxElements
<1>2. ASSUME NEW name \in RingName, slot \in SlotOf[name] .. SlotOf[name] + Elements(name) - 1
      PROVE  \E idx \in 0 .. Elements(name) - 1 : slot = SlotOf[name] + idx
  <2>1. slot - SlotOf[name] \in 0 .. Elements(name) - 1 /\ slot = SlotOf[name] + (slot - SlotOf[name])
    BY <1>1, <1>2
  <2> QED BY <2>1
<1>3. ASSUME NEW name \in RingName, NEW idx \in 0 .. Elements(name) - 1, slot = SlotOf[name] + idx
      PROVE  slot \in SlotOf[name] .. SlotOf[name] + Elements(name) - 1 /\ slot \in Nat
  BY <1>1, <1>3
<1>4. slot \in RingSlots <=> \E name \in RingName : slot \in SlotOf[name] .. SlotOf[name] + Elements(name) - 1
  BY DEF RingSlots, SlotsOf
<1>5. slot \in RingSlots <=> \E name \in RingName : \E idx \in 0 .. Elements(name) - 1 : slot = SlotOf[name] + idx
  BY <1>2, <1>3, <1>4
<1>6. slot \in RingSlots => slot \in Nat /\ IsSlot(Cell(slot))
  BY <1>3, <1>5 DEF IsSlot, Cell
<1> QED BY <1>5, <1>6

(* What a section holds, as a sequence.                                    *)
CellsOf(img) == {img.mem[a] : a \in Int}
LEMMA ContentsIs ==
  ASSUME NEW img, Shaped(img), NEW s \in Sections
  PROVE  /\ Contents(img, s) \in Seq(CellsOf(img)) /\ Len(Contents(img, s)) = img.section[s].size
         /\ DOMAIN Contents(img, s) = 1 .. img.section[s].size
         /\ \A k \in 1 .. img.section[s].size : Contents(img, s)[k] = img.mem[img.section[s].offset + k - 1]
         /\ s \notin Present(img) <=> Contents(img, s) = << >>
<1> DEFINE n == img.section[s].size
           o == img.section[s].offset
           c == Contents(img, s)
<1>1. n \in Nat /\ o \in Nat /\ (s \in Present(img) <=> n # 0)
  BY ShapedTypes
<1>2. c = [k \in 1 .. n |-> img.mem[o + k - 1]]
  BY DEF Contents
<1>3. \A k \in 1 .. n : img.mem[o + k - 1] \in CellsOf(img)
  BY <1>1 DEF CellsOf
<1> HIDE DEF n, o, c
<1>4. c \in Seq(CellsOf(img)) /\ Len(c) = n /\ DOMAIN c = 1 .. n
  BY <1>1, <1>2, <1>3
<1>5. c = << >> <=> n = 0
  BY <1>4, EmptySeq
<1> QED BY <1>1, <1>2, <1>4, <1>5 DEF n, o, c

(* A block of a section that blocks fill ends in it.                       *)
LEMMA BlockSpan ==
  ASSUME NEW img, Shaped(img), NEW s \in Sections, Tiled(Contents(img, s)), NEW at \in Blocks(img, s)
  PROVE  /\ s \in Present(img) /\ at \in Nat /\ img.section[s].offset <= at
         /\ img.mem[at].size \in Nat \ {0} /\ at + img.mem[at].size <= End(img.section[s])
         /\ End(img.section[s]) \in Nat /\ End(img.section[s]) <= BufferSize
         /\ at - img.section[s].offset + 1 \in Starts(Contents(img, s))
         /\ \/ at + img.mem[at].size = End(img.section[s])
            \/ at + img.mem[at].size \in Blocks(img, s)
<1> DEFINE c == Contents(img, s)
           o == img.section[s].offset
           n == img.section[s].size
<1>1. o \in Nat /\ n \in Nat /\ End(img.section[s]) = o + n /\ (s \in Present(img) <=> n # 0)
      /\ (s \in Present(img) => o + n <= img.size) /\ img.size <= BufferSize /\ img.size \in Nat /\ BufferSize \in Nat
  BY ShapedTypes
<1>2. c \in Seq(CellsOf(img)) /\ Len(c) = n /\ \A k \in 1 .. n : c[k] = img.mem[o + k - 1]
  BY ContentsIs
<1>3. PICK k \in Starts(c) : at = o + k - 1
  BY DEF Blocks
<1> HIDE DEF c, o, n
<1>4. Starts(c) \subseteq 1 .. Len(c)
  BY <1>2, StartsLeast
<1>5. k \in 1 .. n /\ c[k] = img.mem[at]
  BY <1>2, <1>3, <1>4
<1> DEFINE z == img.mem[at].size
<1>6. z \in Nat \ {0} /\ k + z \in Starts(c) \cup {Len(c) + 1}
  BY <1>3, <1>5 DEF Tiled, c
<1> HIDE DEF z
<1>7. k + z \in 1 .. n + 1 /\ (k + z \in Starts(c) \/ k + z = n + 1)
  BY <1>1, <1>2, <1>4, <1>5, <1>6
<1>8. at + z = o + (k + z) - 1
  BY <1>1, <1>3, <1>5, <1>6
<1>9. k + z \in Starts(c) => at + z \in Blocks(img, s)
  BY <1>8 DEF Blocks, c, o
<1>10. k + z = n + 1 => at + z = End(img.section[s])
  BY <1>1, <1>8
<1>11. n # 0 /\ at \in Nat /\ o <= at /\ at - o + 1 = k /\ at + z <= o + n /\ o + n <= BufferSize /\ o + n \in Nat
  BY <1>1, <1>3, <1>5, <1>6, <1>7, <1>8
<1> QED BY <1>1, <1>3, <1>6, <1>7, <1>9, <1>10, <1>11 DEF c, o, n, z

(* The section and its cells decide the blocks.                            *)
LEMMA BlocksStay ==
  ASSUME NEW img, Shaped(img), NEW s \in Sections, Tiled(Contents(img, s)), NEW r,
         r.section[s] = img.section[s],
         \A a \in 0 .. BufferSize - 1 : InSection(img, s, a) => r.mem[a] = img.mem[a]
  PROVE  /\ Contents(r, s) = Contents(img, s) /\ Blocks(r, s) = Blocks(img, s)
         /\ \A at \in Blocks(img, s) : SameBlock(img, r, at)
<1> DEFINE o == img.section[s].offset
           n == img.section[s].size
<1>1. /\ o \in Nat /\ n \in Nat /\ End(img.section[s]) = o + n /\ BufferSize \in Nat
      /\ n # 0 => o + n <= BufferSize
  <2>1. /\ o \in Nat /\ n \in Nat /\ End(img.section[s]) = o + n /\ img.size \in Nat /\ img.size <= BufferSize /\ BufferSize \in Nat
        /\ n # 0 => o + n <= img.size
    BY ShapedTypes
  <2> QED BY <2>1
<1>2. ASSUME NEW k \in 1 .. n PROVE r.mem[o + k - 1] = img.mem[o + k - 1]
  <2>1. o + k - 1 \in 0 .. BufferSize - 1 /\ o + k - 1 \in o .. o + n - 1
    BY <1>1
  <2> QED BY <1>1, <2>1 DEF InSection
<1>3. Contents(r, s) = Contents(img, s)
  BY <1>2 DEF Contents
<1>4. Blocks(r, s) = Blocks(img, s)
  BY <1>3 DEF Blocks
<1>5. ASSUME NEW at \in Blocks(img, s) PROVE SameBlock(img, r, at)
  <2>1. /\ at \in Nat /\ o <= at /\ img.mem[at].size \in Nat \ {0} /\ at + img.mem[at].size <= o + n
    BY <1>1, BlockSpan
  <2>2. \A a \in at .. at + img.mem[at].size - 1 : r.mem[a] = img.mem[a]
    <3> TAKE a \in at .. at + img.mem[at].size - 1
    <3>1. a - o + 1 \in 1 .. n /\ a = o + (a - o + 1) - 1
      BY <1>1, <2>1
    <3> QED BY <1>2, <3>1
  <2>3. at \in at .. at + img.mem[at].size - 1
    BY <2>1
  <2>4. r.mem[at] = img.mem[at]
    BY <2>2, <2>3
  <2>5. \A k \in 1 .. img.mem[at].size - 1 : at + k \in at .. at + img.mem[at].size - 1
    BY <2>1
  <2>6. \A k \in 1 .. img.mem[at].size - 1 : r.mem[at + k] = img.mem[at + k]
    BY <2>2, <2>5
  <2> QED BY <2>4, <2>6 DEF SameBlock, DataAt
<1> QED BY <1>3, <1>4, <1>5

(* Where a slot is.                                                        *)
LEMMA SlotPlace ==
  ASSUME NEW img, Sound(img), NEW slot \in RingSlots
  PROVE  /\ Cell(slot) \in 0 .. BufferSize - 1 /\ slot \in Nat /\ IsSlot(Cell(slot))
         /\ \E t \in Present(img) \cap Home : InSection(img, t, Cell(slot))
<1>1. PICK t \in Present(img) \cap Home : InSection(img, t, Cell(slot))
  BY DEF Sound, AtHome
<1>2. t \in Sections
  BY DEF Present
<1>3. /\ img.section[t].offset \in Nat /\ End(img.section[t]) \in Nat /\ End(img.section[t]) <= img.size
      /\ img.size <= BufferSize /\ img.size \in Nat /\ BufferSize \in Nat
  BY <1>1, <1>2, ShapedTypes DEF Sound
<1>4. Cell(slot) \in 0 .. BufferSize - 1
  BY <1>1, <1>3 DEF InSection
<1> QED BY <1>1, <1>4, SlotOfRing

(* Rings are carried over by what leaves their section, their cells and    *)
(* the slots as they are.                                                  *)
LEMMA Stays ==
  ASSUME NEW img, Sound(img), NEW r, Shaped(r), NEW slots,
         \A t \in Home \cup {RINGS} : r.section[t] = img.section[t],
         \A slot \in RingSlots \ slots : SlotCell(r, slot) = SlotCell(img, slot),
         \A a \in 0 .. BufferSize - 1 : InSection(img, RINGS, a) => r.mem[a] = img.mem[a]
  PROVE  Carried(img, r, slots) /\ Contents(r, RINGS) = Contents(img, RINGS) /\ Blocks(r, RINGS) = Blocks(img, RINGS)
<1>1. RINGS \in Sections
  BY RingAssumption
<1>2. /\ Contents(r, RINGS) = Contents(img, RINGS) /\ Blocks(r, RINGS) = Blocks(img, RINGS)
      /\ \A at \in Blocks(img, RINGS) : SameBlock(img, r, at)
  BY <1>1, BlocksStay DEF Sound
<1>3. KeepsBlocks(img, r)
  BY <1>1, <1>2 DEF KeepsBlocks, Present
<1>4. ASSUME NEW slot \in RingSlots PROVE AtHome(r, slot)
  <2>1. PICK t \in Present(img) \cap Home : InSection(img, t, Cell(slot))
    BY DEF Sound, AtHome
  <2>2. r.section[t] = img.section[t] /\ t \in Present(r)
    BY <2>1 DEF Present
  <2> QED BY <2>1, <2>2 DEF AtHome, InSection
<1> QED BY <1>2, <1>3, <1>4 DEF Carried, Sound

LEMMA CarriedThrough ==
  ASSUME NEW img, NEW r, NEW q, NEW S, NEW T, Carried(img, r, S), Carried(r, q, T)
  PROVE  Carried(img, q, S \cup T)
<1>1. KeepsBlocks(img, q)
  BY DEF Carried, KeepsBlocks, SameBlock
<1> QED BY <1>1 DEF Carried

(* What was in a section before an append is there.                        *)
LEMMA BeforeAppend ==
  ASSUME NEW img, Shaped(img), NEW s, NEW data, NEW allocation, NEW r, Appends(img, s, data, allocation, r),
         NEW t \in Present(img), NEW a, InSection(img, t, a)
  PROVE  r.image.mem[a] = img.mem[a]
<1>1. t \in Sections
  BY DEF Present
<1>2. /\ img.section[t].offset \in Nat /\ End(img.section[t]) \in Nat /\ End(img.section[t]) <= img.size
      /\ img.size <= BufferSize /\ img.size \in Nat /\ BufferSize \in Nat
  BY <1>1, ShapedTypes
<1>3. a \in 0 .. BufferSize - 1 /\ a < End(img.section[t])
  BY <1>2 DEF InSection
<1> QED BY <1>3 DEF Appends

LEMMA SlotsKeptByAppend ==
  ASSUME NEW img, Sound(img), NEW s \in Sections \ Home, NEW data, NEW allocation, NEW r,
         Appends(img, s, data, allocation, r), NEW slot \in RingSlots
  PROVE  SlotCell(r.image, slot) = SlotCell(img, slot) /\ AtHome(r.image, slot)
<1>1. PICK t \in Present(img) \cap Home : InSection(img, t, Cell(slot))
  BY DEF Sound, AtHome
<1>2. r.image.mem[Cell(slot)] = img.mem[Cell(slot)]
  BY <1>1, BeforeAppend DEF Sound
<1>3. t \in Sections \ {s}
  BY <1>1 DEF Present
<1>4. r.image.section[t] = img.section[t] /\ t \in Present(r.image)
  BY <1>1, <1>3 DEF Appends, Present
<1> QED BY <1>1, <1>2, <1>4 DEF SlotCell, Cell, AtHome, InSection

LEMMA NoCells ==
  ASSUME NEW img, Shaped(img), NEW s \in Sections, s \notin Present(img), NEW a
  PROVE  ~ InSection(img, s, a)
<1>1. img.section[s].offset \in Nat /\ End(img.section[s]) = img.section[s].offset + 0
  BY ShapedTypes
<1> QED BY <1>1 DEF InSection

(* An append to another section carries the rings over, whatever it        *)
(* answers.                                                                *)
LEMMA OtherAppended ==
  ASSUME NEW img, Sound(img), NEW s \in Sections \ (Home \cup {RINGS}), NEW X, NEW data \in Seq(X),
         NEW allocation \in Int, allocation <= BufferSize
  PROVE  Carried(img, DoAppend(img, s, data, allocation).image, {})
<1> DEFINE r == DoAppend(img, s, data, allocation)
<1>1. Appends(img, s, data, allocation, r)
  BY AppendOutcome DEF Sound
<1> HIDE DEF r
<1>2. Shaped(r.image) /\ \A t \in Home \cup {RINGS} : r.image.section[t] = img.section[t]
  BY <1>1, RingAssumption DEF Appends, Home
<1>3. \A slot \in RingSlots \ {} : SlotCell(r.image, slot) = SlotCell(img, slot)
  BY <1>1, SlotsKeptByAppend
<1>4. \A a \in 0 .. BufferSize - 1 : InSection(img, RINGS, a) => r.image.mem[a] = img.mem[a]
  BY <1>1, BeforeAppend, NoCells, RingAssumption DEF Sound
<1> QED BY <1>2, <1>3, <1>4, Stays DEF r

LEMMA Joined ==
  ASSUME NEW X, NEW c \in Seq(X), NEW b \in Seq(X)
  PROVE  c \o b = [k \in 1 .. Len(c) + Len(b) |-> IF k <= Len(c) THEN c[k] ELSE b[k - Len(c)]]
<1> DEFINE e == c \o b
           L == Len(c)
           M == Len(b)
<1>1. L \in Nat /\ M \in Nat /\ e \in Seq(X) /\ Len(e) = L + M
  OBVIOUS
<1>2. \A k \in 1 .. L : e[k] = c[k]
  OBVIOUS
<1>3. \A k \in 1 .. M : e[L + k] = b[k]
  OBVIOUS
<1> HIDE DEF e, L, M
<1>4. e = [k \in 1 .. L + M |-> e[k]]
  BY <1>1
<1>5. ASSUME NEW k \in 1 .. L + M PROVE e[k] = IF k <= L THEN c[k] ELSE b[k - L]
  <2>1. CASE k <= L
    BY <1>1, <1>2, <2>1
  <2>2. CASE ~ (k <= L)
    <3>1. k - L \in 1 .. M /\ L + (k - L) = k
      BY <1>1, <2>2
    <3>2. e[L + (k - L)] = b[k - L]
      BY <1>3, <3>1
    <3> QED BY <2>2, <3>1, <3>2
  <2> QED BY <2>1, <2>2
<1>6. e = [k \in 1 .. L + M |-> IF k <= L THEN c[k] ELSE b[k - L]]
  BY <1>4, <1>5
<1> QED BY <1>6 DEF e, L, M

(* A block that has been appended is the last one of .rings.               *)
Added(img, r, block) ==
    LET at == r.section[RINGS].offset + img.section[RINGS].size
    IN  /\ at \in Blocks(r, RINGS) /\ RINGS \in Present(r)
        /\ \A k \in 1 .. Len(block) : r.mem[at + k - 1] = block[k]
        /\ Blocks(r, RINGS) = Blocks(img, RINGS) \cup {at}
LEMMA BlockAppended ==
  ASSUME NEW img, Sound(img), NEW X, NEW block \in Seq(X), block # << >>, block[1].size = Len(block),
         NEW allocation \in Int, allocation <= BufferSize
  PROVE  LET r == DoAppend(img, RINGS, block, allocation)
         IN  Carried(img, r.image, {}) /\ (r.rc = "OK" => Added(img, r.image, block))
<1> DEFINE r == DoAppend(img, RINGS, block, allocation)
           i == r.image
           o == i.section[RINGS].offset
           n == img.section[RINGS].size
           c == Contents(img, RINGS)
           at == o + n
<1>1. RINGS \in Sections /\ RINGS \in Sections \ Home /\ Shaped(img) /\ Tiled(c)
  BY RingAssumption DEF Home, Dropped, Unnecessary, Sound
<1>2. Appends(img, RINGS, block, allocation, r)
  BY <1>1, AppendOutcome
<1> HIDE DEF r
<1>3. Shaped(i) /\ \A slot \in RingSlots : SlotCell(i, slot) = SlotCell(img, slot) /\ AtHome(i, slot)
  <2>1. Shaped(i)
    BY <1>2 DEF Appends
  <2>2. ASSUME NEW slot \in RingSlots PROVE SlotCell(i, slot) = SlotCell(img, slot) /\ AtHome(i, slot)
    <3> HIDE DEF i
    <3> QED BY <1>1, <1>2, SlotsKeptByAppend DEF i
  <2> QED BY <2>1, <2>2
<1>4. CASE i.section = img.section /\ (r.rc = "OK" => block = << >>)
  <2>1. \A a \in 0 .. BufferSize - 1 : InSection(img, RINGS, a) => i.mem[a] = img.mem[a]
    BY <1>1, <1>2, BeforeAppend, NoCells
  <2>2. Carried(img, i, {})
    BY <1>3, <1>4, <2>1, Stays
  <2> QED BY <1>4, <2>2 DEF r
<1>5. CASE /\ r.rc = "OK" /\ (RINGS \in Present(img) => Final(img, RINGS))
           /\ i.section[RINGS].size = n + Len(block) /\ o + n = AppendStart(img, RINGS)
           /\ \A k \in 1 .. Len(block) : i.mem[AppendStart(img, RINGS) + k - 1] = block[k]
  <2> DEFINE d == Contents(i, RINGS)
             Y == CellsOf(img) \cup X
  <2>1. /\ n \in Nat /\ o \in Nat /\ Len(block) \in Nat \ {0} /\ (RINGS \in Present(img) <=> n # 0)
        /\ i.section[RINGS].size \in Nat /\ (RINGS \in Present(i) <=> i.section[RINGS].size # 0)
        /\ End(img.section[RINGS]) = img.section[RINGS].offset + n
        /\ img.section[RINGS].offset \in Nat
    BY <1>1, <1>3, ShapedTypes, EmptySeq
  <2>2. RINGS \in Present(img) => o = img.section[RINGS].offset
    <3>1. RINGS \in Present(img) => AppendStart(img, RINGS) = End(img.section[RINGS])
      BY <1>1, <1>5, ShapedStart
    <3> QED BY <1>5, <2>1, <3>1
  <2>3. RINGS \in Present(i)
    BY <1>5, <2>1
  <2>4. c \in Seq(CellsOf(img)) /\ Len(c) = n /\ \A k \in 1 .. n : c[k] = img.mem[img.section[RINGS].offset + k - 1]
    BY <1>1, ContentsIs
  <2>5. \A k \in 1 .. Len(block) : i.mem[at + k - 1] = block[k]
    BY <1>5
  <2> HIDE DEF i, o, n, c
  <2>6. ASSUME NEW k \in 1 .. n PROVE i.mem[o + k - 1] = c[k]
    <3>1. RINGS \in Present(img)
      BY <2>1
    <3>2. InSection(img, RINGS, o + k - 1)
      BY <2>1, <2>2, <3>1 DEF InSection
    <3>3. i.mem[o + k - 1] = img.mem[o + k - 1]
      BY <1>1, <1>2, <3>1, <3>2, BeforeAppend DEF i
    <3> QED BY <2>2, <2>4, <3>1, <3>3
  <2>7. d = c \o block
    <3>1. d = [k \in 1 .. n + Len(block) |-> i.mem[o + k - 1]]
      BY <1>5 DEF Contents, o
    <3>2. \A k \in 1 .. n + Len(block) : i.mem[o + k - 1] = IF k <= n THEN c[k] ELSE block[k - n]
      <4> TAKE k \in 1 .. n + Len(block)
      <4>1. CASE k <= n
        BY <2>1, <2>6, <4>1
      <4>2. CASE ~ (k <= n)
        <5>1. k - n \in 1 .. Len(block) /\ at + (k - n) - 1 = o + k - 1
          BY <2>1, <4>2
        <5> QED BY <2>5, <4>2, <5>1
      <4> QED BY <4>1, <4>2
    <3>3. d = [k \in 1 .. n + Len(block) |-> IF k <= n THEN c[k] ELSE block[k - n]]
      BY <3>1, <3>2
    <3>4. c \in Seq(Y) /\ block \in Seq(Y)
      BY <2>4
    <3> HIDE DEF Y, d
    <3>5. c \o block = [k \in 1 .. Len(c) + Len(block) |-> IF k <= Len(c) THEN c[k] ELSE block[k - Len(c)]]
      BY <3>4, Joined
    <3> QED BY <2>4, <3>3, <3>5
  <2>8. Starts(d) = Starts(c) \cup {n + 1} /\ Tiled(d)
    <3>1. c \in Seq(Y) /\ block \in Seq(Y)
      BY <2>4
    <3> HIDE DEF Y, d
    <3> QED BY <1>1, <2>4, <2>7, <3>1, StartsAppend
  <2>9. c = << >> => Starts(c) = {}
    BY <2>4, StartsLeast
  <2>10. Blocks(img, RINGS) = {o + k - 1 : k \in Starts(c)}
    <3>1. CASE RINGS \in Present(img)
      BY <2>2, <3>1 DEF Blocks, c
    <3>2. CASE RINGS \notin Present(img)
      <4>1. c = << >>
        BY <1>1, <3>2, ContentsIs DEF c
      <4> QED BY <2>9, <4>1 DEF Blocks, c
    <3> QED BY <3>1, <3>2
  <2>11. Blocks(i, RINGS) = {o + k - 1 : k \in Starts(d)}
    BY DEF Blocks, o
  <2>12. o + (n + 1) - 1 = at
    BY <2>1
  <2> HIDE DEF d, at
  <2>13. Blocks(i, RINGS) = Blocks(img, RINGS) \cup {at}
    BY <2>8, <2>10, <2>11, <2>12
  <2>14. ASSUME NEW b \in Blocks(img, RINGS) PROVE SameBlock(img, i, b)
    <3> DEFINE z == img.mem[b].size
    <3>1. /\ RINGS \in Present(img) /\ b \in Nat /\ o <= b /\ z \in Nat \ {0} /\ b + z <= o + n
      BY <1>1, <2>1, <2>2, BlockSpan DEF c
    <3> HIDE DEF z
    <3>2. ASSUME NEW a \in b .. b + z - 1 PROVE i.mem[a] = img.mem[a]
      <4>1. InSection(img, RINGS, a)
        BY <2>1, <2>2, <3>1 DEF InSection
      <4> QED BY <1>1, <1>2, <3>1, <4>1, BeforeAppend DEF i
    <3>3. b \in b .. b + z - 1 /\ \A k \in 1 .. z - 1 : b + k \in b .. b + z - 1
      BY <3>1
    <3>4. i.mem[b] = img.mem[b] /\ \A k \in 1 .. z - 1 : i.mem[b + k] = img.mem[b + k]
      BY <3>2, <3>3
    <3> QED BY <3>4 DEF SameBlock, DataAt, z
  <2>15. KeepsBlocks(img, i)
    BY <2>2, <2>3, <2>13, <2>14 DEF KeepsBlocks, o
  <2>16. Carried(img, i, {})
    BY <1>3, <2>8, <2>15 DEF Carried, Sound, d, i
  <2>17. Added(img, i, block)
    BY <2>3, <2>5, <2>13 DEF Added, at, o, n
  <2> QED BY <2>16, <2>17 DEF r, i
<1>6. \/ i.section = img.section /\ (r.rc = "OK" => block = << >>)
      \/ /\ r.rc = "OK" /\ (RINGS \in Present(img) => Final(img, RINGS))
         /\ i.section[RINGS].size = n + Len(block) /\ o + n = AppendStart(img, RINGS)
         /\ \A k \in 1 .. Len(block) : i.mem[AppendStart(img, RINGS) + k - 1] = block[k]
  BY <1>2 DEF Appends
<1> QED BY <1>4, <1>5, <1>6

(***************************************************************************)
(* Sections that are taken off.                                            *)
(***************************************************************************)
Freed(img, s) == [img.section EXCEPT ![s] = [offset |-> 0, size |-> 0, alignment |-> img.section[s].alignment]]
LEMMA WithoutRecord ==
  ASSUME NEW img, img = Fields(img, img.mem), NEW s, NEW w, w = Without(img, s)
  PROVE  /\ w = Fields(w, img.mem) /\ w.mem = img.mem /\ w.section = Freed(img, s) /\ w.size = img.size
         /\ w.magic = img.magic /\ w.normalized = img.normalized /\ w.tocSorted = img.tocSorted
<1> DEFINE sec == Freed(img, s)
<1>1. w = [mem |-> img.mem, size |-> img.size, magic |-> img.magic, section |-> sec,
           normalized |-> img.normalized, tocSorted |-> img.tocSorted]
  <2>1. w = [img EXCEPT !.section = sec]
    BY DEF Without, Freed
  <2> HIDE DEF sec
  <2> QED BY <2>1 DEF Fields
<1> HIDE DEF sec
<1>2. /\ w.mem = img.mem /\ w.section = sec /\ w.size = img.size
      /\ w.magic = img.magic /\ w.normalized = img.normalized /\ w.tocSorted = img.tocSorted
  BY <1>1
<1> QED BY <1>1, <1>2 DEF Fields, sec

CutAt(w) == Align(End(w.section[CHOOSE t \in Sections : Final(w, t)]), FinalAlignment)
LEMMA TrimmedRecord ==
  ASSUME NEW w, w = Fields(w, w.mem), NEW r, r = Trimmed(w)
  PROVE  /\ r = Fields(r, w.mem) /\ r.mem = w.mem /\ r.section = w.section /\ r.size = CutAt(w)
         /\ r.magic = w.magic /\ r.normalized = w.normalized /\ r.tocSorted = w.tocSorted
<1> DEFINE n == CutAt(w)
<1>1. r = [w EXCEPT !.size = n]
  BY DEF Trimmed, CutAt
<1> HIDE DEF n
<1>2. r = [mem |-> w.mem, size |-> n, magic |-> w.magic, section |-> w.section,
           normalized |-> w.normalized, tocSorted |-> w.tocSorted]
  BY <1>1 DEF Fields
<1> QED BY <1>2 DEF Fields, n

(* What sbe_xip_delete_section leaves of an image of this shape.           *)
LEMMA DeleteOutcome ==
  ASSUME NEW img, Shaped(img), NEW s \in Sections
  PROVE  LET r == DoDelete(img, s)
         IN  /\ Shaped(r.image) /\ r.image.mem = img.mem
             /\ \A t \in Sections \ {s} : r.image.section[t] = img.section[t]
             /\ r.rc = "OK" => s \notin Present(r.image)
<1> DEFINE r == DoDelete(img, s)
           f == Flat(img)
           w == Without(img, s)
           fw == Without(f, s)
<1> SUFFICES /\ Shaped(r.image) /\ r.image.mem = img.mem
             /\ \A t \in Sections \ {s} : r.image.section[t] = img.section[t]
             /\ r.rc = "OK" => s \notin Present(r.image)
  OBVIOUS
<1>1. img = Fields(img, img.mem) /\ MemoryOf(img.mem)
  BY DEF Shaped
<1>2. /\ LaidOut(f) /\ f.section = img.section /\ f.size = img.size /\ Present(f) = Present(img)
      /\ \A t : Final(f, t) <=> Final(img, t)
      /\ f \in Image /\ f.magic = img.magic
      /\ f.normalized = img.normalized /\ f.tocSorted = img.tocSorted
  BY FlatFacts DEF Shaped
<1>3. f = Fields(f, f.mem) /\ f.mem = [a \in 0 .. BufferSize - 1 |-> Zero]
  BY DEF Flat, Fields
<1> HIDE DEF f
<1>4. /\ w = Fields(w, img.mem) /\ w.mem = img.mem /\ w.section = Freed(img, s) /\ w.size = img.size
      /\ w.magic = img.magic /\ w.normalized = img.normalized /\ w.tocSorted = img.tocSorted
  BY <1>1, WithoutRecord
<1>5. /\ fw = Fields(fw, f.mem) /\ fw.mem = f.mem /\ fw.section = Freed(f, s) /\ fw.size = f.size
      /\ fw.magic = f.magic /\ fw.normalized = f.normalized /\ fw.tocSorted = f.tocSorted
  BY <1>3, WithoutRecord
<1>6. Freed(f, s) = Freed(img, s)
  BY <1>2 DEF Freed
<1>7. s \in DOMAIN img.section /\ \A t \in Sections \ {s} : Freed(img, s)[t] = img.section[t]
  BY ShapedTypes DEF Freed
<1>8. Freed(img, s)[s].size = 0
  BY <1>7 DEF Freed
<1>9. LaidOut(fw)
  BY <1>2, WithoutLayout
<1> DEFINE tw == Trimmed(w)
           tf == Trimmed(fw)
<1> HIDE DEF w, fw
<1>10. /\ tw = Fields(tw, w.mem) /\ tw.mem = w.mem /\ tw.section = w.section /\ tw.size = CutAt(w)
       /\ tw.magic = w.magic /\ tw.normalized = w.normalized /\ tw.tocSorted = w.tocSorted
  BY <1>4, TrimmedRecord
<1>11. /\ tf = Fields(tf, fw.mem) /\ tf.mem = fw.mem /\ tf.section = fw.section /\ tf.size = CutAt(fw)
       /\ tf.magic = fw.magic /\ tf.normalized = fw.normalized /\ tf.tocSorted = fw.tocSorted
  BY <1>5, TrimmedRecord
<1> HIDE DEF tw, tf
<1>12. fw = Flat(w)
  BY <1>2, <1>3, <1>4, <1>5, <1>6 DEF Flat, Fields
<1>13. CutAt(fw) = CutAt(w)
  <2>1. fw.section = w.section
    BY <1>4, <1>5, <1>6
  <2>2. Present(fw) = Present(w)
    BY <2>1 DEF Present
  <2>3. \A t : Final(fw, t) <=> Final(w, t)
    BY <2>1, <2>2 DEF Final
  <2> QED BY <2>1, <2>3 DEF CutAt
<1>14. tf = Flat(tw)
  BY <1>2, <1>3, <1>4, <1>5, <1>6, <1>10, <1>11, <1>13 DEF Flat, Fields
<1>15. Shaped(w)
  BY <1>1, <1>4, <1>9, <1>12 DEF Shaped
<1>16. Final(img, s) /\ Present(img) # {s} => Shaped(tw)
  <2>1. Final(img, s) /\ Present(img) # {s} => LaidOut(tf)
    BY <1>2, TrimmedLayout DEF tf, fw
  <2> QED BY <1>1, <1>4, <1>10, <1>14, <2>1 DEF Shaped
<1>17. \/ r.image = img /\ (r.rc = "OK" => s \notin Present(img))
       \/ r.image = w /\ r.rc = "IMAGE_ERROR"
       \/ r.image = tw /\ Final(img, s) /\ Present(img) # {s}
  BY DEF DoDelete, w, tw, Final
<1>18. CASE r.image = img /\ (r.rc = "OK" => s \notin Present(img))
  BY <1>18
<1>19. CASE r.image = w /\ r.rc = "IMAGE_ERROR"
  BY <1>4, <1>7, <1>15, <1>19
<1>20. CASE r.image = tw /\ Final(img, s) /\ Present(img) # {s}
  BY <1>4, <1>7, <1>8, <1>10, <1>16, <1>20 DEF Present
<1> HIDE DEF r
<1> QED BY <1>17, <1>18, <1>19, <1>20

(* A section that is taken off leaves the slots, and the rings when it is  *)
(* another one.                                                            *)
LEMMA OtherTaken ==
  ASSUME NEW img, Sound(img), NEW s \in Sections \ (Home \cup {RINGS})
  PROVE  Carried(img, DoDelete(img, s).image, {})
<1> DEFINE r == DoDelete(img, s)
<1>1. /\ Shaped(r.image) /\ r.image.mem = img.mem
      /\ \A t \in Sections \ {s} : r.image.section[t] = img.section[t]
  BY DeleteOutcome DEF Sound
<1> HIDE DEF r
<1>2. \A t \in Home \cup {RINGS} : r.image.section[t] = img.section[t]
  BY <1>1, RingAssumption DEF Home
<1>3. \A slot \in RingSlots \ {} : SlotCell(r.image, slot) = SlotCell(img, slot)
  BY <1>1 DEF SlotCell
<1> QED BY <1>1, <1>2, <1>3, Stays DEF r

LEMMA NoRingsSound ==
  ASSUME NEW img, Sound(img), NEW r, Shaped(r), RINGS \notin Present(r), r.mem = img.mem,
         \A t \in Sections \ {RINGS} : r.section[t] = img.section[t]
  PROVE  Sound(r) /\ \A slot \in RingSlots : SlotCell(r, slot) = SlotCell(img, slot)
<1>1. RINGS \in Sections /\ RINGS \notin Home
  BY RingAssumption DEF Home, Dropped, Unnecessary
<1>2. Contents(r, RINGS) = << >>
  BY <1>1, ContentsIs
<1>3. Starts(<< >>) = {}
  BY DEF Starts
<1>4. Tiled(Contents(r, RINGS))
  BY <1>2, <1>3 DEF Tiled
<1>5. ASSUME NEW slot \in RingSlots PROVE AtHome(r, slot)
  <2>1. PICK t \in Present(img) \cap Home : InSection(img, t, Cell(slot))
    BY DEF Sound, AtHome
  <2>2. r.section[t] = img.section[t] /\ t \in Present(r)
    BY <1>1, <2>1 DEF Present
  <2> QED BY <2>1, <2>2 DEF AtHome, InSection
<1> QED BY <1>4, <1>5 DEF Sound, SlotCell

(***************************************************************************)
(* Pointers that are set.                                                  *)
(***************************************************************************)
LEMMA SectionsApart ==
  ASSUME NEW img, Shaped(img), NEW s \in Present(img), NEW t \in Present(img), s # t, NEW a, InSection(img, s, a)
  PROVE  ~ InSection(img, t, a)
<1>1. s \in Sections /\ t \in Sections
  BY DEF Present
<1>2. /\ DisjointIn(Flat(img)) /\ Flat(img).section = img.section /\ Present(Flat(img)) = Present(img)
  BY FlatFacts DEF Shaped, LaidOut
<1>3. End(img.section[s]) <= img.section[t].offset \/ End(img.section[t]) <= img.section[s].offset
  BY <1>2 DEF DisjointIn
<1>4. /\ img.section[s].offset \in Nat /\ End(img.section[s]) \in Nat
      /\ img.section[t].offset \in Nat /\ End(img.section[t]) \in Nat
  BY <1>1, ShapedTypes
<1> QED BY <1>3, <1>4 DEF InSection

LEMMA SlotNotInRings ==
  ASSUME NEW img, Sound(img), NEW slot \in RingSlots
  PROVE  ~ InSection(img, RINGS, Cell(slot))
<1>1. PICK t \in Present(img) \cap Home : InSection(img, t, Cell(slot))
  BY SlotPlace
<1>2. t # RINGS /\ RINGS \in Sections
  BY <1>1, RingAssumption DEF Home, Dropped, Unnecessary
<1>3. CASE RINGS \in Present(img)
  BY <1>1, <1>2, <1>3, SectionsApart DEF Sound
<1>4. CASE RINGS \notin Present(img)
  BY <1>2, <1>4, NoCells DEF Sound
<1> QED BY <1>3, <1>4

LEMMA CellOfSlot ==
  ASSUME NEW slot \in RingSlots, NEW other \in RingSlots, slot # other
  PROVE  Cell(slot) # Cell(other) /\ Cell(slot) \in Int
<1>1. slot \in Nat /\ other \in Nat /\ LinkAddress \in Nat
  BY SlotOfRing, XipAssumption
<1> QED BY <1>1 DEF Cell

LEMMA CellLaidOver ==
  ASSUME NEW mem, MemoryOf(mem), NEW a \in 0 .. BufferSize - 1, NEW x
  PROVE  LET m == Overlay(mem, a, <<x>>)
         IN  MemoryOf(m) /\ m[a] = x /\ \A i \in 0 .. BufferSize - 1 : i # a => m[i] = mem[i]
<1>1. a \in Nat /\ BufferSize \in Nat
  BY XipAssumption
<1>2. DOMAIN mem = 0 .. BufferSize - 1
  BY DEF MemoryOf
<1>3. Len(<<x>>) = 1 /\ <<x>>[1] = x
  OBVIOUS
<1>4. Overlay(mem, a, <<x>>) = [i \in 0 .. BufferSize - 1 |-> IF i \in a .. a + 1 - 1 THEN <<x>>[i - a + 1] ELSE mem[i]]
  BY <1>2, <1>3 DEF Overlay
<1>5. \A i \in 0 .. BufferSize - 1 : (i \in a .. a + 1 - 1 <=> i = a) /\ (i = a => i - a + 1 = 1)
  BY <1>1
<1> DEFINE m == Overlay(mem, a, <<x>>)
<1>6. \A i \in 0 .. BufferSize - 1 : m[i] = IF i = a THEN x ELSE mem[i]
  BY <1>3, <1>4, <1>5
<1>7. MemoryOf(m)
  BY <1>4 DEF MemoryOf
<1> HIDE DEF m
<1>8. m[a] = x /\ \A i \in 0 .. BufferSize - 1 : i # a => m[i] = mem[i]
  BY <1>6
<1> QED BY <1>7, <1>8 DEF m

(* A pointer that is written.                                              *)
PointerSet(img, r, slot, x) ==
    /\ Carried(img, r, {slot}) /\ r.section = img.section
    /\ Contents(r, RINGS) = Contents(img, RINGS) /\ Blocks(r, RINGS) = Blocks(img, RINGS)
    /\ SlotCell(r, slot) \in {SlotCell(img, slot), x}
LEMMA SlotSet ==
  ASSUME NEW img, Sound(img), NEW slot \in RingSlots, NEW x
  PROVE  /\ PointerSet(img, DoWriteDoubleword(img, slot, <<x>>), slot, x)
         /\ DoublewordCheck(img, slot) = "OK" => SlotCell(DoWriteDoubleword(img, slot, <<x>>), slot) = x
<1> DEFINE r == DoWriteDoubleword(img, slot, <<x>>)
           a == Cell(slot)
           mem == Overlay(img.mem, a, <<x>>)
<1>1. a \in 0 .. BufferSize - 1 /\ slot \in Nat /\ Shaped(img) /\ MemoryOf(img.mem)
  BY SlotPlace DEF Sound, Shaped
<1>2. a \in Nat /\ BufferSize \in Nat
  BY <1>1, XipAssumption
<1>3. a = slot - LinkAddress
  BY DEF Cell
<1> HIDE DEF a
<1>4. /\ MemoryOf(mem) /\ \A i \in 0 .. BufferSize - 1 : i # a => mem[i] = img.mem[i]
  BY <1>1, CellLaidOver
<1>5. mem[a] = x
  BY <1>1, CellLaidOver
<1> DEFINE w == [img EXCEPT !.mem = mem]
<1>6. r = w \/ r = [img EXCEPT !.mem = img.mem]
  BY <1>3, WriteCases
<1>7. [img EXCEPT !.mem = img.mem] = img
  BY <1>1 DEF Shaped, Fields
<1>8. DoublewordCheck(img, slot) = "OK" => r = w
  BY <1>3 DEF DoWriteDoubleword
<1> HIDE DEF mem, r
<1>9. Shaped(w) /\ w.mem = mem /\ w.section = img.section
  BY <1>1, <1>4, ShapedMemory
<1> HIDE DEF w
<1>10. \A i \in 0 .. BufferSize - 1 : InSection(img, RINGS, i) => w.mem[i] = img.mem[i]
  <2>1. ~ InSection(img, RINGS, a)
    BY SlotNotInRings DEF a
  <2> QED BY <1>4, <1>9, <2>1
<1>11. \A other \in RingSlots \ {slot} : SlotCell(w, other) = SlotCell(img, other)
  <2> TAKE other \in RingSlots \ {slot}
  <2>1. Cell(other) # a /\ Cell(other) \in 0 .. BufferSize - 1
    BY CellOfSlot, SlotPlace DEF a
  <2> QED BY <1>4, <1>9, <2>1 DEF SlotCell, Cell
<1>12. Carried(img, w, {slot}) /\ Contents(w, RINGS) = Contents(img, RINGS) /\ Blocks(w, RINGS) = Blocks(img, RINGS)
  BY <1>9, <1>10, <1>11, Stays
<1>13. SlotCell(w, slot) = x
  BY <1>3, <1>5, <1>9 DEF SlotCell
<1>14. Carried(img, img, {slot})
  BY <1>1, Stays
<1>15. CASE r = w
  BY <1>9, <1>12, <1>13, <1>15 DEF PointerSet, r
<1>16. CASE r = img
  BY <1>8, <1>14, <1>13, <1>16 DEF PointerSet, r
<1> QED BY <1>6, <1>7, <1>15, <1>16

(* write_ring_block_to_image links a block to its slot.                    *)
LinkedTo(img, s, offset) == IF s = RINGS THEN LinkAddress + img.section[RINGS].offset + offset ELSE 0
LEMMA LinkSets ==
  ASSUME NEW img, Sound(img), NEW s, NEW offset, NEW slot \in RingSlots
  PROVE  LET r == Link(img, s, offset, slot)
             x == Word(LinkedTo(img, s, offset))
         IN  /\ PointerSet(img, r.image, slot, x) /\ r = Answer(r.rc, r.image)
             /\ r.rc = "OK" => SlotCell(r.image, slot) = x
<1> DEFINE r == Link(img, s, offset, slot)
           fwd == IF s = RINGS THEN Section2Pore(img, s, offset) ELSE [rc |-> "OK", address |-> 0]
           x == Word(LinkedTo(img, s, offset))
           w == DoWriteDoubleword(img, slot, <<x>>)
<1>1. fwd.address = LinkedTo(img, s, offset)
  <2>1. CASE s = RINGS
    <3>1. Section2Pore(img, s, offset).address = LinkAddress + img.section[s].offset + offset
      BY Zenon DEF Section2Pore
    <3> QED BY <2>1, <3>1 DEF LinkedTo
  <2>2. CASE s # RINGS
    BY <2>2 DEF LinkedTo
  <2> QED BY <2>1, <2>2
<1>2. /\ PointerSet(img, w, slot, x) /\ (DoublewordCheck(img, slot) = "OK" => SlotCell(w, slot) = x)
  BY SlotSet
<1>3. Carried(img, img, {slot})
  BY Stays DEF Sound
<1>4. PointerSet(img, img, slot, x)
  BY <1>3 DEF PointerSet
<1>5. \/ r = Answer("XIP_MISC", img)
      \/ r = Answer("FWD_BACK_PTR_MESS", w)
      \/ r = Answer("OK", w) /\ DoublewordCheck(img, slot) = "OK"
  <2>1. r = IF fwd.rc # "OK" \/ DoublewordCheck(img, slot) # "OK" THEN Answer("XIP_MISC", img)
            ELSE IF ReadDoubleword(w, slot) # <<x>> THEN Answer("FWD_BACK_PTR_MESS", w) ELSE Answer("OK", w)
    <3>1. r = IF fwd.rc # "OK" \/ DoublewordCheck(img, slot) # "OK" THEN Answer("XIP_MISC", img)
              ELSE IF ReadDoubleword(DoWriteDoubleword(img, slot, <<Word(fwd.address)>>), slot) # <<Word(fwd.address)>>
              THEN Answer("FWD_BACK_PTR_MESS", DoWriteDoubleword(img, slot, <<Word(fwd.address)>>))
              ELSE Answer("OK", DoWriteDoubleword(img, slot, <<Word(fwd.address)>>))
      BY Zenon DEF Link
    <3> HIDE DEF fwd, r
    <3> QED BY <1>1, <3>1
  <2> HIDE DEF r, w, x, fwd
  <2> QED BY <2>1
<1> HIDE DEF r, w, x, fwd
<1>6. \A rc, i : r = Answer(rc, i) => r.rc = rc /\ r.image = i /\ r = Answer(r.rc, r.image)
  BY AnswerFields
<1>7. PointerSet(img, r.image, slot, x) /\ r = Answer(r.rc, r.image) /\ (r.rc = "OK" => SlotCell(r.image, slot) = x)
  BY <1>2, <1>4, <1>5, <1>6
<1> QED BY <1>7 DEF r, x

(* Where a pointer leads.                                                  *)
PointsTo(img, slot, data) ==
    LET at == Pointer(img, slot) - LinkAddress
    IN  at \in Blocks(img, RINGS) /\ img.mem[at].back = slot /\ DataAt(img, at) = data
BodyOf(block) == [k \in 1 .. Len(block) - 1 |-> block[k + 1].data]
Well(img) == Sound(img) /\ \A slot \in RingSlots : Leads(img, slot)

LEMMA LeadsAgain ==
  ASSUME NEW img, NEW r, KeepsBlocks(img, r), NEW slot, SlotCell(r, slot) = SlotCell(img, slot)
  PROVE  /\ Leads(img, slot) => Leads(r, slot)
         /\ \A data : PointsTo(img, slot, data) => PointsTo(r, slot, data)
         /\ Pointer(r, slot) = Pointer(img, slot)
<1>1. Pointer(r, slot) = Pointer(img, slot)
  BY DEF Pointer
<1> QED BY <1>1 DEF Leads, PointsTo, KeepsBlocks, SameBlock

LEMMA WordIsPointer ==
  ASSUME NEW img, NEW slot, NEW n, SlotCell(img, slot) = Word(n)
  PROVE  Pointer(img, slot) = n
BY DEF Pointer, Word

LEMMA WellCarried ==
  ASSUME NEW img, Well(img), NEW r, NEW slot, Carried(img, r, {slot}), slot \in RingSlots => Leads(r, slot)
  PROVE  Well(r)
<1>1. ASSUME NEW other \in RingSlots, other # slot PROVE Leads(r, other)
  BY <1>1, LeadsAgain DEF Carried, Well
<1> QED BY <1>1 DEF Well, Carried

(***************************************************************************)
(* write_ring_block_to_image.                                              *)
(***************************************************************************)
LEMMA DeleteIsAnswer ==
  ASSUME NEW img, NEW s
  PROVE  DoDelete(img, s) = Answer(DoDelete(img, s).rc, DoDelete(img, s).image)
BY DEF DoDelete, Answer

LEMMA RecodedAnswer ==
  ASSUME NEW rc, NEW i, NEW code
  PROVE  [Answer(rc, i) EXCEPT !.rc = code] = Answer(code, i)
BY DEF Answer

LEMMA TakeOffIs ==
  ASSUME NEW img, NEW s, NEW size
  PROVE  \E rc : \/ TakeOff(img, s, size) = Answer(rc, img)
                \/ TakeOff(img, s, size) = Answer(rc, DoDelete(img, DCRINGS).image)
<1> DEFINE d == DoDelete(img, DCRINGS)
           r == TakeOff(img, s, size)
<1>1. d = Answer(d.rc, d.image)
  BY DeleteIsAnswer
<1>2. \/ \E rc : r = Answer(rc, img)
      \/ r = d \/ r = [d EXCEPT !.rc = "SECTION_DELETE"]
  BY DEF TakeOff, Mapped
<1> HIDE DEF d, r
<1>3. [d EXCEPT !.rc = "SECTION_DELETE"] = Answer("SECTION_DELETE", d.image)
  BY <1>1, RecodedAnswer
<1>4. \E rc : r = Answer(rc, img) \/ r = Answer(rc, d.image)
  BY <1>1, <1>2, <1>3, Zenon
<1> QED BY <1>4 DEF d, r

LEMMA PutBackIs ==
  ASSUME NEW img, NEW old, NEW s, NEW max
  PROVE  \E rc : \/ PutBack(img, old, s, max) = Answer(rc, img)
                \/ PutBack(img, old, s, max) = Answer(rc, DoAppend(img, DCRINGS, Contents(old, DCRINGS), max).image)
<1> DEFINE d == DoAppend(img, DCRINGS, Contents(old, DCRINGS), max)
           m == [rc |-> d.rc, image |-> d.image]
           r == PutBack(img, old, s, max)
<1>1. \/ r = Answer("OK", img)
      \/ r = m \/ r = [m EXCEPT !.rc = AppendCode(m.rc)]
  BY DEF PutBack, Mapped
<1>2. m = Answer(d.rc, d.image)
  BY DEF Answer
<1> HIDE DEF d, r, m
<1>3. [m EXCEPT !.rc = AppendCode(m.rc)] = Answer(AppendCode(m.rc), d.image)
  BY <1>2, RecodedAnswer
<1>4. \E rc : r = Answer(rc, img) \/ r = Answer(rc, d.image)
  BY <1>1, <1>2, <1>3, Zenon
<1> QED BY <1>4 DEF d, r

LEMMA RingTakenOff ==
  ASSUME NEW img, Sound(img), NEW s, NEW size
  PROVE  LET r == TakeOff(img, s, size)
         IN  Carried(img, r.image, {}) /\ r = Answer(r.rc, r.image)
<1>1. DCRINGS \in Sections \ (Home \cup {RINGS})
  BY RingAssumption DEF Home, Dropped, Unnecessary, DCRINGS, RINGS
<1>2. Carried(img, DoDelete(img, DCRINGS).image, {})
  BY <1>1, OtherTaken
<1>3. Carried(img, img, {})
  BY Stays DEF Sound
<1>4. PICK rc, i : TakeOff(img, s, size) = Answer(rc, i) /\ Carried(img, i, {})
  BY <1>2, <1>3, TakeOffIs, Zenon
<1> QED BY <1>4, AnswerFields

LEMMA RingPutBack ==
  ASSUME NEW img, Sound(img), NEW old, Sound(old), NEW s, NEW max \in Int, max <= BufferSize
  PROVE  LET r == PutBack(img, old, s, max)
         IN  Carried(img, r.image, {}) /\ r = Answer(r.rc, r.image)
<1>1. DCRINGS \in Sections \ (Home \cup {RINGS})
  BY RingAssumption DEF Home, Dropped, Unnecessary, DCRINGS, RINGS
<1>2. Contents(old, DCRINGS) \in Seq(CellsOf(old))
  BY <1>1, ContentsIs DEF Sound
<1>3. Carried(img, DoAppend(img, DCRINGS, Contents(old, DCRINGS), max).image, {})
  BY <1>1, <1>2, OtherAppended
<1>4. Carried(img, img, {})
  BY Stays DEF Sound
<1>5. PICK rc, i : PutBack(img, old, s, max) = Answer(rc, i) /\ Carried(img, i, {})
  BY <1>3, <1>4, PutBackIs, Zenon
<1> QED BY <1>5, AnswerFields

(* A block with its back pointer.                                          *)
IsBlock(b) ==
    /\ \E X : b \in Seq(X)
    /\ b # << >> /\ b[1] = Header(b[1].back, Len(b), b[1].dd, b[1].phase, b[1].override)
RingWith(block, back) == [block EXCEPT ![1].back = back]
IsRing(ring, back, data) ==
    /\ \E Y : ring \in Seq(Y)
    /\ ring # << >> /\ ring[1].size = Len(ring) /\ ring[1].back = back /\ BodyOf(ring) = data
LEMMA BlockWithBack ==
  ASSUME NEW block, IsBlock(block), NEW back
  PROVE  IsRing(RingWith(block, back), back, BodyOf(block))
<1> DEFINE ring == [block EXCEPT ![1].back = back]
           n == Len(block)
           Y == {ring[i] : i \in 1 .. n}
           h == [block[1] EXCEPT !.back = back]
<1>1. n \in Nat \ {0} /\ DOMAIN block = 1 .. n
  BY EmptySeq DEF IsBlock
<1>2. h.back = back /\ h.size = n
  BY DEF Header, IsBlock
<1>3. ring = [i \in 1 .. n |-> IF i = 1 THEN h ELSE block[i]]
  <2>1. block = [i \in 1 .. n |-> block[i]]
    <3>1. PICK X : block \in Seq(X)
      BY DEF IsBlock
    <3> HIDE DEF n
    <3> QED BY <1>1, <3>1
  <2> HIDE DEF n
  <2> QED BY <1>1, <2>1
<1>4. 1 \in 1 .. n
  BY <1>1
<1> HIDE DEF ring, n, h
<1>5. ring[1].back = back /\ ring[1].size = n /\ \A i \in 2 .. n : ring[i] = block[i]
  BY <1>1, <1>2, <1>3, <1>4
<1>6. ring = [i \in 1 .. n |-> ring[i]] /\ \A i \in 1 .. n : ring[i] \in Y
  BY <1>3
<1> HIDE DEF Y
<1>7. ring \in Seq(Y) /\ Len(ring) = n
  BY <1>1, <1>6
<1>8. ring # << >>
  BY <1>1, <1>7, EmptySeq
<1>9. \A k \in 1 .. n - 1 : ring[k + 1] = block[k + 1]
  BY <1>1, <1>5
<1>10. BodyOf(ring) = BodyOf(block)
  BY <1>7, <1>9 DEF BodyOf, n
<1>11. IsRing(ring, back, BodyOf(block))
  BY <1>5, <1>7, <1>8, <1>10 DEF IsRing
<1>12. RingWith(block, back) = ring
  BY Zenon DEF RingWith, ring
<1> QED BY <1>11, <1>12, Zenon

(* The images of its steps, and what each of its returns leaves.           *)
OffOf(img, s, size) == TakeOff(img, s, size)
AppOf(img, s, size, block, back, max) ==
    DoAppend(OffOf(img, s, size).image, s, RingWith(block, back), max - (IF s = RINGS THEN img.section[DCRINGS].size ELSE 0))
PutOf(img, s, size, block, back, max) == PutBack(AppOf(img, s, size, block, back, max).image, img, s, max)
LinkOf(img, s, size, block, back, max) ==
    Link(PutOf(img, s, size, block, back, max).image, s, AppOf(img, s, size, block, back, max).offset, back)
WriteEnds(r, img, off, app, put, link) ==
    \/ \E rc : rc # "OK" /\ (r = Answer(rc, img) \/ r = Answer(rc, app.image) \/ r = Answer(rc, put.image))
    \/ r = off /\ off.rc # "OK"
    \/ r = put /\ put.rc # "OK"
    \/ r = link /\ link.rc # "OK" /\ app.rc = "OK"
    \/ (\E rc : r = Answer(rc, link.image)) /\ app.rc = "OK" /\ link.rc = "OK"
LEMMA AppendFails == ASSUME NEW rc PROVE AppendCode(rc) # "OK"
BY DEF AppendCode
LEMMA BlockWriteIs ==
  ASSUME NEW img, NEW name, NEW block, NEW idx, NEW max, NEW s, NEW size,
         NEW back, back = IF name = NoName THEN block[1].back ELSE BackPointer(name, idx, 0, 0)
  PROVE  WriteEnds(WriteRingBlock(img, name, block, idx, 0, 0, max, s, size), img, OffOf(img, s, size),
                   AppOf(img, s, size, block, back, max), PutOf(img, s, size, block, back, max),
                   LinkOf(img, s, size, block, back, max))
<1> DEFINE r == WriteRingBlock(img, name, block, idx, 0, 0, max, s, size)
           off == OffOf(img, s, size)
           app == AppOf(img, s, size, block, back, max)
           put == PutOf(img, s, size, block, back, max)
           link == LinkOf(img, s, size, block, back, max)
<1>1. r = IF name # NoName /\ ~ Found(img, name) THEN Answer("KEYWORD_NOT_FOUND", img)
          ELSE IF off.rc # "OK" THEN off
          ELSE IF app.rc # "OK" THEN Answer(AppendCode(app.rc), app.image)
          ELSE IF put.rc # "OK" THEN put
          ELSE IF Validated(put.image).rc # "OK" THEN Validated(put.image)
          ELSE IF link.rc # "OK" THEN link
          ELSE Validated(link.image)
  BY Zenon DEF WriteRingBlock, OffOf, AppOf, PutOf, LinkOf, RingWith
<1> HIDE DEF r, off, app, put, link
<1>2. \A i : Validated(i).rc # "OK" => Validated(i) = Answer("XIP_MISC", i)
  BY AnswerFields DEF Validated
<1>3. \A i : \E rc : Validated(i) = Answer(rc, i)
  BY Zenon DEF Validated
<1>4. WriteEnds(r, img, off, app, put, link)
  <2>1. "KEYWORD_NOT_FOUND" # "OK" /\ "XIP_MISC" # "OK"
    OBVIOUS
  <2> QED BY <1>1, <1>2, <1>3, <2>1, AppendFails, Zenon DEF WriteEnds
<1> QED BY <1>4, Zenon DEF r, off, app, put, link

LEMMA AppendOffset ==
  ASSUME NEW img, NEW s, NEW data, NEW allocation
  PROVE  DoAppend(img, s, data, allocation).offset = img.section[s].size
BY DEF DoAppend

LEMMA PointsLeads ==
  ASSUME NEW img, NEW slot, NEW data, PointsTo(img, slot, data)
  PROVE  Leads(img, slot)
BY DEF PointsTo, Leads

LEMMA ZeroLeads ==
  ASSUME NEW img, NEW slot, Pointer(img, slot) = 0
  PROVE  Leads(img, slot)
BY DEF Leads

(* A block that is appended to .rings is where its address says until it   *)
(* is linked.                                                              *)
LinkedAs(put, r, slot, x, data) ==
    (Leads(put, slot) => Leads(r, slot)) /\ (SlotCell(r, slot) = x => PointsTo(r, slot, data))
LEMMA LinkedBlock ==
  ASSUME NEW img, Sound(img), NEW slot, NEW data, NEW ring, IsRing(ring, slot, data),
         NEW app, Added(img, app, ring), Carried(img, app, {}),
         NEW put, Carried(app, put, {}), NEW r,
         PointerSet(put, r, slot, Word(LinkedTo(put, RINGS, img.section[RINGS].size)))
  PROVE  LinkedAs(put, r, slot, Word(LinkedTo(put, RINGS, img.section[RINGS].size)), data)
<1>. PICK Y : ring \in Seq(Y)
  BY DEF IsRing
<1>. ring # << >> /\ ring[1].size = Len(ring) /\ slot = ring[1].back /\ BodyOf(ring) = data
  BY DEF IsRing
<1> DEFINE n == img.section[RINGS].size
           x == Word(LinkedTo(put, RINGS, n))
           at == app.section[RINGS].offset + n
<1>1. /\ at \in Blocks(app, RINGS) /\ RINGS \in Present(app)
      /\ \A k \in 1 .. Len(ring) : app.mem[at + k - 1] = ring[k]
  BY DEF Added
<1>2. put.section[RINGS].offset = app.section[RINGS].offset /\ at \in Blocks(put, RINGS) /\ SameBlock(app, put, at)
  BY <1>1 DEF Carried, KeepsBlocks
<1>3. at \in Blocks(r, RINGS) /\ SameBlock(put, r, at)
  BY <1>2 DEF PointerSet, Carried, KeepsBlocks
<1>4. /\ n \in Nat /\ app.section[RINGS].offset \in Nat /\ LinkAddress \in Nat /\ Len(ring) \in Nat \ {0}
  BY ShapedTypes, RingAssumption, XipAssumption, EmptySeq DEF Sound, Carried
<1>5. LinkedTo(put, RINGS, n) - LinkAddress = at /\ at \in Nat
  <2>1. LinkedTo(put, RINGS, n) = LinkAddress + app.section[RINGS].offset + n
    BY <1>2 DEF LinkedTo
  <2> QED BY <1>4, <2>1
<1> HIDE DEF at, n, x
<1>6. app.mem[at] = ring[1] /\ \A k \in 1 .. Len(ring) - 1 : app.mem[at + k] = ring[k + 1]
  <2>1. 1 \in 1 .. Len(ring) /\ at + 1 - 1 = at
    BY <1>4, <1>5
  <2>2. \A k \in 1 .. Len(ring) - 1 : k + 1 \in 1 .. Len(ring) /\ at + (k + 1) - 1 = at + k
    BY <1>4, <1>5
  <2> QED BY <1>1, <2>1, <2>2
<1>7. DataAt(app, at) = BodyOf(ring)
  BY <1>6 DEF DataAt, BodyOf
<1>8. r.mem[at].back = slot /\ DataAt(r, at) = BodyOf(ring)
  BY <1>2, <1>3, <1>6, <1>7 DEF SameBlock
<1>9. SlotCell(r, slot) = x => PointsTo(r, slot, BodyOf(ring))
  <2> SUFFICES ASSUME SlotCell(r, slot) = x PROVE PointsTo(r, slot, BodyOf(ring))
    OBVIOUS
  <2>1. Pointer(r, slot) = LinkedTo(put, RINGS, n)
    BY WordIsPointer DEF x
  <2> QED BY <1>3, <1>5, <1>8, <2>1 DEF PointsTo
<1>10. SlotCell(r, slot) \in {SlotCell(put, slot), x} /\ KeepsBlocks(put, r)
  BY DEF PointerSet, Carried, x, n
<1>11. Leads(put, slot) => Leads(r, slot)
  BY <1>9, <1>10, LeadsAgain, PointsLeads
<1> QED BY <1>9, <1>11 DEF x, n, LinkedAs

(* write_ring_block_to_image adds a block and links it: a slot that leads  *)
(* to a block does so after any of its returns, and after its success to   *)
(* the new one, or, for .dcrings, nowhere.                                 *)
RingPlaced(img, r, s, slot, data) ==
    /\ r = Answer(r.rc, r.image) /\ Carried(img, r.image, {slot})
    /\ Leads(img, slot) => Leads(r.image, slot)
    /\ r.rc = "OK" => IF s = RINGS THEN PointsTo(r.image, slot, data) ELSE Pointer(r.image, slot) = 0
LEMMA PlacedBy ==
  ASSUME NEW img, NEW slot \in RingSlots, NEW i, Carried(img, i, {slot}), Leads(img, slot) => Leads(i, slot),
         NEW rc, rc # "OK", NEW s, NEW data
  PROVE  RingPlaced(img, Answer(rc, i), s, slot, data)
BY AnswerFields DEF RingPlaced
LEMMA CarriedLeads ==
  ASSUME NEW img, NEW slot \in RingSlots, NEW i, Carried(img, i, {})
  PROVE  Carried(img, i, {slot}) /\ (Leads(img, slot) => Leads(i, slot))
<1>1. SlotCell(i, slot) = SlotCell(img, slot) /\ KeepsBlocks(img, i)
  BY DEF Carried
<1>2. Leads(img, slot) => Leads(i, slot)
  BY <1>1, LeadsAgain
<1> QED BY <1>2 DEF Carried

LEMMA CarriedOn ==
  ASSUME NEW img, NEW r, NEW q, NEW T, Carried(img, r, {}), Carried(r, q, T)
  PROVE  Carried(img, q, T)
<1>1. {} \cup T = T
  OBVIOUS
<1>2. Carried(img, q, {} \cup T)
  BY CarriedThrough
<1> QED BY <1>1, <1>2
LEMMA RingPlacedBy ==
  ASSUME NEW img, Sound(img), NEW s \in RingSections, NEW slot \in RingSlots, NEW data,
         NEW ring, IsRing(ring, slot, data),
         NEW off, Carried(img, off.image, {}), off = Answer(off.rc, off.image),
         NEW app, Carried(off.image, app.image, {}), app.offset = off.image.section[s].size,
         s = RINGS /\ app.rc = "OK" => Added(off.image, app.image, ring),
         NEW put, Carried(app.image, put.image, {}), put = Answer(put.rc, put.image),
         NEW link, link = Answer(link.rc, link.image),
         PointerSet(put.image, link.image, slot, Word(LinkedTo(put.image, s, app.offset))),
         link.rc = "OK" => SlotCell(link.image, slot) = Word(LinkedTo(put.image, s, app.offset)),
         NEW r, WriteEnds(r, img, off, app, put, link)
  PROVE  RingPlaced(img, r, s, slot, data)
<1>12. Carried(img, img, {})
  BY Stays DEF Sound
<1>13. Carried(img, app.image, {}) /\ Carried(img, put.image, {})
  BY CarriedOn, Zenon
<1>14. Carried(img, link.image, {slot})
  BY <1>13, CarriedOn, Zenon DEF PointerSet
<1>15. CASE r.rc # "OK" /\ (\E rc : r = Answer(rc, img) \/ r = Answer(rc, off.image)
                                    \/ r = Answer(rc, app.image) \/ r = Answer(rc, put.image))
  <2>1. PICK rc, i : r = Answer(rc, i) /\ Carried(img, i, {})
    BY <1>12, <1>13, <1>15, Zenon
  <2>2. rc # "OK"
    BY <1>15, <2>1, AnswerFields
  <2> QED BY <2>1, <2>2, CarriedLeads, PlacedBy
<1>16. app.rc = "OK" =>
          /\ Leads(img, slot) => Leads(link.image, slot)
          /\ link.rc = "OK" => IF s = RINGS THEN PointsTo(link.image, slot, data) ELSE Pointer(link.image, slot) = 0
  <2> SUFFICES ASSUME app.rc = "OK"
               PROVE  /\ Leads(img, slot) => Leads(link.image, slot)
                      /\ link.rc = "OK" => IF s = RINGS THEN PointsTo(link.image, slot, data) ELSE Pointer(link.image, slot) = 0
    OBVIOUS
  <2>1. Leads(img, slot) => Leads(put.image, slot)
    BY <1>13, CarriedLeads
  <2>2. CASE s = RINGS
    <3>1. LinkedAs(put.image, link.image, slot, Word(LinkedTo(put.image, RINGS, off.image.section[RINGS].size)), data)
      <4>1. Sound(off.image)
        BY DEF Carried
      <4>2. Added(off.image, app.image, ring)
        BY <2>2
      <4>3. PointerSet(put.image, link.image, slot, Word(LinkedTo(put.image, RINGS, off.image.section[RINGS].size)))
        BY <2>2
      <4> QED BY <4>1, <4>2, <4>3, LinkedBlock, Zenon
    <3> QED BY <2>1, <2>2, <3>1 DEF LinkedAs
  <2>3. CASE s # RINGS
    <3>1. LinkedTo(put.image, s, app.offset) = 0
      BY <2>3 DEF LinkedTo
    <3>2. SlotCell(link.image, slot) \in {SlotCell(put.image, slot), Word(0)} /\ KeepsBlocks(put.image, link.image)
      BY <3>1 DEF PointerSet, Carried
    <3>3. SlotCell(link.image, slot) = Word(0) => Pointer(link.image, slot) = 0
      BY WordIsPointer
    <3>4. Leads(put.image, slot) => Leads(link.image, slot)
      BY <3>2, <3>3, LeadsAgain, ZeroLeads
    <3> QED BY <2>1, <2>3, <3>1, <3>3, <3>4
  <2> QED BY <2>2, <2>3
<1>17. CASE app.rc = "OK" /\ (\E rc : r = Answer(rc, link.image)) /\ (r.rc = "OK" => link.rc = "OK")
  <2>1. r.image = link.image /\ r = Answer(r.rc, r.image)
    BY <1>17, AnswerFields
  <2> QED BY <1>14, <1>16, <1>17, <2>1 DEF RingPlaced
<1>18. \/ r.rc # "OK" /\ (\E rc : r = Answer(rc, img) \/ r = Answer(rc, off.image)
                                  \/ r = Answer(rc, app.image) \/ r = Answer(rc, put.image))
       \/ app.rc = "OK" /\ (\E rc : r = Answer(rc, link.image)) /\ (r.rc = "OK" => link.rc = "OK")
  <2>1. \A rc, i : r = Answer(rc, i) => r.rc = rc
    BY AnswerFields
  <2> QED BY <2>1, Zenon DEF WriteEnds
<1> QED BY <1>15, <1>17, <1>18

LEMMA RingWritten ==
  ASSUME NEW img, Sound(img), NEW s \in RingSections, NEW block, IsBlock(block), NEW max \in Int, max <= BufferSize,
         NEW name, NEW idx, NEW size, NEW slot \in RingSlots,
         slot = IF name = NoName THEN block[1].back ELSE BackPointer(name, idx, 0, 0)
  PROVE  RingPlaced(img, WriteRingBlock(img, name, block, idx, 0, 0, max, s, size), s, slot, BodyOf(block))
<1> DEFINE ring == RingWith(block, slot)
           off  == OffOf(img, s, size)
           app  == AppOf(img, s, size, block, slot, max)
           put  == PutOf(img, s, size, block, slot, max)
           link == LinkOf(img, s, size, block, slot, max)
           r    == WriteRingBlock(img, name, block, idx, 0, 0, max, s, size)
<1>1. IsRing(ring, slot, BodyOf(block))
  BY BlockWithBack, Zenon
<1>2. PICK room \in Int : room <= BufferSize /\ app = DoAppend(off.image, s, ring, room)
  <2>1. img.section[DCRINGS].size \in Nat
    BY ShapedTypes, RingAssumption DEF Sound
  <2>2. \A n \in Nat : max - n \in Int /\ max - n <= BufferSize
    BY XipAssumption
  <2>3. LET room == max - (IF s = RINGS THEN img.section[DCRINGS].size ELSE 0) IN room \in Int /\ room <= BufferSize
    <3>1. 0 \in Nat
      OBVIOUS
    <3> QED BY <2>1, <2>2, <3>1, Zenon
  <2>4. app = DoAppend(off.image, s, ring, max - (IF s = RINGS THEN img.section[DCRINGS].size ELSE 0))
    BY Zenon DEF AppOf
  <2> QED BY <2>3, <2>4, Zenon
<1>3. Carried(img, off.image, {}) /\ off = Answer(off.rc, off.image)
  BY RingTakenOff, Zenon DEF OffOf
<1>4. put = PutBack(app.image, img, s, max) /\ link = Link(put.image, s, app.offset, slot)
  BY Zenon DEF PutOf, LinkOf
<1>5. WriteEnds(r, img, off, app, put, link)
  BY BlockWriteIs
<1> HIDE DEF ring, off, app, put, link, r
<1>6. app.offset = off.image.section[s].size
  BY <1>2, AppendOffset
<1>7. s \in Sections /\ s \notin Home /\ (s # RINGS => s \in Sections \ (Home \cup {RINGS}))
  BY RingAssumption DEF RingSections, Home, Dropped, Unnecessary
<1>8. Sound(off.image)
  BY <1>3, Zenon DEF Carried
<1>9. Carried(off.image, app.image, {}) /\ (s = RINGS /\ app.rc = "OK" => Added(off.image, app.image, ring))
  <2>1. CASE s = RINGS
    BY <1>1, <1>2, <1>8, <2>1, BlockAppended DEF IsRing
  <2>2. CASE s # RINGS
    BY <1>1, <1>2, <1>7, <1>8, <2>2, OtherAppended DEF IsRing
  <2> QED BY <2>1, <2>2, Zenon
<1>10. Carried(app.image, put.image, {}) /\ put = Answer(put.rc, put.image)
  <2>1. Sound(app.image)
    BY <1>9, Zenon DEF Carried
  <2> QED BY <1>4, <2>1, RingPutBack
<1>11. /\ PointerSet(put.image, link.image, slot, Word(LinkedTo(put.image, s, app.offset)))
       /\ link = Answer(link.rc, link.image)
       /\ link.rc = "OK" => SlotCell(link.image, slot) = Word(LinkedTo(put.image, s, app.offset))
  <2>1. Sound(put.image)
    BY <1>10, Zenon DEF Carried
  <2> QED BY <1>4, <2>1, LinkSets
<1>12. RingPlaced(img, r, s, slot, BodyOf(block))
  <2> QED BY <1>1, <1>3, <1>5, <1>6, <1>9, <1>10, <1>11, RingPlacedBy
<1> QED BY <1>12 DEF r

(* The blocks that are written.                                            *)
LEMMA MapIsSeq ==
  ASSUME NEW m \in Nat, NEW f, NEW S, \A k \in 1 .. m : f[k] \in S
  PROVE  [k \in 1 .. m |-> f[k]] \in Seq(S)
OBVIOUS

LEMMA Rs4IsBlock ==
  ASSUME NEW back, NEW dd, NEW phase, NEW override, NEW data \in Seq(Nat)
  PROVE  LET b == Rs4Block(back, dd, phase, override, data)
         IN  IsBlock(b) /\ b[1].back = back /\ BodyOf(b) = data /\ Len(b) \in Nat \ {0}
<1> DEFINE b == Rs4Block(back, dd, phase, override, data)
           X == {b[k] : k \in DOMAIN b}
           n == Len(data)
<1>1. /\ Len(b) = 1 + n /\ DOMAIN b = 1 .. Len(b) /\ b[1] = Header(back, Len(b), dd, phase, override)
      /\ \A k \in DOMAIN data : b[k + 1] = Body(data[k])
      /\ b = BlockFunction(Header(back, 1 + n, dd, phase, override), data)
  BY BlockCells
<1>2. n \in Nat /\ DOMAIN data = 1 .. n /\ data = [k \in 1 .. n |-> data[k]]
  OBVIOUS
<1> HIDE DEF b, n
<1>3. b = [k \in 1 .. 1 + n |-> b[k]]
  BY <1>1 DEF BlockFunction, n
<1>4. b \in Seq(X)
  <2>0. DOMAIN b = 1 .. 1 + n
    BY <1>1
  <2>1. 1 + n \in Nat /\ \A k \in 1 .. 1 + n : b[k] \in X
    BY <1>2, <2>0
  <2> HIDE DEF X
  <2>2. [k \in 1 .. 1 + n |-> b[k]] \in Seq(X)
    BY <2>1, MapIsSeq
  <2> QED BY <1>3, <2>2
<1>5. b[1].back = back /\ b[1].dd = dd /\ b[1].phase = phase /\ b[1].override = override
  BY <1>1 DEF Header
<1>6. b # << >>
  BY <1>1, <1>2, <1>4, EmptySeq
<1>7. IsBlock(b)
  BY <1>1, <1>4, <1>5, <1>6 DEF IsBlock
<1>8. BodyOf(b) = data
  <2>1. \A k \in 1 .. n : b[k + 1].data = data[k]
    <3>1. \A x : Body(x).data = x
      BY DEF Body
    <3> QED BY <1>1, <1>2, <3>1
  <2>2. Len(b) - 1 = n
    BY <1>1, <1>2
  <2>3. BodyOf(b) = [k \in 1 .. n |-> b[k + 1].data]
    BY <2>2 DEF BodyOf
  <2>4. [k \in 1 .. n |-> b[k + 1].data] = [k \in 1 .. n |-> data[k]]
    BY <2>1
  <2> QED BY <1>2, <2>3, <2>4
<1>9. Len(b) \in Nat \ {0}
  BY <1>1, <1>2
<1> QED BY <1>5, <1>7, <1>8, <1>9 DEF b

LEMMA WfIsBlock ==
  ASSUME NEW back, NEW data \in Seq(Nat)
  PROVE  LET b == WfBlock(back, data)
         IN  IsBlock(b) /\ b[1].back = back /\ BodyOf(b) = data /\ Len(b) \in Nat \ {0}
<1>1. WfBlock(back, data) = Rs4Block(back, NoDd, 0, 0, data)
  BY Zenon DEF WfBlock, Rs4Block
<1> QED BY <1>1, Rs4IsBlock

(* A block with the pointer it has.                                        *)
LEMMA BlockIsRing ==
  ASSUME NEW b, IsBlock(b)
  PROVE  IsRing(b, b[1].back, BodyOf(b))
<1>1. b[1].size = Len(b)
  <2>1. \A x, n, dd, phase, override : Header(x, n, dd, phase, override).size = n
    BY DEF Header
  <2> QED BY <2>1 DEF IsBlock
<1> QED BY <1>1 DEF IsBlock, IsRing

(* write_wiggle_flip_to_image adds one too.                                *)
FlipEnds(r, img, app, link) ==
    \/ \E rc : rc # "OK" /\ (r = Answer(rc, img) \/ r = Answer(rc, app.image))
    \/ r = link /\ link.rc # "OK" /\ app.rc = "OK"
    \/ (\E rc : r = Answer(rc, link.image)) /\ app.rc = "OK" /\ link.rc = "OK"
FlipSize(img, layout, program) == img.size + Len(WfBlock(layout.back, program)) + MaxAlign
FlipOf(img, layout, program) == DoAppend(img, RINGS, WfBlock(layout.back, program), FlipSize(img, layout, program))
FlipLink(img, layout, program) ==
    Link(FlipOf(img, layout, program).image, RINGS, FlipOf(img, layout, program).offset, layout.back)
LEMMA FlipIs ==
  ASSUME NEW img, NEW max, NEW layout, NEW program
  PROVE  LET r == WriteWiggleFlip(img, max, layout, program, MaxAlign)
         IN  \/ r = Answer("IMAGE_TOO_LARGE", img)
             \/ /\ ~ (FlipSize(img, layout, program) > max)
                /\ FlipEnds(r, img, FlipOf(img, layout, program), FlipLink(img, layout, program))
<1> DEFINE size == FlipSize(img, layout, program)
           app == FlipOf(img, layout, program)
           link == FlipLink(img, layout, program)
           r == WriteWiggleFlip(img, max, layout, program, MaxAlign)
           m == [rc |-> app.rc, image |-> app.image]
<1>1. r = IF size > max THEN Answer("IMAGE_TOO_LARGE", img)
          ELSE Then(Then(Then(Mapped(m, LAMBDA rc : "XIP_MISC"), Validated),
                         LAMBDA i : Link(i, RINGS, app.offset, layout.back)), Validated)
  BY Zenon DEF WriteWiggleFlip, FlipSize, FlipOf
<1>2. link = Link(app.image, RINGS, app.offset, layout.back)
  BY Zenon DEF FlipLink
<1> HIDE DEF size, app, link, r
<1>3. ASSUME ~ (size > max) PROVE FlipEnds(r, img, app, link)
  <2> DEFINE one == IF app.rc = "OK" THEN m ELSE [m EXCEPT !.rc = "XIP_MISC"]
             two == IF one.rc = "OK" THEN Validated(one.image) ELSE one
             three == IF two.rc = "OK" THEN Link(two.image, RINGS, app.offset, layout.back) ELSE two
             four == IF three.rc = "OK" THEN Validated(three.image) ELSE three
  <2>1. r = four
    <3>1. m.rc = app.rc
      OBVIOUS
    <3>2. r = Then(Then(Then(Mapped(m, LAMBDA rc : "XIP_MISC"), Validated),
                         LAMBDA i : Link(i, RINGS, app.offset, layout.back)), Validated)
      BY <1>1, <1>3, Zenon
    <3> HIDE DEF m
    <3>3. Mapped(m, LAMBDA rc : "XIP_MISC") = one
      BY <3>1, Zenon DEF Mapped
    <3>4. r = Then(Then(Then(one, Validated), LAMBDA i : Link(i, RINGS, app.offset, layout.back)), Validated)
      BY <3>2, <3>3
    <3> HIDE DEF one
    <3>5. Then(one, Validated) = two
      BY Zenon DEF Then
    <3>6. r = Then(Then(two, LAMBDA i : Link(i, RINGS, app.offset, layout.back)), Validated)
      BY <3>4, <3>5
    <3> HIDE DEF two
    <3>7. Then(two, LAMBDA i : Link(i, RINGS, app.offset, layout.back)) = three
      BY Zenon DEF Then
    <3>8. r = Then(three, Validated)
      BY <3>6, <3>7
    <3> HIDE DEF three
    <3> QED BY <3>8, Zenon DEF Then
  <2>2. m = Answer(app.rc, app.image) /\ [m EXCEPT !.rc = "XIP_MISC"] = Answer("XIP_MISC", app.image)
    BY DEF Answer
  <2> HIDE DEF m
  <2>3. \A i : Validated(i) = Answer("OK", i) \/ Validated(i) = Answer("XIP_MISC", i)
    BY DEF Validated
  <2>4. \A rc, i : Answer(rc, i).rc = rc /\ Answer(rc, i).image = i
    BY AnswerFields
  <2>5. "XIP_MISC" # "OK"
    OBVIOUS
  <2>6. one = Answer(IF app.rc = "OK" THEN "OK" ELSE "XIP_MISC", app.image)
    BY <2>2
  <2>7. \/ app.rc = "OK" /\ two = Answer("OK", app.image)
        \/ two = Answer("XIP_MISC", app.image)
    <3> HIDE DEF one
    <3> QED BY <2>3, <2>4, <2>5, <2>6
  <2>8. \/ app.rc = "OK" /\ three = link
        \/ three = Answer("XIP_MISC", app.image)
    <3> HIDE DEF two
    <3> QED BY <1>2, <2>4, <2>5, <2>7
  <2>9. FlipEnds(four, img, app, link)
    <3> HIDE DEF three
    <3>1. CASE three = Answer("XIP_MISC", app.image)
      <4>1. four = Answer("XIP_MISC", app.image)
        BY <2>4, <2>5, <3>1
      <4> HIDE DEF four
      <4> QED BY <2>5, <4>1, Zenon DEF FlipEnds
    <3>2. CASE app.rc = "OK" /\ three = link
      <4>1. \/ four = link /\ link.rc # "OK"
            \/ four = Validated(link.image) /\ link.rc = "OK"
        BY <3>2
      <4> HIDE DEF four
      <4> QED BY <2>3, <3>2, <4>1, Zenon DEF FlipEnds
    <3> QED BY <2>8, <3>1, <3>2
  <2> HIDE DEF four
  <2> QED BY <2>1, <2>9
<1>4. r = Answer("IMAGE_TOO_LARGE", img) \/ (~ (size > max) /\ FlipEnds(r, img, app, link))
  <2>1. size > max => r = Answer("IMAGE_TOO_LARGE", img)
    <3> HIDE DEF m
    <3> QED BY <1>1, Zenon
  <2> QED BY <1>3, <2>1, Zenon
<1> QED BY <1>4, Zenon DEF r, size, app, link

LEMMA FlipWritten ==
  ASSUME NEW img, Sound(img), NEW max \in Int, max <= BufferSize, NEW layout, layout.back \in RingSlots,
         NEW program \in Seq(Nat)
  PROVE  RingPlaced(img, WriteWiggleFlip(img, max, layout, program, MaxAlign), RINGS, layout.back, program)
<1> DEFINE slot == layout.back
           block == WfBlock(layout.back, program)
           size == FlipSize(img, layout, program)
           app == FlipOf(img, layout, program)
           link == FlipLink(img, layout, program)
           r == WriteWiggleFlip(img, max, layout, program, MaxAlign)
           off == Answer("OK", img)
           put == Answer("OK", app.image)
<1>1. Carried(img, img, {}) /\ (Leads(img, slot) => Leads(img, slot))
  BY Stays DEF Sound
<1>2. r = Answer("IMAGE_TOO_LARGE", img) \/ (~ (size > max) /\ FlipEnds(r, img, app, link))
  BY FlipIs
<1>3. IsBlock(block) /\ block[1].back = slot /\ BodyOf(block) = program /\ Len(block) \in Nat \ {0}
  BY WfIsBlock
<1>4. IsRing(block, slot, program)
  <2> HIDE DEF block
  <2> QED BY <1>3, BlockIsRing, Zenon
<1>5. size \in Nat
  <2>1. img.size \in Nat
    BY ShapedTypes DEF Sound
  <2>2. size = img.size + Len(block) + MaxAlign
    BY DEF FlipSize
  <2> HIDE DEF size, block
  <2> QED BY <1>3, <2>1, <2>2, BuildAssumption
<1>6. app = DoAppend(img, RINGS, block, size) /\ link = Link(app.image, RINGS, app.offset, slot)
  BY Zenon DEF FlipOf, FlipLink
<1>7. RINGS \in RingSections
  BY DEF RingSections
<1>8. off = Answer(off.rc, off.image) /\ off.rc = "OK" /\ off.image = img
      /\ put = Answer(put.rc, put.image) /\ put.rc = "OK" /\ put.image = app.image
  BY AnswerFields
<1> HIDE DEF size, app, link, r, block, off, put
<1>9. CASE r = Answer("IMAGE_TOO_LARGE", img)
  <2>1. "IMAGE_TOO_LARGE" # "OK"
    OBVIOUS
  <2>2. Carried(img, img, {slot})
    BY Stays DEF Sound
  <2>3. RingPlaced(img, r, RINGS, slot, program)
    BY <1>9, <2>1, <2>2, PlacedBy
  <2> QED BY <2>3 DEF r
<1>10. CASE ~ (size > max) /\ FlipEnds(r, img, app, link)
  <2>1. size \in Int /\ size <= BufferSize
    BY <1>5, <1>10, XipAssumption
  <2>2. Carried(img, app.image, {}) /\ (app.rc = "OK" => Added(img, app.image, block))
    <3>1. PICK X : block \in Seq(X)
      BY <1>4 DEF IsRing
    <3> QED BY <1>4, <1>6, <2>1, <3>1, BlockAppended DEF IsRing
  <2>3. app.offset = img.section[RINGS].size
    BY <1>6, AppendOffset
  <2>4. /\ PointerSet(app.image, link.image, slot, Word(LinkedTo(app.image, RINGS, app.offset)))
        /\ link = Answer(link.rc, link.image)
        /\ link.rc = "OK" => SlotCell(link.image, slot) = Word(LinkedTo(app.image, RINGS, app.offset))
    <3>1. Sound(app.image)
      BY <2>2 DEF Carried
    <3> QED BY <1>6, <3>1, LinkSets
  <2>5. WriteEnds(r, img, off, app, put, link)
    <3>1. FlipEnds(r, img, app, link)
      BY <1>10
    <3> QED BY <3>1, Zenon DEF FlipEnds, WriteEnds
  <2>6. Carried(app.image, put.image, {})
    <3>1. Carried(app.image, app.image, {})
      BY <2>2, Stays DEF Carried, Sound
    <3> QED BY <1>8, <3>1
  <2>7. Carried(img, off.image, {}) /\ Carried(off.image, app.image, {}) /\ app.offset = off.image.section[RINGS].size
        /\ (app.rc = "OK" => Added(off.image, app.image, block))
    BY <1>1, <1>8, <2>2, <2>3
  <2>8. PointerSet(put.image, link.image, slot, Word(LinkedTo(put.image, RINGS, app.offset)))
        /\ (link.rc = "OK" => SlotCell(link.image, slot) = Word(LinkedTo(put.image, RINGS, app.offset)))
    BY <1>8, <2>4
  <2>9. RingPlaced(img, r, RINGS, slot, program)
    BY <1>4, <1>7, <1>8, <2>4, <2>5, <2>6, <2>7, <2>8, RingPlacedBy
  <2> QED BY <2>9 DEF r
<1> QED BY <1>2, <1>9, <1>10 DEF r

(***************************************************************************)
(* The calls that add rings of the VPD.                                    *)
(***************************************************************************)
VpdSlots == SlotsOf({n \in RingName : VpdType(n) # "none"})
PlainSlots == SlotsOf({n \in RingName : VpdType(n) = "none"})
LEMMA SlotKinds ==
  /\ RingSlots = VpdSlots \cup PlainSlots /\ VpdSlots \cap PlainSlots = {}
  /\ \A name \in RingName : \A idx \in 0 .. Elements(name) - 1 :
        SlotOf[name] + idx \in (IF VpdType(name) = "none" THEN PlainSlots ELSE VpdSlots)
<1>1. \A name \in RingName : SlotOf[name] \in Nat /\ Elements(name) \in Nat
  BY RingAssumption DEF Elements, MaxElements
<1>2. RingSlots = VpdSlots \cup PlainSlots
  BY DEF RingSlots, VpdSlots, PlainSlots, SlotsOf
<1>3. ASSUME NEW n \in RingName, NEW m \in RingName, n # m,
             NEW x, x \in SlotOf[n] .. SlotOf[n] + Elements(n) - 1, x \in SlotOf[m] .. SlotOf[m] + Elements(m) - 1
      PROVE  FALSE
  <2>1. SlotOf[m] \notin SlotOf[n] .. SlotOf[n] + Elements(n) - 1 /\ SlotOf[n] \notin SlotOf[m] .. SlotOf[m] + Elements(m) - 1
    BY <1>3, RingAssumption
  <2> QED BY <1>1, <1>3, <2>1
<1>4. VpdSlots \cap PlainSlots = {}
  <2> SUFFICES ASSUME NEW x \in VpdSlots, x \in PlainSlots PROVE FALSE
    OBVIOUS
  <2>1. PICK n \in RingName : VpdType(n) # "none" /\ x \in SlotOf[n] .. SlotOf[n] + Elements(n) - 1
    BY DEF VpdSlots, SlotsOf
  <2>2. PICK m \in RingName : VpdType(m) = "none" /\ x \in SlotOf[m] .. SlotOf[m] + Elements(m) - 1
    BY DEF PlainSlots, SlotsOf
  <2>3. n # m
    BY <2>1, <2>2
  <2> QED BY <1>3, <2>1, <2>2, <2>3
<1>5. ASSUME NEW name \in RingName, NEW idx \in 0 .. Elements(name) - 1
      PROVE  SlotOf[name] + idx \in (IF VpdType(name) = "none" THEN PlainSlots ELSE VpdSlots)
  <2>1. SlotOf[name] + idx \in SlotOf[name] .. SlotOf[name] + Elements(name) - 1
    BY <1>1
  <2>2. CASE VpdType(name) = "none"
    BY <2>1, <2>2 DEF PlainSlots, SlotsOf
  <2>3. CASE VpdType(name) # "none"
    BY <2>1, <2>3 DEF VpdSlots, SlotsOf
  <2> QED BY <2>2, <2>3
<1> QED BY <1>2, <1>4, <1>5

(* A call that may add a ring for a slot of the VPD.                       *)
VpdKept(img, i) == \E slot \in VpdSlots : Carried(img, i, {slot}) /\ (Leads(img, slot) => Leads(i, slot))
LEMMA VpdStays ==
  ASSUME NEW img, Sound(img), NEW ring \in VpdRings
  PROVE  VpdKept(img, img)
<1>1. ring.name \in RingName /\ VpdType(ring.name) # "none" /\ ring.chiplet \in Nat
  BY BuildAssumption
<1>2. VectorIndex(ring.chiplet) \in 0 .. Elements(ring.name) - 1
  BY <1>1, VectorIndexOfVpd
<1>3. SlotOf[ring.name] + VectorIndex(ring.chiplet) \in VpdSlots
  BY <1>1, <1>2, SlotKinds
<1>4. \A slot : Carried(img, img, {slot})
  BY Stays DEF Sound
<1> QED BY <1>3, <1>4 DEF VpdKept

LEMMA VpdBlockKeeps ==
  ASSUME NEW img, Sound(img), NEW ring \in VpdRings, NEW block, IsBlock(block), NEW s \in RingSections,
         NEW max \in Int, max <= BufferSize, NEW size, NEW w,
         w = WriteRingBlock(img, ring.name, block, VectorIndex(ring.chiplet), 0, 0, max, s, size)
  PROVE  VpdKept(img, w.image) /\ w = Answer(w.rc, w.image)
<1> DEFINE slot == SlotOf[ring.name] + VectorIndex(ring.chiplet)
<1>1. ring.name \in RingName /\ VpdType(ring.name) # "none" /\ ring.chiplet \in Nat
  BY BuildAssumption
<1>2. VectorIndex(ring.chiplet) \in 0 .. Elements(ring.name) - 1
  BY <1>1, VectorIndexOfVpd
<1>3. slot \in VpdSlots /\ slot \in RingSlots
  BY <1>1, <1>2, SlotKinds
<1>4. BackPointer(ring.name, VectorIndex(ring.chiplet), 0, 0) = slot
  <2>1. SlotOf[ring.name] \in Nat /\ VectorIndex(ring.chiplet) \in Int
    BY <1>1, <1>2, RingAssumption DEF Elements, MaxElements
  <2> QED BY <2>1 DEF BackPointer
<1>5. ring.name # NoName
  BY <1>1, RingAssumption
<1> HIDE DEF slot
<1>6. slot = IF ring.name = NoName THEN block[1].back ELSE BackPointer(ring.name, VectorIndex(ring.chiplet), 0, 0)
  BY <1>4, <1>5
<1>7. RingPlaced(img, w, s, slot, BodyOf(block))
  BY <1>3, <1>6, RingWritten
<1> QED BY <1>3, <1>7 DEF RingPlaced, VpdKept

(* What follows the write recodes its failures.                            *)
LEMMA VpdEnds ==
  ASSUME NEW img, VpdKept(img, img), NEW w, VpdKept(img, w.image), w = Answer(w.rc, w.image), NEW r,
         \/ \E rc : r = Answer(rc, img)
         \/ r = w \/ r = [w EXCEPT !.rc = VpdBlockCode(w.rc)]
  PROVE  VpdKept(img, r.image) /\ r = Answer(r.rc, r.image)
<1>1. [w EXCEPT !.rc = VpdBlockCode(w.rc)] = Answer(VpdBlockCode(w.rc), w.image)
  BY RecodedAnswer
<1>2. PICK rc, i : r = Answer(rc, i) /\ VpdKept(img, i)
  BY <1>1, Zenon
<1> QED BY <1>2, AnswerFields

LEMMA VpdIplKeeps ==
  ASSUME NEW img, Sound(img), NEW ring \in VpdRings, NEW dd, NEW s \in RingSections, NEW max \in Int, max <= BufferSize
  PROVE  LET r == WriteVpdRingIpl(img, max, ring, dd, 0, ring.name, s)
         IN  VpdKept(img, r.image) /\ r = Answer(r.rc, r.image)
<1> DEFINE block == Rs4Block(0, dd, 0, 0, ring.data)
           w == WriteRingBlock(img, ring.name, block, VectorIndex(ring.chiplet), 0, 0, max, s, RingBuffer)
           r == WriteVpdRingIpl(img, max, ring, dd, 0, ring.name, s)
<1>1. IsBlock(block)
  <2>1. ring.data \in Seq(Nat)
    BY BuildAssumption
  <2> QED BY <2>1, Rs4IsBlock
<1>2. \/ \E rc : r = Answer(rc, img)
      \/ r = w \/ r = [w EXCEPT !.rc = VpdBlockCode(w.rc)]
  BY Zenon DEF WriteVpdRingIpl, Mapped
<1> HIDE DEF block, r
<1>3. VpdKept(img, w.image) /\ w = Answer(w.rc, w.image)
  BY <1>1, VpdBlockKeeps
<1> HIDE DEF w
<1>4. VpdKept(img, r.image) /\ r = Answer(r.rc, r.image)
  BY <1>2, <1>3, VpdStays, VpdEnds
<1> QED BY <1>4 DEF r

LEMMA VpdSlwKeeps ==
  ASSUME NEW img, Sound(img), NEW ring \in VpdRings, NEW worst, NEW max \in Int, max <= BufferSize
  PROVE  LET r == WriteVpdRingSlw(img, max, ring, ring.name, worst)
         IN  VpdKept(img, r.image) /\ r = Answer(r.rc, r.image)
<1> DEFINE block == WfBlock(0, Reserved(ring, worst))
           w == WriteRingBlock(img, ring.name, block, VectorIndex(ring.chiplet), 0, 0, max, RINGS, RingBuffer)
           r == WriteVpdRingSlw(img, max, ring, ring.name, worst)
<1>1. IsBlock(block)
  BY ReservedIsSequence, WfIsBlock
<1>2. \/ \E rc : r = Answer(rc, img)
      \/ r = w \/ r = [w EXCEPT !.rc = VpdBlockCode(w.rc)]
  BY Zenon DEF WriteVpdRingSlw, Mapped
<1> HIDE DEF block, r
<1>3. VpdKept(img, w.image) /\ w = Answer(w.rc, w.image)
  <2>1. RINGS \in RingSections
    BY DEF RingSections
  <2> QED BY <1>1, <2>1, VpdBlockKeeps
<1> HIDE DEF w
<1>4. VpdKept(img, r.image) /\ r = Answer(r.rc, r.image)
  BY <1>2, <1>3, VpdStays, VpdEnds
<1> QED BY <1>4 DEF r

LEMMA VpdKeepsWell ==
  ASSUME NEW img, Well(img), NEW i, VpdKept(img, i)
  PROVE  Well(i)
<1>1. PICK slot \in VpdSlots : Carried(img, i, {slot}) /\ (Leads(img, slot) => Leads(i, slot))
  BY DEF VpdKept
<1>2. slot \in RingSlots
  BY SlotKinds
<1> QED BY <1>1, <1>2, WellCarried DEF Well

(***************************************************************************)
(* Searches.  Blocks that fill a section do not overlap, and the ones from *)
(* one of them on are those of the rest of the section.                    *)
(***************************************************************************)
LEMMA StartsOrdered ==
  ASSUME NEW X, NEW c \in Seq(X), Tiled(c), NEW x \in Starts(c), NEW y \in Starts(c), x < y
  PROVE  x + c[x].size <= y
<1> DEFINE S == Starts(c)
           N(k) == k + c[k].size
           T == {z \in S : \E w \in S : w < z /\ z < N(w)}
<1>1. /\ S \subseteq 1 .. Len(c) /\ Closed(c, S) /\ Len(c) \in Nat /\ (c # << >> => 1 \in S)
      /\ \A V \in SUBSET (1 .. Len(c)) : 1 \in V /\ Closed(c, V) => S \subseteq V
  BY StartsLeast
<1>2. \A k \in S : c[k].size \in Nat \ {0} /\ N(k) \in S \cup {Len(c) + 1}
  BY DEF Tiled
<1> HIDE DEF S
<1>3. \A k \in S : k \in Nat \ {0} /\ k <= Len(c) /\ N(k) \in Nat /\ N(k) > k /\ NextOf(c, k) = N(k)
  BY <1>1, <1>2 DEF NextOf
<1> HIDE DEF N
<1>4. T = {}
  <2> SUFFICES ASSUME T # {} PROVE FALSE
    OBVIOUS
  <2>1. PICK a \in T : \A z \in T : a <= z
    <3>0. T \subseteq S /\ \A z \in S : z \in Nat
      BY <1>3
    <3>1. T \subseteq Nat
      BY <3>0, Zenon
    <3> HIDE DEF T
    <3> QED BY <3>1, LeastNatural
  <2>2. PICK w \in S : w < a /\ a < N(w)
    OBVIOUS
  <2>3. a \in S /\ a # 1 /\ c # << >>
    <3>1. a \in S
      OBVIOUS
    <3>2. c # << >>
      BY <1>1, <3>1, EmptySeq
    <3> HIDE DEF T
    <3> QED BY <1>3, <2>2, <3>1, <3>2
  <2>4. \E p \in S : N(p) = a
    <3> SUFFICES ASSUME \A p \in S : N(p) # a PROVE FALSE
      OBVIOUS
    <3> DEFINE V == S \ {a}
    <3>1. V \in SUBSET (1 .. Len(c)) /\ 1 \in V
      BY <1>1, <2>3
    <3>2. Closed(c, V)
      BY <1>1, <1>3 DEF Closed
    <3> HIDE DEF V
    <3>3. S \subseteq V
      BY <1>1, <3>1, <3>2
    <3> QED BY <2>3, <3>3 DEF V
  <2>5. PICK p \in S : N(p) = a
    BY <2>4
  <2>6. p < a
    BY <1>3, <2>5
  <2>7. CASE p < w
    <3>1. w \in T
      BY <2>2, <2>5, <2>7
    <3> HIDE DEF T
    <3> QED BY <1>3, <2>1, <2>2, <2>3, <3>1
  <2>8. CASE p = w
    BY <1>3, <2>2, <2>3, <2>5, <2>8
  <2>9. CASE w < p
    <3>1. p < N(w)
      BY <1>3, <2>2, <2>3, <2>6
    <3>2. p \in T
      BY <2>9, <3>1
    <3> HIDE DEF T
    <3> QED BY <1>3, <2>1, <2>3, <2>6, <3>2
  <2> QED BY <1>3, <2>7, <2>8, <2>9
<1>5. x \in S /\ y \in S
  BY DEF S
<1>6. ~ (y < N(x))
  BY <1>4, <1>5
<1> QED BY <1>3, <1>5, <1>6 DEF N

LEMMA StartsAfter ==
  ASSUME NEW X, NEW c \in Seq(X), Tiled(c), NEW k \in Starts(c), NEW d \in Seq(X), Len(d) = Len(c) - k + 1,
         \A j \in 1 .. Len(d) : d[j] = c[k + j - 1]
  PROVE  \A j \in 1 .. Len(d) : j \in Starts(d) <=> k + j - 1 \in Starts(c)
<1> DEFINE S == Starts(c)
           U == Starts(d)
           W == {j \in 1 .. Len(d) : k + j - 1 \in S}
           V == {z \in S : z < k} \cup {z \in 1 .. Len(c) : z >= k /\ z - k + 1 \in U}
<1>0. Len(c) \in Nat
  OBVIOUS
<1>1. /\ S \subseteq 1 .. Len(c) /\ Closed(c, S) /\ Len(c) \in Nat /\ (c # << >> => 1 \in S)
      /\ \A Z \in SUBSET (1 .. Len(c)) : 1 \in Z /\ Closed(c, Z) => S \subseteq Z
  BY <1>0, StartsLeast
<1>2. /\ U \subseteq 1 .. Len(d) /\ Closed(d, U) /\ (d # << >> => 1 \in U)
      /\ \A Z \in SUBSET (1 .. Len(d)) : 1 \in Z /\ Closed(d, Z) => U \subseteq Z
  BY StartsLeast
<1>3. \A z \in S : c[z].size \in Nat \ {0} /\ z + c[z].size \in S \cup {Len(c) + 1}
  BY DEF Tiled
<1>4. \A x \in S, y \in S : x < y => x + c[x].size <= y
  BY StartsOrdered
<1>5. Len(d) = Len(c) - k + 1 /\ k \in S
  OBVIOUS
<1> HIDE DEF S, U
<1>6. k \in 1 .. Len(c) /\ Len(d) \in Nat \ {0} /\ d # << >>
  <2>1. k \in 1 .. Len(c)
    BY <1>1, <1>5
  <2> QED BY <1>1, <1>5, <2>1, EmptySeq
<1>7. U \subseteq W
  <2>1. W \in SUBSET (1 .. Len(d)) /\ 1 \in W
    <3>1. k + 1 - 1 = k /\ 1 \in 1 .. Len(d)
      BY <1>6
    <3> QED BY <1>5, <3>1
  <2>2. ASSUME NEW j \in W, NextOf(d, j) \in j + 1 .. Len(d) PROVE NextOf(d, j) \in W
    <3> DEFINE z == c[k + j - 1].size
    <3>1. k + j - 1 \in S /\ j \in 1 .. Len(d) /\ d[j] = c[k + j - 1]
      OBVIOUS
    <3>2. z \in Nat \ {0} /\ (k + j - 1) + z \in S \cup {Len(c) + 1}
      BY <1>3, <3>1
    <3>3. NextOf(d, j) = j + z
      BY <3>1 DEF NextOf
    <3> HIDE DEF z, W
    <3>4. j + z \in 1 .. Len(d) /\ (k + j - 1) + z # Len(c) + 1 /\ (k + j - 1) + z = k + (j + z) - 1
      BY <1>1, <1>5, <1>6, <2>2, <3>1, <3>2, <3>3
    <3>5. k + (j + z) - 1 \in S
      BY <3>2, <3>4
    <3> QED BY <3>3, <3>4, <3>5 DEF W
  <2>3. Closed(d, W)
    BY <2>2 DEF Closed
  <2> HIDE DEF W
  <2> QED BY <1>2, <2>1, <2>3
<1>8. S \subseteq V
  <2>1. V \in SUBSET (1 .. Len(c)) /\ 1 \in V
    <3>1. V \in SUBSET (1 .. Len(c))
      BY <1>1
    <3>2. c # << >>
      BY <1>6, EmptySeq
    <3>3. CASE k = 1
      <4>1. 1 >= k /\ 1 - k + 1 = 1 /\ 1 \in 1 .. Len(c)
        BY <1>1, <1>6, <3>3
      <4>2. 1 - k + 1 \in U
        BY <1>2, <1>6, <4>1
      <4> QED BY <3>1, <4>1, <4>2
    <3>4. CASE k # 1
      <4>1. 1 < k
        BY <1>6, <3>4
      <4> QED BY <1>1, <3>2, <4>1
    <3> QED BY <3>1, <3>3, <3>4
  <2>2. ASSUME NEW z \in V, NextOf(c, z) \in z + 1 .. Len(c) PROVE NextOf(c, z) \in V
    <3> DEFINE y == NextOf(c, z)
    <3>1. CASE z \in S /\ z < k
      <4>1. y = z + c[z].size /\ y <= k
        BY <1>4, <1>5, <3>1 DEF NextOf
      <4>2. y \in S
        <5>1. Closed(c, S) /\ z \in S /\ NextOf(c, z) \in z + 1 .. Len(c)
          BY <1>1, <2>2, <3>1
        <5> HIDE DEF V
        <5> QED BY <5>1 DEF Closed
      <4> HIDE DEF y
      <4>3. y \in 1 .. Len(c)
        BY <1>1, <4>2
      <4>4. CASE y < k
        BY <4>2, <4>4 DEF y
      <4>5. CASE y = k
        <5>1. y >= k /\ y - k + 1 = 1
          BY <1>6, <4>5
        <5> QED BY <1>2, <1>6, <4>3, <5>1 DEF y
      <4> QED BY <1>6, <4>1, <4>3, <4>4, <4>5
    <3>2. CASE z \in 1 .. Len(c) /\ z >= k /\ z - k + 1 \in U
      <4> DEFINE j == z - k + 1
      <4>1. j \in 1 .. Len(d) /\ k + j - 1 = z /\ k + j - 1 \in S
        BY <1>6, <1>7, <3>2
      <4>2. d[j] = c[z]
        BY <4>1
      <4>3. c[z].size \in Nat
        BY <1>3, <4>1
      <4> DEFINE q == c[z].size
      <4>4. y = z + q /\ NextOf(d, j) = j + q
        BY <4>2 DEF NextOf
      <4>5. y \in z + 1 .. Len(c)
        BY <2>2
      <4>6. j \in U
        BY <3>2
      <4> HIDE DEF y, q
      <4>7. j = z - k + 1
        OBVIOUS
      <4> HIDE DEF j
      <4>8. j + q \in j + 1 .. Len(d) /\ y - k + 1 = j + q /\ y >= k /\ y \in 1 .. Len(c)
        <5>1. z \in 1 .. Len(c) /\ z >= k /\ q \in Nat
          BY <3>2, <4>3 DEF q
        <5> HIDE DEF V
        <5> QED BY <1>1, <1>5, <1>6, <4>1, <4>4, <4>5, <4>7, <5>1
      <4>9. j + q \in U
        BY <1>2, <4>4, <4>6, <4>8 DEF Closed
      <4> QED BY <4>8, <4>9 DEF y
    <3> QED BY <3>1, <3>2
  <2>3. Closed(c, V)
    <3> HIDE DEF V
    <3> QED BY <2>2 DEF Closed
  <2> HIDE DEF V
  <2> QED BY <1>1, <2>1, <2>3
<1>9. ASSUME NEW j \in 1 .. Len(d) PROVE j \in U <=> k + j - 1 \in S
  <2>1. j \in U => k + j - 1 \in S
    BY <1>7
  <2>2. ASSUME k + j - 1 \in S PROVE j \in U
    <3>1. k + j - 1 \in V /\ ~ (k + j - 1 < k) /\ (k + j - 1) - k + 1 = j
      BY <1>6, <1>8, <2>2
    <3> QED BY <3>1
  <2> QED BY <2>1, <2>2
<1> QED BY <1>9 DEF S, U

(* What a search finds: the first block that matches from there on.        *)
MatchesIn(from, s, dd, phase) == {at \in Blocks(from, s) : Matches(from.mem[at], dd, phase)}
NextIs(found, from, s, dd, phase, next) ==
    LET M == MatchesIn(from, s, dd, phase)
    IN  /\ found.rc = "NO_MATCH" => \A b \in M : b < next
        /\ found.rc \in {"MATCH", "EXHAUST_MATCH"} =>
              found.at \in M /\ next <= found.at /\ \A b \in M : b < next \/ found.at <= b
        /\ found.rc = "MATCH" =>
              /\ found.next \in Blocks(from, s) /\ found.at < found.next
              /\ \A b \in Blocks(from, s) : b <= found.at \/ found.next <= b
        /\ found.rc = "EXHAUST_MATCH" => found.next = 0 /\ \A b \in Blocks(from, s) : b <= found.at

LEMMA BlocksOrdered ==
  ASSUME NEW img, Shaped(img), NEW s \in Sections, Tiled(Contents(img, s)),
         NEW x \in Blocks(img, s), NEW y \in Blocks(img, s), x < y
  PROVE  x + img.mem[x].size <= y
<1> DEFINE c == Contents(img, s)
           o == img.section[s].offset
           j == x - o + 1
           k == y - o + 1
<1>1. /\ x \in Nat /\ y \in Nat /\ o \in Nat /\ j \in Starts(c) /\ k \in Starts(c) /\ img.mem[x].size \in Nat
      /\ j \in Nat /\ k \in Nat
  <2>1. x \in Nat /\ y \in Nat /\ j \in Starts(c) /\ k \in Starts(c) /\ img.mem[x].size \in Nat /\ o <= x /\ o <= y
    BY BlockSpan
  <2>2. o \in Nat
    BY ShapedTypes
  <2> HIDE DEF c, o
  <2> QED BY <2>1, <2>2
<1>2. c \in Seq(CellsOf(img)) /\ Len(c) = img.section[s].size
  BY ContentsIs
<1>3. Starts(c) \subseteq 1 .. Len(c)
  BY <1>2, StartsLeast
<1>4. c[j] = img.mem[x]
  <2>1. j \in 1 .. img.section[s].size
    BY <1>1, <1>2, <1>3
  <2>2. c[j] = img.mem[o + j - 1]
    BY <2>1, ContentsIs
  <2> HIDE DEF c, o
  <2> QED BY <1>1, <2>2
<1>5. j < k
  <2> HIDE DEF c, o
  <2> QED BY <1>1
<1>6. Tiled(c)
  OBVIOUS
<1> HIDE DEF c, o, j, k
<1>7. j + c[j].size <= k
  BY <1>1, <1>2, <1>5, <1>6, StartsOrdered
<1> QED BY <1>1, <1>4, <1>7 DEF j, k

Onward(img, s, dd, phase, next) == {at \in MatchesIn(img, s, dd, phase) : next <= at}
Earliest(hits) == CHOOSE at \in hits : \A b \in hits : at <= b
EarliestOf(img, hits, end) ==
    LET after == Earliest(hits) + img.mem[Earliest(hits)].size
    IN  IF hits = {} THEN [rc |-> "NO_MATCH", at |-> 0, next |-> 0]
        ELSE IF after >= end THEN [rc |-> "EXHAUST_MATCH", at |-> Earliest(hits), next |-> 0]
        ELSE [rc |-> "MATCH", at |-> Earliest(hits), next |-> after]
LEMMA SearchIs ==
  ASSUME NEW img, Shaped(img), NEW s \in Sections, Tiled(Contents(img, s)), NEW next \in Blocks(img, s),
         NEW dd, NEW phase
  PROVE  Search(img, next, End(img.section[s]), dd, phase)
            = EarliestOf(img, Onward(img, s, dd, phase, next), End(img.section[s]))
<1> DEFINE end == End(img.section[s])
           o == img.section[s].offset
           n == img.section[s].size
           c == Contents(img, s)
           k == next - o + 1
           d == [i \in 1 .. end - next |-> img.mem[next + i - 1]]
           M == MatchesIn(img, s, dd, phase)
           hits == {at \in M : next <= at}
           H == {at \in {next + j - 1 : j \in Starts(d)} : Matches(img.mem[at], dd, phase)}
<1>1. /\ o \in Nat /\ n \in Nat /\ end = o + n /\ next \in Nat /\ o <= next /\ next < end /\ k \in Starts(c)
      /\ k \in 1 .. n /\ end - next = n - k + 1
  <2>1. next \in Nat /\ o <= next /\ img.mem[next].size \in Nat \ {0} /\ next + img.mem[next].size <= end /\ k \in Starts(c)
        /\ end \in Nat
    BY BlockSpan
  <2>2. o \in Nat /\ n \in Nat
    BY ShapedTypes
  <2>3. end = o + n
    BY DEF End
  <2> HIDE DEF c, o, n, end
  <2> QED BY <2>1, <2>2, <2>3
<1>2. c \in Seq(CellsOf(img)) /\ Len(c) = n /\ \A j \in 1 .. n : c[j] = img.mem[o + j - 1]
  BY ContentsIs
<1>3. Blocks(img, s) = {o + j - 1 : j \in Starts(c)} /\ Starts(c) \subseteq 1 .. n
  BY <1>2, StartsLeast DEF Blocks
<1>4. Tiled(c)
  OBVIOUS
<1> HIDE DEF c, o, n, end
<1>5. d \in Seq(CellsOf(img)) /\ Len(d) = Len(c) - k + 1 /\ \A j \in 1 .. Len(d) : d[j] = c[k + j - 1]
  <2> DEFINE q == end - next
  <2>1. q \in Nat /\ q = n - k + 1
    BY <1>1
  <2> HIDE DEF q
  <2>2. d = [i \in 1 .. q |-> img.mem[next + i - 1]]
    BY DEF q
  <2>3. \A i \in 1 .. q : img.mem[next + i - 1] \in CellsOf(img)
    BY <1>1, <2>1 DEF CellsOf
  <2> HIDE DEF d
  <2>4. d \in Seq(CellsOf(img)) /\ Len(d) = q
    BY <2>1, <2>2, <2>3
  <2>5. \A j \in 1 .. q : k + j - 1 \in 1 .. n /\ o + (k + j - 1) - 1 = next + j - 1
    BY <1>1, <2>1
  <2> HIDE DEF k
  <2>6. \A j \in 1 .. q : d[j] = c[k + j - 1]
    BY <1>2, <2>2, <2>5
  <2> QED BY <1>2, <2>1, <2>4, <2>6
<1>6. \A j \in 1 .. Len(d) : j \in Starts(d) <=> k + j - 1 \in Starts(c)
  <2> HIDE DEF d, k
  <2> QED BY <1>1, <1>2, <1>4, <1>5, StartsAfter
<1>7. Starts(d) \subseteq 1 .. Len(d)
  BY <1>5, StartsLeast
<1>8. {next + j - 1 : j \in Starts(d)} = {at \in Blocks(img, s) : next <= at}
  <2>1. ASSUME NEW j \in Starts(d) PROVE next + j - 1 \in Blocks(img, s) /\ next <= next + j - 1
    <3>1. j \in 1 .. n - k + 1 /\ k + j - 1 \in Starts(c)
      <4> HIDE DEF d, k
      <4> QED BY <1>1, <1>2, <1>5, <1>6, <1>7
    <3>2. next + j - 1 = o + (k + j - 1) - 1 /\ next <= next + j - 1
      BY <1>1, <3>1
    <3> QED BY <1>3, <3>1, <3>2
  <2>2. ASSUME NEW m \in Starts(c), next <= o + m - 1 PROVE \E j \in Starts(d) : o + m - 1 = next + j - 1
    <3> DEFINE j == m - k + 1
    <3>1. m \in 1 .. n /\ j \in 1 .. n - k + 1 /\ k + j - 1 = m /\ next + j - 1 = o + m - 1
      BY <1>1, <1>3, <2>2
    <3>2. j \in 1 .. Len(d)
      BY <1>2, <1>5, <3>1
    <3>3. j \in Starts(d)
      <4> HIDE DEF j, k, d
      <4> QED BY <1>6, <2>2, <3>1, <3>2
    <3> HIDE DEF j
    <3> QED BY <3>1, <3>3
  <2>3. \A at \in Blocks(img, s) : \E m \in Starts(c) : at = o + m - 1
    BY <1>3
  <2> HIDE DEF d, k
  <2> QED BY <2>1, <2>2, <2>3
<1>9. H = hits
  <2> HIDE DEF d
  <2> QED BY <1>8 DEF MatchesIn
<1>10. Search(img, next, end, dd, phase) = EarliestOf(img, H, end)
  BY DEF Search, EarliestOf, Earliest
<1> HIDE DEF H, hits
<1> QED BY <1>9, <1>10 DEF hits, end, Onward

LEMMA FirstMatch ==
  ASSUME NEW img, Shaped(img), NEW s \in Sections, Tiled(Contents(img, s)), NEW next \in Blocks(img, s),
         NEW dd, NEW phase
  PROVE  NextIs(Search(img, next, End(img.section[s]), dd, phase), img, s, dd, phase, next)
<1> DEFINE end == End(img.section[s])
           B == Blocks(img, s)
           M == MatchesIn(img, s, dd, phase)
           hits == {at \in M : next <= at}
           first == Earliest(hits)
           after == first + img.mem[first].size
           found == Search(img, next, end, dd, phase)
<1>1. found = IF hits = {} THEN [rc |-> "NO_MATCH", at |-> 0, next |-> 0]
              ELSE IF after >= end THEN [rc |-> "EXHAUST_MATCH", at |-> first, next |-> 0]
              ELSE [rc |-> "MATCH", at |-> first, next |-> after]
  <2>1. hits = Onward(img, s, dd, phase, next)
    BY DEF Onward
  <2>2. found = EarliestOf(img, hits, end)
    BY <2>1, SearchIs
  <2> HIDE DEF found, hits
  <2> QED BY <2>2 DEF EarliestOf
<1>2. \A b \in B : b \in Nat /\ img.mem[b].size \in Nat \ {0} /\ b + img.mem[b].size <= end
         /\ (b + img.mem[b].size = end \/ b + img.mem[b].size \in B)
  BY BlockSpan
<1>3. end \in Nat /\ next \in Nat
  BY BlockSpan
<1>4. M \subseteq B
  BY DEF MatchesIn
<1>5. \A x, y \in B : x < y => x + img.mem[x].size <= y
  BY BlocksOrdered
<1> HIDE DEF M, B, end, found
<1>6. hits # {} => first \in hits /\ \A b \in hits : first <= b
  <2>1. hits \subseteq Nat
    BY <1>2, <1>4
  <2> HIDE DEF hits
  <2> QED BY <2>1, LeastNatural DEF Earliest
<1> HIDE DEF first
<1>7. ASSUME hits = {} PROVE \A b \in M : b < next
  BY <1>2, <1>3, <1>4, <1>7
<1>8. ASSUME hits # {}
      PROVE  /\ first \in M /\ next <= first /\ \A b \in M : b < next \/ first <= b
             /\ first < after /\ \A b \in B : b <= first \/ after <= b
             /\ after < end => after \in B
             /\ after >= end => \A b \in B : b <= first
             /\ after < end \/ after >= end
  <2>1. first \in M /\ next <= first /\ first \in B /\ first \in Nat
    BY <1>2, <1>4, <1>6, <1>8
  <2>2. \A b \in M : b < next \/ first <= b
    BY <1>2, <1>3, <1>4, <1>6
  <2>3. first < after /\ after \in Nat /\ after <= end /\ (after = end \/ after \in B)
    BY <1>2, <1>3, <2>1
  <2>4. \A b \in B : b <= first \/ after <= b
    <3> SUFFICES ASSUME NEW b \in B, first < b PROVE after <= b
      BY <1>2, <2>1
    <3> HIDE DEF hits
    <3> QED BY <1>5, <2>1
  <2> HIDE DEF after
  <2>5. \A b \in B : b < end
    BY <1>2, <1>3
  <2> QED BY <1>2, <1>3, <2>1, <2>2, <2>3, <2>4, <2>5
<1> HIDE DEF hits, after
<1>9. /\ found.rc = "NO_MATCH" => hits = {}
      /\ found.rc \in {"MATCH", "EXHAUST_MATCH"} => hits # {} /\ found.at = first
      /\ found.rc = "MATCH" => found.next = after /\ ~ (after >= end)
      /\ found.rc = "EXHAUST_MATCH" => found.next = 0 /\ after >= end
  BY <1>1
<1>10. found.rc = "NO_MATCH" => \A b \in M : b < next
  BY <1>7, <1>9
<1>11. found.rc \in {"MATCH", "EXHAUST_MATCH"} =>
          found.at \in M /\ next <= found.at /\ \A b \in M : b < next \/ found.at <= b
  BY <1>8, <1>9
<1>12. found.rc = "MATCH" =>
          found.next \in B /\ found.at < found.next /\ \A b \in B : b <= found.at \/ found.next <= b
  BY <1>8, <1>9
<1>13. found.rc = "EXHAUST_MATCH" => found.next = 0 /\ \A b \in B : b <= found.at
  BY <1>8, <1>9
<1> QED BY <1>10, <1>11, <1>12, <1>13 DEF NextIs, M, B, found, end

LEMMA NextFound ==
  ASSUME NEW from, Shaped(from), NEW s \in Sections, Tiled(Contents(from, s)),
         s \in Present(from) => from.section[s].offset # 0,
         NEW next \in Blocks(from, s) \cup {0}, NEW dd, NEW phase
  PROVE  NextIs(GetRingLayout2(from, dd, phase, next, s), from, s, dd, phase, next)
<1> DEFINE found == GetRingLayout2(from, dd, phase, next, s)
           o == from.section[s].offset
           B == Blocks(from, s)
           start == IF next = 0 THEN o ELSE next
           r == Search(from, start, End(from.section[s]), dd, phase)
<1>1. \/ found.rc = "KEYWORD_NOT_FOUND"
      \/ found.rc = "NO_MATCH" /\ o = 0
      \/ found = r
  BY Zenon DEF GetRingLayout2
<1>2. CASE found.rc = "KEYWORD_NOT_FOUND"
  <2> HIDE DEF found
  <2> QED BY <1>2 DEF NextIs, found
<1>3. MatchesIn(from, s, dd, phase) \subseteq B
  BY DEF MatchesIn
<1>4. ASSUME s \notin Present(from) PROVE B = {}
  BY <1>4, BlockSpan
<1>5. CASE found.rc = "NO_MATCH" /\ o = 0
  <2>1. MatchesIn(from, s, dd, phase) = {}
    BY <1>3, <1>4, <1>5
  <2> HIDE DEF found
  <2> QED BY <1>5, <2>1 DEF NextIs, found
<1>6. ASSUME found = r PROVE NextIs(found, from, s, dd, phase, next)
  <2>1. CASE s \notin Present(from)
    <3>1. Contents(from, s) = << >> /\ from.section[s].size = 0
      BY <2>1, ContentsIs DEF Present
    <3>2. next = 0 /\ start = o
      BY <1>4, <2>1
    <3>3. o \in Nat /\ End(from.section[s]) - o = 0
      BY <3>1, ShapedTypes DEF End
    <3> DEFINE d == [i \in 1 .. End(from.section[s]) - o |-> from.mem[o + i - 1]]
    <3>4. d = << >>
      BY <3>3
    <3> HIDE DEF d
    <3>5. Starts(d) = {}
      BY <3>4 DEF Starts
    <3>6. Search(from, o, End(from.section[s]), dd, phase).rc = "NO_MATCH"
      BY <3>5 DEF Search, d
    <3> HIDE DEF found, r
    <3>7. found.rc = "NO_MATCH"
      BY <1>6, <3>2, <3>6 DEF r
    <3>8. MatchesIn(from, s, dd, phase) = {}
      BY <1>3, <1>4, <2>1
    <3> QED BY <3>7, <3>8 DEF NextIs
  <2>2. CASE s \in Present(from)
    <3>1. o \in B
      <4>1. 1 \in Starts(Contents(from, s))
        BY <2>2, ContentsIs, StartsLeast
      <4>2. o = o + 1 - 1
        BY ShapedTypes
      <4> QED BY <4>1, <4>2 DEF Blocks
    <3>2. start \in B
      BY <3>1
    <3> HIDE DEF start, found
    <3>3. NextIs(found, from, s, dd, phase, start)
      BY <1>6, <3>2, FirstMatch
    <3>4. CASE next # 0
      <4>1. start = next
        BY <3>4 DEF start
      <4> QED BY <3>3, <4>1
    <3>5. CASE next = 0
      <4>1. start = o
        BY <3>5 DEF start
      <4>2. \A b \in B : o <= b /\ b \in Nat
        BY BlockSpan
      <4>3. o \in Nat
        BY ShapedTypes
      <4> DEFINE M == MatchesIn(from, s, dd, phase)
      <4> HIDE DEF o, B, M
      <4>4. \A b \in M : b \in Nat /\ o <= b
        BY <1>3, <4>2 DEF M, B
      <4>5. found.rc = "NO_MATCH" => M = {}
        BY <3>3, <4>1, <4>3, <4>4 DEF NextIs, M
      <4>6. found.rc \in {"MATCH", "EXHAUST_MATCH"} =>
                found.at \in M /\ 0 <= found.at /\ \A b \in M : found.at <= b
        BY <3>3, <4>1, <4>3, <4>4 DEF NextIs, M
      <4>7. /\ found.rc = "MATCH" =>
                   /\ found.next \in Blocks(from, s) /\ found.at < found.next
                   /\ \A b \in Blocks(from, s) : b <= found.at \/ found.next <= b
            /\ found.rc = "EXHAUST_MATCH" => found.next = 0 /\ \A b \in Blocks(from, s) : b <= found.at
        BY <3>3 DEF NextIs
      <4> QED BY <3>5, <4>5, <4>6, <4>7 DEF NextIs, M
    <3> QED BY <3>4, <3>5
  <2> QED BY <2>1, <2>2
<1> QED BY <1>1, <1>2, <1>5, <1>6

(* The rings of an image that others are built from: each has a header,    *)
(* points back to a slot, and has data that programs exist for.            *)
WithHeader(from, at) ==
    from.mem[at] = Header(from.mem[at].back, from.mem[at].size, from.mem[at].dd, from.mem[at].phase, from.mem[at].override)
RingsIn(from, s, slots) == \A at \in Blocks(from, s) :
    WithHeader(from, at) /\ from.mem[at].back \in slots /\ DataAt(from, at) \in DOMAIN Program
Source(from, s) ==
    /\ Shaped(from) /\ s \in RingSections /\ Tiled(Contents(from, s))
    /\ s \in Present(from) => from.section[s].offset # 0

LEMMA BlockRead ==
  ASSUME NEW from, NEW s, Source(from, s), NEW at \in Blocks(from, s), WithHeader(from, at)
  PROVE  LET b == Block(from, at)
         IN  IsBlock(b) /\ b[1].back = from.mem[at].back /\ BodyOf(b) = DataAt(from, at)
<1> DEFINE z == from.mem[at].size
           m == [i \in 1 .. BufferSize |-> from.mem[i - 1]]
           b == Block(from, at)
<1>1. s \in Sections /\ Shaped(from) /\ Tiled(Contents(from, s)) /\ BufferSize \in Nat
  BY RingAssumption, XipAssumption DEF Source, RingSections
<1>2. at \in Nat /\ z \in Nat \ {0} /\ at + z <= BufferSize
  <2>1. /\ at \in Nat /\ z \in Nat \ {0} /\ at + z <= End(from.section[s])
        /\ End(from.section[s]) \in Nat /\ End(from.section[s]) <= BufferSize
    BY <1>1, BlockSpan
  <2> HIDE DEF z
  <2> QED BY <1>1, <2>1
<1>3. m \in Seq(CellsOf(from)) /\ Len(m) = BufferSize
  <2>1. \A i \in 1 .. BufferSize : from.mem[i - 1] \in CellsOf(from)
    BY <1>1 DEF CellsOf
  <2> QED BY <1>1, <2>1
<1>4. b = SubSeq(m, at + 1, at + z)
  BY DEF Block
<1>5. \A i \in 1 .. BufferSize : m[i] = from.mem[i - 1]
  OBVIOUS
<1> HIDE DEF m, b
<1> HIDE DEF z
<1>6. b \in Seq(CellsOf(from)) /\ Len(b) = z /\ \A k \in 1 .. z : b[k] = m[at + k]
  <2>1. at + 1 \in 1 .. BufferSize + 1 /\ at + z \in 0 .. BufferSize /\ at + 1 <= at + z
    BY <1>1, <1>2
  <2>2. Len(b) = z /\ \A k \in 1 .. z : b[k] = m[at + k]
    BY <1>1, <1>2, <1>3, <1>4, <2>1
  <2>3. b \in Seq(CellsOf(from))
    BY <1>1, <1>2, <1>3, <1>4, <2>1
  <2> QED BY <2>2, <2>3
<1>7. \A k \in 1 .. z : b[k] = from.mem[at + k - 1]
  <2>1. \A k \in 1 .. z : at + k \in 1 .. BufferSize /\ at + k - 1 = (at + k) - 1
    BY <1>1, <1>2
  <2> QED BY <1>5, <1>6, <2>1
<1>8. b # << >> /\ 1 \in 1 .. z /\ at + 1 - 1 = at
  BY <1>2, <1>6
<1>9. b[1] = from.mem[at]
  BY <1>7, <1>8
<1>10. IsBlock(b) /\ b[1].back = from.mem[at].back
  <2>1. b[1] = Header(b[1].back, Len(b), b[1].dd, b[1].phase, b[1].override)
    BY <1>6, <1>9 DEF WithHeader, z
  <2> QED BY <1>6, <1>8, <1>9, <2>1 DEF IsBlock
<1>11. BodyOf(b) = DataAt(from, at)
  <2>1. \A k \in 1 .. z - 1 : k + 1 \in 1 .. z /\ at + (k + 1) - 1 = at + k
    BY <1>2
  <2>2. \A k \in 1 .. z - 1 : b[k + 1].data = from.mem[at + k].data
    BY <1>7, <2>1
  <2>3. BodyOf(b) = [k \in 1 .. z - 1 |-> b[k + 1].data]
    BY <1>6 DEF BodyOf
  <2>4. DataAt(from, at) = [k \in 1 .. z - 1 |-> from.mem[at + k].data]
    BY DEF DataAt, z
  <2> QED BY <2>2, <2>3, <2>4
<1> QED BY <1>10, <1>11 DEF b

(* The image of a file that reflects requests is one.                      *)
LEMMA RequestRing ==
  ASSUME NEW req \in Accepted, NEW from, NEW at \in Nat, \A i \in 1 .. Len(RingOf(req)) : from.mem[at + i - 1] = RingOf(req)[i],
         from.mem[at] = Header(SlotFor(req), Len(RingOf(req)), DdOf(req.dd), req.phase, req.override)
  PROVE  WithHeader(from, at) /\ from.mem[at].back = SlotFor(req) /\ DataAt(from, at) = req.data
<1> DEFINE b == RingOf(req)
           n == Len(req.data)
<1>1. req.data \in Seq(Nat) /\ Len(b) = 1 + n /\ \A j \in DOMAIN req.data : b[j + 1] = Body(req.data[j])
  BY AcceptedFacts
<1>2. from.mem[at].back = SlotFor(req) /\ from.mem[at].size = Len(b) /\ WithHeader(from, at)
  BY DEF Header, WithHeader
<1>3. n \in Nat /\ DOMAIN req.data = 1 .. n
  BY <1>1
<1>4. \A j \in 1 .. n : from.mem[at + j] = b[j + 1]
  <2>1. \A j \in 1 .. n : j + 1 \in 1 .. Len(b) /\ at + (j + 1) - 1 = at + j
    BY <1>1, <1>3
  <2> HIDE DEF b, n
  <2> QED BY <2>1 DEF b
<1>5. \A j \in 1 .. n : from.mem[at + j].data = req.data[j]
  <2> HIDE DEF n, b
  <2>1. \A j \in 1 .. n : b[j + 1] = Body(req.data[j])
    BY <1>1, <1>3
  <2>2. \A x : Body(x).data = x
    BY DEF Body
  <2> QED BY <1>4, <2>1, <2>2
<1>6. from.mem[at].size - 1 = n
  BY <1>1, <1>2, <1>3
<1>7. req.data \in [1 .. n -> Nat]
  BY <1>1
<1> HIDE DEF n, b
<1>8. DataAt(from, at) = [j \in 1 .. n |-> req.data[j]]
  BY <1>5, <1>6 DEF DataAt
<1> QED BY <1>2, <1>7, <1>8

SlotsTo(s) == IF s = RINGS THEN PlainSlots ELSE VpdSlots
LEMMA ReadableSource ==
  ASSUME NEW from, Readable(from), NEW s \in RingSections
  PROVE  Source(from, s) /\ RingsIn(from, s, SlotsTo(s))
<1>1. PICK rings \in Seq(Accepted) : Reflects(from, rings)
  BY DEF Readable
<1>2. PICK pos \in [DOMAIN rings -> Nat \ {0}] : Placed(Contents(from, s), s, rings, pos)
  BY <1>1 DEF Reflects
<1>3. Tiled(Contents(from, s))
  BY <1>2 DEF Placed
<1>4. Shaped(from)
  BY LaidOutIsShaped DEF Readable, Ready
<1>5. s \in Present(from) => from.section[s].offset # 0
  <2> SUFFICES ASSUME s \in Present(from), from.section[s].offset = 0 PROVE FALSE
    OBVIOUS
  <2>1. Covered(from, from.section[s].offset - 1)
    BY DEF Readable, Ready, Extensible, Abutting
  <2>2. PICK t \in Present(from) : 0 - 1 \in from.section[t].offset .. End(from.section[t]) - 1
    BY <2>1 DEF Covered
  <2>3. from.section[t].offset \in Nat
    BY <1>4, ShapedTypes DEF Present
  <2> QED BY <2>2, <2>3
<1>6. Source(from, s)
  BY <1>3, <1>4, <1>5 DEF Source
<1>7. ASSUME NEW at \in Blocks(from, s)
      PROVE  WithHeader(from, at) /\ from.mem[at].back \in SlotsTo(s) /\ DataAt(from, at) \in DOMAIN Program
  <2>1. PICK k \in Goes(s, rings) : at = PlaceIn(from, s, pos, k)
    BY <1>2, <1>7, BlocksPlaced
  <2> DEFINE req == rings[k]
             b == RingOf(req)
  <2>2. /\ req \in Accepted /\ \A i \in 1 .. Len(b) : from.mem[at + i - 1] = b[i]
        /\ from.mem[at] = Header(SlotFor(req), Len(b), DdOf(req.dd), req.phase, req.override) /\ at \in Nat
    <3> DEFINE there == PlaceIn(from, s, pos, k)
    <3>1. Ready(from)
      BY DEF Readable
    <3>2. /\ rings[k] \in Accepted /\ there \in Nat /\ \A i \in 1 .. Len(RingOf(rings[k])) : from.mem[there + i - 1] = RingOf(rings[k])[i]
          /\ from.mem[there] = Header(SlotFor(rings[k]), Len(RingOf(rings[k])), DdOf(rings[k].dd), rings[k].phase, rings[k].override)
      BY <1>2, <3>1, BlockInImage
    <3> HIDE DEF there
    <3>3. there = at
      BY <2>1 DEF there
    <3> QED BY <3>2, <3>3
  <2>3. RingSection(req.name) = s
    BY <2>1 DEF Goes
  <2> HIDE DEF req
  <2>4. WithHeader(from, at) /\ from.mem[at].back = SlotFor(req) /\ DataAt(from, at) = req.data
    BY <2>2, RequestRing
  <2>5. /\ req \in Requests /\ req.name \in RingName
        /\ SlotFor(req) = SlotOf[req.name] + SlotIndex(req) /\ SlotIndex(req) \in 0 .. Elements(req.name) - 1
    BY <2>2, AcceptedFacts
  <2>6. SlotFor(req) \in (IF VpdType(req.name) = "none" THEN PlainSlots ELSE VpdSlots)
    BY <2>5, SlotKinds
  <2>7. RINGS # DCRINGS
    BY DEF RINGS, DCRINGS
  <2>8. SlotFor(req) \in SlotsTo(s)
    BY <2>3, <2>6, <2>7 DEF RingSection, SlotsTo
  <2>9. req.data \in DOMAIN Program
    BY <2>5, BuildAssumption
  <2> QED BY <2>4, <2>8, <2>9
<1> QED BY <1>6, <1>7 DEF RingsIn

(***************************************************************************)
(* The loops that add the rings of an image to another: copies of blocks,  *)
(* or programs of them.                                                    *)
(***************************************************************************)
More(m, img, at) ==
    IF m.copy THEN CopyRing(img, m.from, at, m.s) ELSE ProgramRing(img, m.from, at, m.max)
TurnIn(m, a) ==
    LET found == GetRingLayout2(m.from, m.dd, m.phase, a.next, m.s)
    IN  NextRing(a, found, More(m, a.image, found.at))
DataFor(m, at) == IF m.copy THEN DataAt(m.from, at) ELSE Program[DataAt(m.from, at)]
Sourced(m, slots) ==
    /\ Source(m.from, m.s) /\ RingsIn(m.from, m.s, slots) /\ slots \subseteq RingSlots
    /\ IF m.copy THEN m.max = m.from.size ELSE m.s = RINGS
    /\ m.max \in Int /\ m.max <= BufferSize

LEMMA Recoded ==
  ASSUME NEW img, NEW w, NEW slot \in RingSlots, NEW s, NEW data, RingPlaced(img, w, s, slot, data),
         NEW r, \/ r = w
                \/ r = [w EXCEPT !.rc = "RING_WRITE_TO_IMAGE"] /\ w.rc # "OK"
  PROVE  RingPlaced(img, r, s, slot, data)
<1>1. CASE r = w
  BY <1>1
<1>2. CASE r = [w EXCEPT !.rc = "RING_WRITE_TO_IMAGE"] /\ w.rc # "OK"
  <2>1. w = Answer(w.rc, w.image)
    BY DEF RingPlaced
  <2>2. [w EXCEPT !.rc = "RING_WRITE_TO_IMAGE"] = Answer("RING_WRITE_TO_IMAGE", w.image)
    <3> DEFINE rc == w.rc
               i == w.image
    <3>1. w = Answer(rc, i)
      BY <2>1
    <3>2. [Answer(rc, i) EXCEPT !.rc = "RING_WRITE_TO_IMAGE"] = Answer("RING_WRITE_TO_IMAGE", i)
      BY RecodedAnswer
    <3> HIDE DEF rc, i
    <3>3. [w EXCEPT !.rc = "RING_WRITE_TO_IMAGE"] = Answer("RING_WRITE_TO_IMAGE", i)
      BY <3>1, <3>2
    <3> QED BY <3>3 DEF i
  <2>3. Carried(img, w.image, {slot}) /\ (Leads(img, slot) => Leads(w.image, slot))
    BY DEF RingPlaced
  <2>4. RingPlaced(img, Answer("RING_WRITE_TO_IMAGE", w.image), s, slot, data)
    BY <2>3, PlacedBy
  <2> QED BY <1>2, <2>2, <2>4
<1> QED BY <1>1, <1>2

LEMMA MorePlaced ==
  ASSUME NEW m, NEW slots, Sourced(m, slots), NEW img, Sound(img), NEW at \in Blocks(m.from, m.s)
  PROVE  RingPlaced(img, More(m, img, at), m.s, m.from.mem[at].back, DataFor(m, at))
<1> DEFINE back == m.from.mem[at].back
           b == Block(m.from, at)
<1>1. /\ WithHeader(m.from, at) /\ back \in RingSlots /\ DataAt(m.from, at) \in DOMAIN Program
      /\ Source(m.from, m.s) /\ m.s \in RingSections /\ m.max \in Int /\ m.max <= BufferSize
  BY DEF Sourced, RingsIn, Source
<1>2. IsBlock(b) /\ b[1].back = back /\ BodyOf(b) = DataAt(m.from, at)
  BY <1>1, BlockRead
<1> HIDE DEF back, b
<1>3. CASE m.copy
  <2> DEFINE w == WriteRingBlock(img, NoName, b, 0, 0, 0, m.from.size, m.s, RingBuffer)
             r == CopyRing(img, m.from, at, m.s)
  <2>1. RingPlaced(img, w, m.s, back, DataAt(m.from, at))
    <3>1. m.max = m.from.size
      BY <1>3 DEF Sourced
    <3>2. back = IF NoName = NoName THEN b[1].back ELSE BackPointer(NoName, 0, 0, 0)
      BY <1>2
    <3>3. RingPlaced(img, WriteRingBlock(img, NoName, b, 0, 0, 0, m.max, m.s, RingBuffer), m.s, back, BodyOf(b))
      BY <1>1, <1>2, <3>2, RingWritten
    <3> QED BY <1>2, <3>1, <3>3
  <2>2. r = w \/ (r = [w EXCEPT !.rc = "RING_WRITE_TO_IMAGE"] /\ w.rc # "OK")
    <3>1. r = Mapped(w, LAMBDA rc : "RING_WRITE_TO_IMAGE")
      BY DEF CopyRing, b
    <3> HIDE DEF r, w
    <3> QED BY <3>1 DEF Mapped
  <2> HIDE DEF r, w
  <2>3. RingPlaced(img, r, m.s, back, DataAt(m.from, at))
    BY <1>1, <2>1, <2>2, Recoded
  <2> QED BY <1>3, <2>3 DEF More, DataFor, r, back
<1>4. CASE ~ m.copy
  <2> DEFINE layout == [back |-> back]
             program == Program[DataAt(m.from, at)]
  <2>1. m.s = RINGS
    BY <1>4 DEF Sourced
  <2>2. layout.back = back /\ program \in Seq(Nat)
    BY <1>1, BuildAssumption
  <2>3. ProgramRing(img, m.from, at, m.max) = WriteWiggleFlip(img, m.max, layout, program, MaxAlign)
    BY DEF ProgramRing, DataAt, back
  <2> HIDE DEF layout, program
  <2>4. RingPlaced(img, WriteWiggleFlip(img, m.max, layout, program, MaxAlign), RINGS, layout.back, program)
    BY <1>1, <2>2, FlipWritten
  <2> QED BY <1>4, <2>1, <2>2, <2>3, <2>4 DEF More, DataFor, back, program
<1> QED BY <1>3, <1>4

(* What a loop has done before its turn k: the matching blocks that it has *)
(* passed, and the pointers of their slots.                                *)
Passed(m, a) == {b \in MatchesIn(m.from, m.s, m.dd, m.phase) : a.done \/ b < a.next}
Toward(m, some, slot) == {b \in some : m.from.mem[b].back = slot}
LastOf(some) == CHOOSE at \in some : \A b \in some : b <= at
SlotTurned(m, some, img, i, slot) ==
    IF Toward(m, some, slot) = {} THEN SlotCell(i, slot) = SlotCell(img, slot)
    ELSE PointsTo(i, slot, DataFor(m, LastOf(Toward(m, some, slot))))
SlotsTurned(m, some, img, i) == \A slot \in RingSlots : SlotTurned(m, some, img, i, slot)
LeadOn(img, i) == \A slot \in RingSlots : Leads(img, slot) => Leads(i, slot)
TurningIn(m, slots, img, a, k) ==
    /\ a = [rc |-> a.rc, image |-> a.image, next |-> a.next, done |-> a.done]
    /\ a.next \in Blocks(m.from, m.s) \cup {0}
    /\ Carried(img, a.image, slots) /\ LeadOn(img, a.image)
    /\ a.rc = "OK" => (a.done \/ k <= a.next) /\ (m.s = RINGS => SlotsTurned(m, Passed(m, a), img, a.image))

LEMMA LastIs ==
  ASSUME NEW some, NEW at, at \in some, some \subseteq Nat, \A b \in some : b <= at
  PROVE  LastOf(some) = at
<1>1. \E x \in some : \A b \in some : b <= x
  OBVIOUS
<1>2. LastOf(some) \in some /\ \A b \in some : b <= LastOf(some)
  BY <1>1 DEF LastOf
<1>3. LastOf(some) <= at /\ at <= LastOf(some)
  BY <1>2
<1> DEFINE x == LastOf(some)
<1>4. x \in Nat /\ at \in Nat
  BY <1>2
<1> HIDE DEF x
<1> QED BY <1>3, <1>4 DEF x

(* A block that is added is the last that has been passed.                 *)
LEMMA SlotsTurnedOn ==
  ASSUME NEW m, NEW some, some \subseteq Nat, NEW at \in Nat, \A b \in some : b <= at, NEW img, NEW i, NEW r,
         SlotsTurned(m, some, img, i), Carried(i, r, {m.from.mem[at].back}),
         m.from.mem[at].back \in RingSlots, PointsTo(r, m.from.mem[at].back, DataFor(m, at))
  PROVE  SlotsTurned(m, some \cup {at}, img, r)
<1> DEFINE back == m.from.mem[at].back
           all == some \cup {at}
<1> SUFFICES ASSUME NEW slot \in RingSlots PROVE SlotTurned(m, all, img, r, slot)
  BY DEF SlotsTurned
<1>1. SlotTurned(m, some, img, i, slot)
  BY DEF SlotsTurned
<1>2. CASE slot = back
  <2>1. at \in Toward(m, all, slot) /\ Toward(m, all, slot) \subseteq all
    BY <1>2 DEF Toward
  <2>2. all \subseteq Nat /\ \A b \in all : b <= at
    OBVIOUS
  <2> HIDE DEF all
  <2>3. LastOf(Toward(m, all, slot)) = at
    <3> DEFINE T == Toward(m, all, slot)
    <3>1. at \in T /\ T \subseteq Nat /\ \A b \in T : b <= at
      BY <2>1, <2>2
    <3> HIDE DEF T
    <3>2. LastOf(T) = at
      BY <3>1, LastIs
    <3> QED BY <3>2 DEF T
  <2>4. PointsTo(r, slot, DataFor(m, at))
    BY <1>2
  <2> QED BY <2>1, <2>3, <2>4 DEF SlotTurned
<1>3. CASE slot # back
  <2>1. Toward(m, all, slot) = Toward(m, some, slot)
    BY <1>3 DEF Toward
  <2>2. SlotCell(r, slot) = SlotCell(i, slot) /\ KeepsBlocks(i, r)
    BY <1>3 DEF Carried
  <2>3. \A data : PointsTo(i, slot, data) => PointsTo(r, slot, data)
    BY <2>2, LeadsAgain
  <2> HIDE DEF all
  <2> QED BY <1>1, <2>1, <2>2, <2>3 DEF SlotTurned
<1> QED BY <1>2, <1>3

LEMMA CarriedWithin ==
  ASSUME NEW img, NEW i, NEW r, NEW slots, NEW back \in slots, Carried(img, i, slots), Carried(i, r, {back})
  PROVE  Carried(img, r, slots)
<1>1. Carried(img, r, slots \cup {back})
  BY CarriedThrough
<1>2. slots \cup {back} = slots
  OBVIOUS
<1> QED BY <1>1, <1>2

LEMMA LeadOnward ==
  ASSUME NEW img, NEW i, NEW r, NEW back, LeadOn(img, i), Carried(i, r, {back}), Leads(i, back) => Leads(r, back)
  PROVE  LeadOn(img, r)
<1> SUFFICES ASSUME NEW slot \in RingSlots, Leads(img, slot) PROVE Leads(r, slot)
  BY DEF LeadOn
<1>1. Leads(i, slot)
  BY DEF LeadOn
<1>2. CASE slot = back
  BY <1>1, <1>2
<1>3. CASE slot # back
  <2>1. SlotCell(r, slot) = SlotCell(i, slot) /\ KeepsBlocks(i, r)
    BY <1>3 DEF Carried
  <2> QED BY <1>1, <2>1, LeadsAgain
<1> QED BY <1>2, <1>3

LEMMA PassedNext ==
  ASSUME NEW m, NEW slots, Sourced(m, slots), NEW a, a.next \in Blocks(m.from, m.s) \cup {0}, ~ a.done,
         NEW found, NextIs(found, m.from, m.s, m.dd, m.phase, a.next), NEW b
  PROVE  /\ Passed(m, a) \subseteq Nat /\ a.next \in Nat
         /\ found.rc = "NO_MATCH" /\ b.done => Passed(m, b) = Passed(m, a)
         /\ found.rc \in {"MATCH", "EXHAUST_MATCH"} /\ b.next = found.next /\ b.done = (found.rc # "MATCH") =>
               /\ found.at \in Blocks(m.from, m.s) /\ found.at \in Nat
               /\ \A x \in Passed(m, a) : x <= found.at
               /\ Passed(m, b) = Passed(m, a) \cup {found.at}
               /\ b.next \in Blocks(m.from, m.s) \cup {0} /\ (b.done \/ a.next < b.next)
<1> DEFINE B == Blocks(m.from, m.s)
           M == MatchesIn(m.from, m.s, m.dd, m.phase)
           P == Passed(m, a)
           Q == Passed(m, b)
           n == a.next
           at == found.at
<1>1. B \subseteq Nat
  <2>1. Shaped(m.from) /\ m.s \in Sections /\ Tiled(Contents(m.from, m.s))
    BY RingAssumption DEF Sourced, Source, RingSections
  <2> QED BY <2>1, BlockSpan
<1>2. M \subseteq B /\ M \subseteq Nat
  BY <1>1 DEF MatchesIn
<1>3. P = {x \in M : x < n} /\ Q = {x \in M : b.done \/ x < b.next}
  BY DEF Passed
<1>4. n \in Nat
  BY <1>1
<1>5. /\ found.rc = "NO_MATCH" => \A x \in M : x < n
      /\ found.rc \in {"MATCH", "EXHAUST_MATCH"} => at \in M /\ n <= at /\ \A x \in M : x < n \/ at <= x
      /\ found.rc = "MATCH" =>
            found.next \in B /\ at < found.next /\ \A x \in B : x <= at \/ found.next <= x
      /\ found.rc = "EXHAUST_MATCH" => found.next = 0 /\ \A x \in B : x <= at
  BY DEF NextIs
<1> HIDE DEF B, M, P, Q, n, at
<1>6. P \subseteq Nat
  BY <1>2, <1>3
<1>7. found.rc = "NO_MATCH" /\ b.done => Q = P
  BY <1>3, <1>5
<1>8. ASSUME found.rc \in {"MATCH", "EXHAUST_MATCH"}
      PROVE  at \in B /\ at \in Nat /\ n <= at /\ at \in M /\ \A x \in P : x <= at
  <2>1. at \in M /\ n <= at
    BY <1>5, <1>8
  <2>2. at \in B /\ at \in Nat
    BY <1>2, <2>1
  <2>3. \A x \in P : x \in Nat /\ x < n
    BY <1>3, <1>6
  <2> QED BY <1>4, <2>1, <2>2, <2>3
<1>9. ASSUME found.rc = "MATCH", b.next = found.next, ~ b.done
      PROVE  Q = P \cup {at} /\ b.next \in B /\ n < b.next
  <2>1. at \in M /\ at \in Nat /\ n <= at /\ b.next \in B /\ at < b.next /\ b.next \in Nat
    BY <1>1, <1>5, <1>8, <1>9
  <2>2. \A x \in M : x < b.next <=> (x < n \/ x = at)
    <3> SUFFICES ASSUME NEW x \in M PROVE x < b.next <=> (x < n \/ x = at)
      OBVIOUS
    <3>1. x \in Nat /\ (x < n \/ at <= x) /\ (x <= at \/ b.next <= x)
      BY <1>2, <1>5, <1>9
    <3> QED BY <1>4, <2>1, <3>1
  <2>3. n < b.next
    BY <1>4, <2>1
  <2> QED BY <1>3, <1>9, <2>1, <2>2, <2>3
<1>10. ASSUME found.rc = "EXHAUST_MATCH", b.next = found.next, b.done
       PROVE  Q = P \cup {at} /\ b.next = 0
  <2>1. \A x \in M : x < n \/ x = at
    <3> SUFFICES ASSUME NEW x \in M PROVE x < n \/ x = at
      OBVIOUS
    <3>1. x \in Nat /\ (x < n \/ at <= x) /\ x <= at
      BY <1>2, <1>5, <1>10
    <3> QED BY <1>4, <1>8, <1>10, <3>1
  <2> QED BY <1>3, <1>5, <1>8, <1>10, <2>1
<1> QED BY <1>4, <1>6, <1>7, <1>8, <1>9, <1>10 DEF P, Q, B, M, n, at

LEMMA TurnInKeeps ==
  ASSUME NEW m, NEW slots, Sourced(m, slots), NEW img, NEW a, NEW k \in Nat, TurningIn(m, slots, img, a, k)
  PROVE  TurningIn(m, slots, img, TurnIn(m, a), k + 1)
<1> DEFINE found == GetRingLayout2(m.from, m.dd, m.phase, a.next, m.s)
           more == More(m, a.image, found.at)
           b == TurnIn(m, a)
           back == m.from.mem[found.at].back
<1>1. \/ b = a /\ (a.rc # "OK" \/ a.done)
      \/ a.rc = "OK" /\ ~ a.done /\ found.rc = "NO_MATCH" /\ b = [a EXCEPT !.done = TRUE]
      \/ b = [a EXCEPT !.rc = "INCOMPLETE_IMG_BUILD"]
      \/ /\ a.rc = "OK" /\ ~ a.done /\ found.rc \in {"MATCH", "EXHAUST_MATCH"}
         /\ b = [rc |-> more.rc, image |-> more.image, next |-> found.next, done |-> found.rc # "MATCH"]
  <2> HIDE DEF found, more
  <2> QED BY Zenon DEF TurnIn, NextRing, found, more
<1>2. /\ a = [rc |-> a.rc, image |-> a.image, next |-> a.next, done |-> a.done]
      /\ a.next \in Blocks(m.from, m.s) \cup {0}
      /\ Carried(img, a.image, slots) /\ LeadOn(img, a.image)
      /\ a.rc = "OK" => (a.done \/ k <= a.next) /\ (m.s = RINGS => SlotsTurned(m, Passed(m, a), img, a.image))
  BY DEF TurningIn
<1>3. NextIs(found, m.from, m.s, m.dd, m.phase, a.next)
  <2>1. /\ Shaped(m.from) /\ m.s \in Sections /\ Tiled(Contents(m.from, m.s))
        /\ m.s \in Present(m.from) => m.from.section[m.s].offset # 0
    BY RingAssumption DEF Sourced, Source, RingSections
  <2> QED BY <1>2, <2>1, NextFound
<1> HIDE DEF found, b
<1>4. CASE b = a /\ (a.rc # "OK" \/ a.done)
  BY <1>2, <1>4 DEF TurningIn, b
<1>5. CASE a.rc = "OK" /\ ~ a.done /\ found.rc = "NO_MATCH" /\ b = [a EXCEPT !.done = TRUE]
  <2>1. /\ b = [rc |-> b.rc, image |-> b.image, next |-> b.next, done |-> b.done]
        /\ b.next = a.next /\ b.image = a.image /\ b.rc = a.rc /\ b.done
    <3>1. b = [rc |-> a.rc, image |-> a.image, next |-> a.next, done |-> TRUE]
      BY <1>2, <1>5
    <3> QED BY <3>1
  <2>2. Passed(m, b) = Passed(m, a)
    BY <1>2, <1>3, <1>5, <2>1, PassedNext
  <2>3. TurningIn(m, slots, img, b, k + 1)
    BY <1>2, <1>5, <2>1, <2>2 DEF TurningIn
  <2> QED BY <2>3 DEF b
<1>6. CASE b = [a EXCEPT !.rc = "INCOMPLETE_IMG_BUILD"]
  <2>1. /\ b = [rc |-> b.rc, image |-> b.image, next |-> b.next, done |-> b.done]
        /\ b.next = a.next /\ b.image = a.image /\ b.rc # "OK"
    <3>1. b = [rc |-> "INCOMPLETE_IMG_BUILD", image |-> a.image, next |-> a.next, done |-> a.done]
      BY <1>2, <1>6
    <3> QED BY <3>1
  <2>2. TurningIn(m, slots, img, b, k + 1)
    BY <1>2, <2>1 DEF TurningIn
  <2> QED BY <2>2 DEF b
<1>7. CASE /\ a.rc = "OK" /\ ~ a.done /\ found.rc \in {"MATCH", "EXHAUST_MATCH"}
           /\ b = [rc |-> more.rc, image |-> more.image, next |-> found.next, done |-> found.rc # "MATCH"]
  <2> HIDE DEF more
  <2>1. /\ b = [rc |-> b.rc, image |-> b.image, next |-> b.next, done |-> b.done]
        /\ b.next = found.next /\ b.image = more.image /\ b.rc = more.rc /\ b.done = (found.rc # "MATCH")
    BY <1>7
  <2>2. /\ found.at \in Blocks(m.from, m.s) /\ found.at \in Nat /\ Passed(m, a) \subseteq Nat
        /\ \A x \in Passed(m, a) : x <= found.at
        /\ Passed(m, b) = Passed(m, a) \cup {found.at}
        /\ b.next \in Blocks(m.from, m.s) \cup {0} /\ (b.done \/ a.next < b.next) /\ a.next \in Nat
    BY <1>2, <1>3, <1>7, <2>1, PassedNext
  <2>3. RingPlaced(a.image, more, m.s, back, DataFor(m, found.at))
    <3>1. Sound(a.image)
      BY <1>2 DEF Carried
    <3> QED BY <2>2, <3>1, MorePlaced DEF more
  <2>4. back \in slots /\ back \in RingSlots
    BY <2>2 DEF Sourced, RingsIn
  <2>5. /\ Carried(a.image, b.image, {back}) /\ (Leads(a.image, back) => Leads(b.image, back))
        /\ b.rc = "OK" /\ m.s = RINGS => PointsTo(b.image, back, DataFor(m, found.at))
    BY <2>1, <2>3 DEF RingPlaced
  <2>6. Carried(img, b.image, slots)
    <3> HIDE DEF back
    <3> QED BY <1>2, <2>4, <2>5, CarriedWithin
  <2>7. LeadOn(img, b.image)
    <3> HIDE DEF back
    <3> QED BY <1>2, <2>5, LeadOnward
  <2>8. ASSUME b.rc = "OK", m.s = RINGS PROVE SlotsTurned(m, Passed(m, b), img, b.image)
    BY <1>2, <1>7, <2>2, <2>4, <2>5, <2>8, SlotsTurnedOn
  <2>9. b.done \/ k + 1 <= b.next
    <3>1. k <= a.next
      BY <1>2, <1>7
    <3>2. ASSUME ~ b.done PROVE k + 1 <= b.next
      <4>1. a.next < b.next /\ b.next \in Nat
        <5>1. Shaped(m.from) /\ m.s \in Sections /\ Tiled(Contents(m.from, m.s))
          BY RingAssumption DEF Sourced, Source, RingSections
        <5>2. \A x \in Blocks(m.from, m.s) : x \in Nat
          BY <5>1, BlockSpan
        <5> QED BY <2>2, <3>2, <5>2
      <4> QED BY <2>2, <3>1, <4>1
    <3> QED BY <3>2
  <2>10. TurningIn(m, slots, img, b, k + 1)
    BY <2>1, <2>2, <2>6, <2>7, <2>8, <2>9 DEF TurningIn
  <2> QED BY <2>10 DEF b
<1> QED BY <1>1, <1>4, <1>5, <1>6, <1>7

(* The states of a loop, turn by turn, and what all of its turns leave.    *)
LoopOf(f, n, m, img) == f = [k \in 0 .. n |-> IF k = 0 THEN AtFirst(img) ELSE TurnIn(m, f[k - 1])]
Collected(m, slots, img, r) ==
    /\ r = Answer(r.rc, r.image) /\ Carried(img, r.image, slots) /\ LeadOn(img, r.image)
    /\ r.rc = "OK" /\ m.s = RINGS => SlotsTurned(m, MatchesIn(m.from, m.s, m.dd, m.phase), img, r.image)

LEMMA LoopExists ==
  ASSUME NEW m, NEW img, NEW N \in Nat
  PROVE  \E f : LoopOf(f, N, m, img)
<1> DEFINE T == {n \in 0 .. N : ~ \E f : LoopOf(f, n, m, img)}
<1> SUFFICES ASSUME T # {} PROVE FALSE
  OBVIOUS
<1>1. PICK last \in T : \A x \in T : last <= x
  <2>1. T \subseteq Nat
    OBVIOUS
  <2> HIDE DEF T
  <2> QED BY <2>1, LeastNatural
<1>2. last # 0
  <2> DEFINE g == [k \in 0 .. 0 |-> AtFirst(img)]
  <2>1. g = [k \in 0 .. 0 |-> IF k = 0 THEN AtFirst(img) ELSE TurnIn(m, g[k - 1])]
    OBVIOUS
  <2> HIDE DEF g
  <2>2. LoopOf(g, 0, m, img)
    BY <2>1 DEF LoopOf
  <2> QED BY <1>1, <2>2
<1>3. last \in Nat \ {0} /\ last - 1 \in 0 .. N /\ ~ (last <= last - 1)
  BY <1>1, <1>2
<1>4. last - 1 \notin T
  <2> HIDE DEF T
  <2> QED BY <1>1, <1>3
<1>5. PICK g : LoopOf(g, last - 1, m, img)
  BY <1>3, <1>4
<1> DEFINE h == [k \in 0 .. last |-> IF k = 0 THEN AtFirst(img) ELSE TurnIn(m, g[k - 1])]
<1>6. \A j \in 0 .. last - 1 : h[j] = g[j]
  <2>1. g = [k \in 0 .. last - 1 |-> IF k = 0 THEN AtFirst(img) ELSE TurnIn(m, g[k - 1])]
    BY <1>5 DEF LoopOf
  <2>2. \A j \in 0 .. last - 1 : g[j] = IF j = 0 THEN AtFirst(img) ELSE TurnIn(m, g[j - 1])
    BY <2>1
  <2>3. \A j \in 0 .. last - 1 : j \in 0 .. last
    BY <1>3
  <2> QED BY <2>2, <2>3
<1>7. \A k \in 0 .. last : k # 0 => k - 1 \in 0 .. last - 1
  BY <1>3
<1>8. h = [k \in 0 .. last |-> IF k = 0 THEN AtFirst(img) ELSE TurnIn(m, h[k - 1])]
  <2>1. \A k \in 0 .. last : (IF k = 0 THEN AtFirst(img) ELSE TurnIn(m, g[k - 1]))
                           = (IF k = 0 THEN AtFirst(img) ELSE TurnIn(m, h[k - 1]))
    <3> HIDE DEF h
    <3> QED BY <1>6, <1>7
  <2> QED BY <2>1
<1> HIDE DEF h
<1>9. LoopOf(h, last, m, img)
  BY <1>8 DEF LoopOf
<1> QED BY <1>1, <1>9

LEMMA LoopKeeps ==
  ASSUME NEW m, NEW slots, Sourced(m, slots), NEW img, Sound(img), NEW N \in Nat, NEW f, LoopOf(f, N, m, img)
  PROVE  \A k \in 0 .. N : TurningIn(m, slots, img, f[k], k)
<1> DEFINE T == {n \in 0 .. N : ~ TurningIn(m, slots, img, f[n], n)}
<1> SUFFICES ASSUME T # {} PROVE FALSE
  OBVIOUS
<1>1. PICK last \in T : \A x \in T : last <= x
  <2>1. T \subseteq Nat
    OBVIOUS
  <2> HIDE DEF T
  <2> QED BY <2>1, LeastNatural
<1>2. \A k \in 0 .. N : f[k] = IF k = 0 THEN AtFirst(img) ELSE TurnIn(m, f[k - 1])
  <2>1. f = [k \in 0 .. N |-> IF k = 0 THEN AtFirst(img) ELSE TurnIn(m, f[k - 1])]
    BY DEF LoopOf
  <2> QED BY <2>1
<1>3. last # 0
  <2> DEFINE a == AtFirst(img)
  <2>1. a = [rc |-> a.rc, image |-> a.image, next |-> a.next, done |-> a.done]
        /\ a.next = 0 /\ a.image = img /\ ~ a.done
    BY DEF AtFirst
  <2>2. Carried(img, img, slots) /\ LeadOn(img, img)
    BY DEF Carried, KeepsBlocks, SameBlock, LeadOn
  <2>3. SlotsTurned(m, Passed(m, a), img, img)
    <3>1. Passed(m, a) = {}
      <4>1. Shaped(m.from) /\ m.s \in Sections /\ Tiled(Contents(m.from, m.s))
        BY RingAssumption DEF Sourced, Source, RingSections
      <4>2. \A x \in Blocks(m.from, m.s) : x \in Nat
        BY <4>1, BlockSpan
      <4>3. \A x \in MatchesIn(m.from, m.s, m.dd, m.phase) : ~ (x < a.next)
        BY <2>1, <4>2 DEF MatchesIn
      <4> HIDE DEF a
      <4> QED BY <2>1, <4>3 DEF Passed
    <3>2. \A slot : Toward(m, Passed(m, a), slot) = {}
      BY <3>1 DEF Toward
    <3> HIDE DEF a
    <3> QED BY <3>2 DEF SlotsTurned, SlotTurned
  <2> HIDE DEF a
  <2>4. TurningIn(m, slots, img, a, 0)
    BY <2>1, <2>2, <2>3 DEF TurningIn
  <2>5. f[0] = a
    BY <1>2 DEF a
  <2> QED BY <1>1, <2>4, <2>5
<1>4. last \in 0 .. N /\ last - 1 \in 0 .. N /\ ~ (last <= last - 1)
  BY <1>1, <1>3
<1>5. TurningIn(m, slots, img, f[last - 1], last - 1)
  <2>1. last - 1 \notin T
    <3> HIDE DEF T
    <3> QED BY <1>1, <1>4
  <2> QED BY <1>4, <2>1
<1>6. TurningIn(m, slots, img, TurnIn(m, f[last - 1]), last - 1 + 1)
  BY <1>4, <1>5, TurnInKeeps
<1>7. f[last] = TurnIn(m, f[last - 1]) /\ last - 1 + 1 = last
  BY <1>2, <1>3, <1>4
<1> QED BY <1>1, <1>6, <1>7

LEMMA LoopCollects ==
  ASSUME NEW m, NEW slots, Sourced(m, slots), NEW img, NEW a, TurningIn(m, slots, img, a, BufferSize)
  PROVE  Collected(m, slots, img, Answer(a.rc, a.image))
<1> DEFINE M == MatchesIn(m.from, m.s, m.dd, m.phase)
<1>1. ASSUME a.rc = "OK" PROVE Passed(m, a) = M
  <2>1. Shaped(m.from) /\ m.s \in Sections /\ Tiled(Contents(m.from, m.s)) /\ BufferSize \in Nat
    BY RingAssumption, XipAssumption DEF Sourced, Source, RingSections
  <2>2. \A x \in Blocks(m.from, m.s) : x \in Nat /\ x < BufferSize
    <3> SUFFICES ASSUME NEW x \in Blocks(m.from, m.s) PROVE x \in Nat /\ x < BufferSize
      OBVIOUS
    <3> DEFINE z == m.from.mem[x].size
               e == End(m.from.section[m.s])
    <3>1. x \in Nat /\ z \in Nat \ {0} /\ x + z <= e /\ e \in Nat /\ e <= BufferSize
      BY <2>1, BlockSpan
    <3> HIDE DEF z, e
    <3> QED BY <2>1, <3>1
  <2>3. a.next \in Nat /\ (a.done \/ BufferSize <= a.next)
    BY <1>1, <2>2 DEF TurningIn
  <2>4. \A x \in M : a.done \/ x < a.next
    <3> SUFFICES ASSUME NEW x \in M, ~ a.done PROVE x < a.next
      OBVIOUS
    <3>1. x \in Nat /\ x < BufferSize
      BY <2>2 DEF MatchesIn
    <3> QED BY <2>1, <2>3, <3>1
  <2> QED BY <2>4 DEF Passed
<1> DEFINE r == Answer(a.rc, a.image)
<1>2. r.rc = a.rc /\ r.image = a.image
  BY AnswerFields
<1>3. /\ Carried(img, a.image, slots) /\ LeadOn(img, a.image)
      /\ a.rc = "OK" /\ m.s = RINGS => SlotsTurned(m, Passed(m, a), img, a.image)
  BY DEF TurningIn
<1>4. r = Answer(r.rc, r.image)
  <2> HIDE DEF r
  <2> QED BY <1>2 DEF r
<1> HIDE DEF r
<1>5. Collected(m, slots, img, r)
  BY <1>1, <1>2, <1>3, <1>4 DEF Collected
<1> QED BY <1>5 DEF r

ProgramsOf(from, dd, phase, max) ==
    [copy |-> FALSE, from |-> from, dd |-> dd, phase |-> phase, s |-> RINGS, max |-> max]
CopiesOf(from, dd, phase, s) ==
    [copy |-> TRUE, from |-> from, dd |-> dd, phase |-> phase, s |-> s, max |-> from.size]

LEMMA ProgramsCollect ==
  ASSUME NEW from, NEW dd, NEW phase, NEW max, NEW slots, Sourced(ProgramsOf(from, dd, phase, max), slots),
         NEW img, Sound(img)
  PROVE  Collected(ProgramsOf(from, dd, phase, max), slots, img, Programs(img, from, dd, phase, max))
<1> DEFINE N == BufferSize
           m == ProgramsOf(from, dd, phase, max)
           f == CHOOSE g : g = [k \in 0 .. N |->
                    IF k = 0 THEN AtFirst(img) ELSE ProgramTurn(g[k - 1], from, dd, phase, max)]
           r == Programs(img, from, dd, phase, max)
<1>1. N \in Nat
  BY XipAssumption
<1>2. r = Answer(f[N].rc, f[N].image)
  BY DEF Programs
<1>3. LoopOf(f, N, m, img)
  <2>1. PICK g : LoopOf(g, N, m, img)
    BY <1>1, LoopExists
  <2>2. \A a : TurnIn(m, a) = ProgramTurn(a, from, dd, phase, max)
    <3> SUFFICES ASSUME NEW a PROVE TurnIn(m, a) = ProgramTurn(a, from, dd, phase, max)
      OBVIOUS
    <3>1. m.copy = FALSE /\ m.from = from /\ m.dd = dd /\ m.phase = phase /\ m.s = RINGS /\ m.max = max
      BY DEF ProgramsOf
    <3> HIDE DEF m
    <3>2. \A at : More(m, a.image, at) = ProgramRing(a.image, from, at, max)
      BY <3>1 DEF More
    <3> QED BY <3>1, <3>2 DEF TurnIn, ProgramTurn
  <2> HIDE DEF m
  <2>3. \A g2 : LoopOf(g2, N, m, img) <=> g2 = [k \in 0 .. N |->
                    IF k = 0 THEN AtFirst(img) ELSE ProgramTurn(g2[k - 1], from, dd, phase, max)]
    BY <2>2 DEF LoopOf
  <2> HIDE DEF N
  <2> QED BY <2>1, <2>3
<1> HIDE DEF f, m, r, N
<1>4. Sourced(m, slots)
  BY DEF m
<1>5. TurningIn(m, slots, img, f[N], N)
  <2>1. N \in 0 .. N
    BY <1>1
  <2> QED BY <1>1, <1>3, <1>4, <2>1, LoopKeeps
<1>6. Collected(m, slots, img, Answer(f[N].rc, f[N].image))
  BY <1>4, <1>5, LoopCollects DEF N
<1> QED BY <1>2, <1>6 DEF m, r

LEMMA CopiesCollect ==
  ASSUME NEW from, NEW dd, NEW phase, NEW s, NEW slots, Sourced(CopiesOf(from, dd, phase, s), slots),
         NEW img, Sound(img)
  PROVE  Collected(CopiesOf(from, dd, phase, s), slots, img, CopiedIn(img, from, dd, phase, s))
<1> DEFINE N == BufferSize
           m == CopiesOf(from, dd, phase, s)
           f == CHOOSE g : g = [k \in 0 .. N |->
                    IF k = 0 THEN AtFirst(img) ELSE CopyTurn(g[k - 1], from, dd, phase, s)]
           r == CopiedIn(img, from, dd, phase, s)
<1>1. N \in Nat
  BY XipAssumption
<1>2. r = Answer(f[N].rc, f[N].image)
  BY DEF CopiedIn
<1>3. LoopOf(f, N, m, img)
  <2>1. PICK g : LoopOf(g, N, m, img)
    BY <1>1, LoopExists
  <2>2. \A a : TurnIn(m, a) = CopyTurn(a, from, dd, phase, s)
    <3> SUFFICES ASSUME NEW a PROVE TurnIn(m, a) = CopyTurn(a, from, dd, phase, s)
      OBVIOUS
    <3>1. m.copy = TRUE /\ m.from = from /\ m.dd = dd /\ m.phase = phase /\ m.s = s
      BY DEF CopiesOf
    <3> HIDE DEF m
    <3>2. \A at : More(m, a.image, at) = CopyRing(a.image, from, at, s)
      BY <3>1 DEF More
    <3> QED BY <3>1, <3>2 DEF TurnIn, CopyTurn
  <2> HIDE DEF m
  <2>3. \A g2 : LoopOf(g2, N, m, img) <=> g2 = [k \in 0 .. N |->
                    IF k = 0 THEN AtFirst(img) ELSE CopyTurn(g2[k - 1], from, dd, phase, s)]
    BY <2>2 DEF LoopOf
  <2> HIDE DEF N
  <2> QED BY <2>1, <2>3
<1> HIDE DEF f, m, r, N
<1>4. Sourced(m, slots)
  BY DEF m
<1>5. TurningIn(m, slots, img, f[N], N)
  <2>1. N \in 0 .. N
    BY <1>1
  <2> QED BY <1>1, <1>3, <1>4, <2>1, LoopKeeps
<1>6. Collected(m, slots, img, Answer(f[N].rc, f[N].image))
  BY <1>4, <1>5, LoopCollects DEF N
<1> QED BY <1>2, <1>6 DEF m, r

(***************************************************************************)
(* Builds.  They start from an image whose slots are zero.                 *)
(***************************************************************************)
Bare(img) == Sound(img) /\ \A slot \in RingSlots : Pointer(img, slot) = 0
BareIfOK(r) == r = Answer(r.rc, r.image) /\ (r.rc = "OK" => Bare(r.image))

LEMMA ThenIs ==
  ASSUME NEW r, NEW t
  PROVE  (IF r.rc = "OK" THEN t ELSE r).rc = "OK" => r.rc = "OK" /\ (IF r.rc = "OK" THEN t ELSE r) = t
OBVIOUS

LEMMA SameCellsBare ==
  ASSUME NEW img, Bare(img), NEW r, Sound(r), \A slot \in RingSlots : SlotCell(r, slot) = SlotCell(img, slot)
  PROVE  Bare(r)
BY DEF Bare, Pointer

LEMMA CarriedBare ==
  ASSUME NEW img, Bare(img), NEW r, Carried(img, r, {})
  PROVE  Bare(r)
BY SameCellsBare DEF Carried

LEMMA DeleteIs ==
  ASSUME NEW img, NEW s
  PROVE  LET r == Delete(img, s)
         IN  (\E rc : r = Answer(rc, DoDelete(img, s).image)) /\ (r.rc = "OK" => DoDelete(img, s).rc = "OK")
<1> DEFINE d == DoDelete(img, s)
           v == Then(d, Validated)
           r == Delete(img, s)
<1>1. d = Answer(d.rc, d.image)
  BY DeleteIsAnswer
<1>2. r = Mapped(v, LAMBDA rc : "SECTION_DELETE")
  BY DEF Delete
<1> HIDE DEF d
<1>3. v = IF d.rc = "OK" THEN Validated(d.image) ELSE d
  BY Zenon DEF Then
<1>4. (\E rc : v = Answer(rc, d.image)) /\ (v.rc = "OK" => d.rc = "OK")
  <2> HIDE DEF v
  <2>1. CASE d.rc = "OK"
    BY <1>3, <2>1 DEF Validated
  <2>2. CASE d.rc # "OK"
    <3>1. v = d
      BY <1>3, <2>2
    <3> QED BY <1>1, <2>2, <3>1
  <2> QED BY <2>1, <2>2
<1> HIDE DEF v
<1>5. r = IF v.rc = "OK" THEN v ELSE [v EXCEPT !.rc = "SECTION_DELETE"]
  BY <1>2, Zenon DEF Mapped
<1>6. PICK rc : v = Answer(rc, d.image)
  BY <1>4
<1>7. [v EXCEPT !.rc = "SECTION_DELETE"] = Answer("SECTION_DELETE", d.image)
  <2> DEFINE i == d.image
  <2>1. v = Answer(rc, i)
    BY <1>6
  <2> HIDE DEF i
  <2>2. [v EXCEPT !.rc = "SECTION_DELETE"] = Answer("SECTION_DELETE", i)
    BY <2>1, RecodedAnswer
  <2> QED BY <2>2 DEF i
<1>8. \E code : r = Answer(code, d.image)
  BY <1>5, <1>6, <1>7
<1>9. r.rc = "OK" => d.rc = "OK"
  <2>1. Answer("SECTION_DELETE", d.image).rc # "OK"
    BY DEF Answer
  <2> HIDE DEF r
  <2> QED BY <1>4, <1>5, <1>7, <2>1
<1> QED BY <1>8, <1>9 DEF d, r

LEMMA DeleteKeepsBare ==
  ASSUME NEW img, Bare(img), NEW s \in Sections \ Home
  PROVE  BareIfOK(Delete(img, s))
<1> DEFINE d == DoDelete(img, s)
           r == Delete(img, s)
<1>1. (\E rc : r = Answer(rc, d.image)) /\ (r.rc = "OK" => d.rc = "OK")
  BY DeleteIs
<1>2. ASSUME d.rc = "OK" PROVE Bare(d.image)
  <2>1. Sound(img) /\ Shaped(img)
    BY DEF Bare, Sound
  <2>2. CASE s # RINGS
    <3>1. s \in Sections \ (Home \cup {RINGS})
      BY <2>2
    <3>2. Carried(img, d.image, {})
      BY <2>1, <3>1, OtherTaken
    <3> HIDE DEF d
    <3> QED BY <3>2, CarriedBare
  <2>3. CASE s = RINGS
    <3>1. /\ Shaped(d.image) /\ d.image.mem = img.mem /\ RINGS \notin Present(d.image)
          /\ \A t \in Sections \ {RINGS} : d.image.section[t] = img.section[t]
      BY <1>2, <2>1, <2>3, DeleteOutcome
    <3> DEFINE i == d.image
    <3>2. /\ Shaped(i) /\ i.mem = img.mem /\ RINGS \notin Present(i)
          /\ \A t \in Sections \ {RINGS} : i.section[t] = img.section[t]
      BY <3>1
    <3> HIDE DEF i
    <3>3. Sound(i) /\ \A slot \in RingSlots : SlotCell(i, slot) = SlotCell(img, slot)
      BY <2>1, <3>2, NoRingsSound
    <3>4. Bare(i)
      BY <3>3, SameCellsBare
    <3> QED BY <3>4 DEF i
  <2> QED BY <2>2, <2>3
<1> HIDE DEF d, r
<1>3. \A rc, i : r = Answer(rc, i) => r = Answer(r.rc, r.image) /\ r.image = i
  BY AnswerFields
<1>4. BareIfOK(r)
  BY <1>1, <1>2, <1>3 DEF BareIfOK
<1> QED BY <1>4 DEF r

(* Sections are deleted one after the other.                               *)
AfterDelete(r, s) == Then(r, LAMBDA i : Delete(i, s))
DeletesOf(f, n, img, sections) ==
    f = [k \in 0 .. n |-> IF k = 0 THEN Answer("OK", img) ELSE AfterDelete(f[k - 1], sections[k])]

LEMMA AfterDeleteBare ==
  ASSUME NEW r, BareIfOK(r), NEW s \in Sections \ Home
  PROVE  BareIfOK(AfterDelete(r, s))
<1>1. AfterDelete(r, s) = IF r.rc = "OK" THEN Delete(r.image, s) ELSE r
  BY Zenon DEF AfterDelete, Then
<1>2. r.rc = "OK" => BareIfOK(Delete(r.image, s))
  BY DeleteKeepsBare DEF BareIfOK
<1> QED BY <1>1, <1>2

LEMMA DeletesExist ==
  ASSUME NEW img, NEW sections, NEW N \in Nat
  PROVE  \E f : DeletesOf(f, N, img, sections)
<1> DEFINE T == {n \in 0 .. N : ~ \E f : DeletesOf(f, n, img, sections)}
<1> SUFFICES ASSUME T # {} PROVE FALSE
  OBVIOUS
<1>1. PICK last \in T : \A x \in T : last <= x
  <2>1. T \subseteq Nat
    OBVIOUS
  <2> HIDE DEF T
  <2> QED BY <2>1, LeastNatural
<1>2. last # 0
  <2> DEFINE g == [k \in 0 .. 0 |-> Answer("OK", img)]
  <2>1. g = [k \in 0 .. 0 |-> IF k = 0 THEN Answer("OK", img) ELSE AfterDelete(g[k - 1], sections[k])]
    OBVIOUS
  <2> HIDE DEF g
  <2>2. DeletesOf(g, 0, img, sections)
    BY <2>1 DEF DeletesOf
  <2> QED BY <1>1, <2>2
<1>3. last \in Nat \ {0} /\ last - 1 \in 0 .. N /\ ~ (last <= last - 1)
  BY <1>1, <1>2
<1>4. last - 1 \notin T
  <2> HIDE DEF T
  <2> QED BY <1>1, <1>3
<1>5. PICK g : DeletesOf(g, last - 1, img, sections)
  BY <1>3, <1>4
<1> DEFINE h == [k \in 0 .. last |-> IF k = 0 THEN Answer("OK", img) ELSE AfterDelete(g[k - 1], sections[k])]
<1>6. \A j \in 0 .. last - 1 : h[j] = g[j]
  <2>1. g = [k \in 0 .. last - 1 |-> IF k = 0 THEN Answer("OK", img) ELSE AfterDelete(g[k - 1], sections[k])]
    BY <1>5 DEF DeletesOf
  <2>2. \A j \in 0 .. last - 1 : g[j] = IF j = 0 THEN Answer("OK", img) ELSE AfterDelete(g[j - 1], sections[j])
    BY <2>1
  <2>3. \A j \in 0 .. last - 1 : j \in 0 .. last
    BY <1>3
  <2> QED BY <2>2, <2>3
<1>7. \A k \in 0 .. last : k # 0 => k - 1 \in 0 .. last - 1
  BY <1>3
<1>8. h = [k \in 0 .. last |-> IF k = 0 THEN Answer("OK", img) ELSE AfterDelete(h[k - 1], sections[k])]
  <2>1. \A k \in 0 .. last : (IF k = 0 THEN Answer("OK", img) ELSE AfterDelete(g[k - 1], sections[k]))
                           = (IF k = 0 THEN Answer("OK", img) ELSE AfterDelete(h[k - 1], sections[k]))
    <3> HIDE DEF h
    <3> QED BY <1>6, <1>7
  <2> QED BY <2>1
<1> HIDE DEF h
<1>9. DeletesOf(h, last, img, sections)
  BY <1>8 DEF DeletesOf
<1> QED BY <1>1, <1>9

LEMMA DeletesBare ==
  ASSUME NEW img, Bare(img), NEW sections, NEW N \in Nat, \A k \in 1 .. N : sections[k] \in Sections \ Home,
         NEW f, DeletesOf(f, N, img, sections)
  PROVE  \A k \in 0 .. N : BareIfOK(f[k])
<1> DEFINE T == {n \in 0 .. N : ~ BareIfOK(f[n])}
<1> SUFFICES ASSUME T # {} PROVE FALSE
  OBVIOUS
<1>1. PICK last \in T : \A x \in T : last <= x
  <2>1. T \subseteq Nat
    OBVIOUS
  <2> HIDE DEF T
  <2> QED BY <2>1, LeastNatural
<1>2. \A k \in 0 .. N : f[k] = IF k = 0 THEN Answer("OK", img) ELSE AfterDelete(f[k - 1], sections[k])
  <2>1. f = [k \in 0 .. N |-> IF k = 0 THEN Answer("OK", img) ELSE AfterDelete(f[k - 1], sections[k])]
    BY DEF DeletesOf
  <2> QED BY <2>1
<1>3. last # 0
  <2>1. BareIfOK(Answer("OK", img))
    BY AnswerFields DEF BareIfOK
  <2>2. 0 \in 0 .. N
    OBVIOUS
  <2> QED BY <1>1, <1>2, <2>1, <2>2
<1>4. last \in 1 .. N /\ last - 1 \in 0 .. N /\ ~ (last <= last - 1)
  BY <1>1, <1>3
<1>5. BareIfOK(f[last - 1])
  <2>1. last - 1 \notin T
    <3> HIDE DEF T
    <3> QED BY <1>1, <1>4
  <2> QED BY <1>4, <2>1
<1>6. BareIfOK(f[last])
  BY <1>2, <1>3, <1>4, <1>5, AfterDeleteBare
<1> QED BY <1>1, <1>6

LEMMA DeletedBare ==
  ASSUME NEW img, Bare(img)
  PROVE  BareIfOK(Deleted(img, Unnecessary))
<1> DEFINE N == Len(Unnecessary)
           f == CHOOSE g : g = [k \in 0 .. N |->
                    IF k = 0 THEN Answer("OK", img) ELSE Then(g[k - 1], LAMBDA i : Delete(i, Unnecessary[k]))]
<1>1. N = 8 /\ DOMAIN Unnecessary = 1 .. N
  BY DEF Unnecessary
<1>2. \A k \in 1 .. N : Unnecessary[k] \in Sections \ Home
  <2>1. \A k \in 1 .. N : Unnecessary[k] \in Dropped
    BY <1>1 DEF Dropped
  <2>2. Dropped \subseteq Sections
    BY BuildAssumption DEF Dropped
  <2> QED BY <2>1, <2>2 DEF Home
<1>3. Deleted(img, Unnecessary) = f[N]
  BY DEF Deleted
<1>4. DeletesOf(f, N, img, Unnecessary)
  <2>1. PICK g : DeletesOf(g, N, img, Unnecessary)
    <3>1. N \in Nat
      BY <1>1
    <3> HIDE DEF N
    <3> QED BY <3>1, DeletesExist
  <2>2. f = CHOOSE h : DeletesOf(h, N, img, Unnecessary)
    BY DEF DeletesOf, AfterDelete
  <2> HIDE DEF f, N
  <2> QED BY <2>1, <2>2
<1> HIDE DEF f
<1>5. N \in Nat /\ N \in 0 .. N
  BY <1>1
<1> HIDE DEF N
<1>6. BareIfOK(f[N])
  BY <1>2, <1>4, <1>5, DeletesBare
<1> QED BY <1>3, <1>6

(* The pointers of the slots that are not of the VPD: the last ring wins.  *)
Winner(m, slot) == Toward(m, MatchesIn(m.from, RINGS, m.dd, m.phase), slot)
RingsWin(m, img) == \A slot \in PlainSlots :
    IF Winner(m, slot) = {} THEN Pointer(img, slot) = 0
    ELSE PointsTo(img, slot, DataFor(m, LastOf(Winner(m, slot))))

LEMMA WinsCarried ==
  ASSUME NEW m, NEW img, RingsWin(m, img), NEW r, KeepsBlocks(img, r),
         \A slot \in PlainSlots : SlotCell(r, slot) = SlotCell(img, slot)
  PROVE  RingsWin(m, r)
<1> SUFFICES ASSUME NEW slot \in PlainSlots
             PROVE  IF Winner(m, slot) = {} THEN Pointer(r, slot) = 0
                    ELSE PointsTo(r, slot, DataFor(m, LastOf(Winner(m, slot))))
  BY DEF RingsWin
<1>1. /\ Pointer(r, slot) = Pointer(img, slot)
      /\ \A data : PointsTo(img, slot, data) => PointsTo(r, slot, data)
  BY LeadsAgain
<1>2. IF Winner(m, slot) = {} THEN Pointer(img, slot) = 0
      ELSE PointsTo(img, slot, DataFor(m, LastOf(Winner(m, slot))))
  BY DEF RingsWin
<1> QED BY <1>1, <1>2

LEMMA WellFrom ==
  ASSUME NEW img, \A slot \in RingSlots : Leads(img, slot), NEW r, Sound(r), LeadOn(img, r)
  PROVE  Well(r)
BY DEF Well, LeadOn

LEMMA BareIsWell ==
  ASSUME NEW img, Bare(img)
  PROVE  Well(img)
BY ZeroLeads DEF Bare, Well

LEMMA Won ==
  ASSUME NEW m, NEW slots, m.s = RINGS, NEW img, Bare(img), NEW r, Collected(m, slots, img, r), r.rc = "OK"
  PROVE  Well(r.image) /\ RingsWin(m, r.image)
<1>1. Well(img) /\ \A slot \in RingSlots : Pointer(img, slot) = 0
  BY BareIsWell DEF Bare
<1>2. Well(r.image)
  <2>1. Sound(r.image) /\ LeadOn(img, r.image)
    BY DEF Collected, Carried
  <2>2. \A slot \in RingSlots : Leads(img, slot)
    BY <1>1 DEF Well
  <2> QED BY <2>1, <2>2, WellFrom
<1>3. ASSUME NEW slot \in PlainSlots
      PROVE  IF Winner(m, slot) = {} THEN Pointer(r.image, slot) = 0
             ELSE PointsTo(r.image, slot, DataFor(m, LastOf(Winner(m, slot))))
  <2>1. slot \in RingSlots
    BY SlotKinds
  <2>2. SlotTurned(m, MatchesIn(m.from, RINGS, m.dd, m.phase), img, r.image, slot)
    BY <2>1 DEF Collected, SlotsTurned
  <2>3. SlotCell(r.image, slot) = SlotCell(img, slot) => Pointer(r.image, slot) = 0
    BY <1>1, <2>1 DEF Pointer
  <2> QED BY <2>2, <2>3 DEF SlotTurned, Winner
<1> QED BY <1>2, <1>3 DEF RingsWin

LEMMA CopiesSourced ==
  ASSUME NEW from, Readable(from), NEW dd, NEW s \in RingSections
  PROVE  Sourced(CopiesOf(from, dd, 0, s), SlotsTo(s)) /\ CopiesOf(from, dd, 0, s).s = s
<1> DEFINE m == CopiesOf(from, dd, 0, s)
<1>1. m.copy = TRUE /\ m.from = from /\ m.s = s /\ m.max = from.size
  BY DEF CopiesOf
<1>2. Source(from, s) /\ RingsIn(from, s, SlotsTo(s))
  BY ReadableSource
<1>3. SlotsTo(s) \subseteq RingSlots
  BY SlotKinds DEF SlotsTo
<1>4. from.size \in Int /\ from.size <= BufferSize
  BY <1>2, ShapedTypes DEF Source
<1> HIDE DEF m
<1>5. Sourced(m, SlotsTo(s))
  BY <1>1, <1>2, <1>3, <1>4 DEF Sourced
<1> QED BY <1>1, <1>5 DEF m

LEMMA BroughtBack ==
  ASSUME NEW img, Bare(img), NEW from, Shaped(from)
  PROVE  BareIfOK(BringBack(img, from))
<1> DEFINE a == DoAppend(img, PIBMEM0, Contents(from, PIBMEM0), from.size)
           t == Answer(a.rc, a.image)
           r == BringBack(img, from)
<1>1. PIBMEM0 \in Sections \ (Home \cup {RINGS})
  <2>1. PIBMEM0 = Unnecessary[3] /\ 3 \in DOMAIN Unnecessary
    BY DEF Unnecessary
  <2>2. PIBMEM0 \in Dropped
    BY <2>1 DEF Dropped
  <2>3. Dropped \subseteq Sections
    BY BuildAssumption DEF Dropped
  <2> QED BY <2>2, <2>3 DEF Home, RINGS, PIBMEM0
<1>2. Contents(from, PIBMEM0) \in Seq(CellsOf(from))
  BY <1>1, ContentsIs
<1>3. from.size \in Int /\ from.size <= BufferSize
  BY ShapedTypes
<1>4. Carried(img, a.image, {})
  BY <1>1, <1>2, <1>3, OtherAppended DEF Bare
<1>5. Bare(a.image)
  <2> HIDE DEF a
  <2> QED BY <1>4, CarriedBare
<1>6. r = Mapped(t, LAMBDA rc : "APPEND")
  BY DEF BringBack
<1> HIDE DEF a
<1>7. t.rc = a.rc /\ t.image = a.image
  BY AnswerFields
<1>8. [t EXCEPT !.rc = "APPEND"] = Answer("APPEND", a.image)
  <2> DEFINE rc == a.rc
             i == a.image
  <2> HIDE DEF rc, i
  <2>1. [Answer(rc, i) EXCEPT !.rc = "APPEND"] = Answer("APPEND", i)
    BY RecodedAnswer
  <2> QED BY <2>1 DEF rc, i
<1> HIDE DEF r, t
<1>9. r = t \/ r = Answer("APPEND", a.image)
  BY <1>6, <1>8 DEF Mapped
<1>10. BareIfOK(t)
  <2>1. t = Answer(t.rc, t.image)
    BY <1>7 DEF t
  <2> QED BY <1>5, <1>7, <2>1 DEF BareIfOK
<1>11. BareIfOK(Answer("APPEND", a.image))
  BY <1>5, AnswerFields DEF BareIfOK
<1> QED BY <1>9, <1>10, <1>11 DEF r

LEMMA IplBuilt ==
  ASSUME NEW from, Readable(from), Bare(from), NEW dd, IplBuild(from, dd).rc = "OK"
  PROVE  Well(IplBuild(from, dd).image) /\ RingsWin(CopiesOf(from, dd, 0, RINGS), IplBuild(from, dd).image)
<1> DEFINE t0 == Deleted(from, Unnecessary)
           t1 == Then(t0, LAMBDA i : BringBack(i, from))
           t2 == Then(t1, LAMBDA i : Copied(i, from, dd, RINGS))
           r == IplBuild(from, dd)
           m == CopiesOf(from, dd, 0, RINGS)
           m2 == CopiesOf(from, dd, 0, DCRINGS)
<1>1. r = Then(t2, LAMBDA i : Copied(i, from, dd, DCRINGS))
  BY DEF IplBuild
<1>2. BareIfOK(t0)
  BY DeletedBare
<1>3. t1 = IF t0.rc = "OK" THEN BringBack(t0.image, from) ELSE t0
  <2> HIDE DEF t0
  <2> QED BY Zenon DEF Then
<1>4. t2 = IF t1.rc = "OK" THEN Copied(t1.image, from, dd, RINGS) ELSE t1
  <2> HIDE DEF t1
  <2> QED BY Zenon DEF Then
<1> HIDE DEF t0, t1, t2
<1>5. r = IF t2.rc = "OK" THEN Copied(t2.image, from, dd, DCRINGS) ELSE t2
  BY <1>1, Zenon DEF Then
<1>6. r.rc = "OK"
  OBVIOUS
<1> HIDE DEF r
<1>7. r = Copied(t2.image, from, dd, DCRINGS) /\ t2.rc = "OK"
  BY <1>5, <1>6
<1>8. t2 = Copied(t1.image, from, dd, RINGS) /\ t1.rc = "OK"
  BY <1>4, <1>7
<1>9. t1 = BringBack(t0.image, from) /\ t0.rc = "OK"
  BY <1>3, <1>8
<1>10. Bare(t1.image)
  <2>1. Bare(t0.image)
    BY <1>2, <1>9 DEF BareIfOK
  <2>2. Shaped(from)
    BY DEF Bare, Sound
  <2> QED BY <1>8, <1>9, <2>1, <2>2, BroughtBack DEF BareIfOK
<1>11. RINGS \in RingSections /\ DCRINGS \in RingSections /\ SlotsTo(DCRINGS) = VpdSlots
  BY DEF RingSections, SlotsTo, RINGS, DCRINGS
<1>12. Well(t2.image) /\ RingsWin(m, t2.image)
  <2>1. Sourced(m, SlotsTo(RINGS)) /\ m.s = RINGS
    BY <1>11, CopiesSourced
  <2>2. Collected(m, SlotsTo(RINGS), t1.image, t2)
    <3>1. Sound(t1.image)
      BY <1>10 DEF Bare
    <3> QED BY <1>8, <2>1, <3>1, CopiesCollect DEF Copied
  <2> HIDE DEF m
  <2> QED BY <1>7, <1>10, <2>1, <2>2, Won
<1>13. Collected(m2, VpdSlots, t2.image, r)
  <2>1. Sourced(m2, VpdSlots)
    BY <1>11, CopiesSourced
  <2>2. Sound(t2.image)
    BY <1>12 DEF Well
  <2> QED BY <1>7, <2>1, <2>2, CopiesCollect DEF Copied
<1>14. Carried(t2.image, r.image, VpdSlots) /\ LeadOn(t2.image, r.image)
  BY <1>13 DEF Collected
<1> HIDE DEF m, m2
<1>15. Well(r.image)
  BY <1>12, <1>14, WellFrom DEF Well, Carried
<1>16. RingsWin(m, r.image)
  <2>1. \A slot \in PlainSlots : SlotCell(r.image, slot) = SlotCell(t2.image, slot)
    BY <1>14, SlotKinds DEF Carried
  <2>2. KeepsBlocks(t2.image, r.image)
    BY <1>14 DEF Carried
  <2> QED BY <1>12, <2>1, <2>2, WinsCarried
<1> QED BY <1>15, <1>16 DEF r, m

LEMMA SlwBuilt ==
  ASSUME NEW from, Readable(from), Bare(from), NEW dd, SlwBuild(from, dd).rc = "OK"
  PROVE  /\ Well(SlwBuild(from, dd).image)
         /\ RingsWin(ProgramsOf(from, dd, 1, FixedSize), SlwBuild(from, dd).image)
<1> DEFINE t0 == Delete(from, DCRINGS)
           t1 == Then(t0, LAMBDA i : Delete(i, RINGS))
           r == SlwBuild(from, dd)
           m == ProgramsOf(from, dd, 1, FixedSize)
<1>1. r = Then(t1, LAMBDA i : Programs(i, from, dd, 1, FixedSize))
  BY DEF SlwBuild
<1>2. RINGS \in Sections \ Home /\ DCRINGS \in Sections \ Home
  <2>1. DCRINGS = Unnecessary[1] /\ RINGS = Unnecessary[2] /\ {1, 2} \subseteq DOMAIN Unnecessary
    BY DEF Unnecessary
  <2>2. DCRINGS \in Dropped /\ RINGS \in Dropped
    BY <2>1 DEF Dropped
  <2> QED BY <2>2, RingAssumption DEF Home
<1>3. BareIfOK(t0)
  BY <1>2, DeleteKeepsBare
<1>4. t1 = IF t0.rc = "OK" THEN Delete(t0.image, RINGS) ELSE t0
  <2> HIDE DEF t0
  <2> QED BY Zenon DEF Then
<1> HIDE DEF t0, t1
<1>5. r = IF t1.rc = "OK" THEN Programs(t1.image, from, dd, 1, FixedSize) ELSE t1
  BY <1>1, Zenon DEF Then
<1>6. r.rc = "OK"
  OBVIOUS
<1> HIDE DEF r
<1>7. r = Programs(t1.image, from, dd, 1, FixedSize) /\ t1.rc = "OK"
  BY <1>5, <1>6
<1>8. t1 = Delete(t0.image, RINGS) /\ t0.rc = "OK"
  BY <1>4, <1>7
<1>9. Bare(t1.image)
  <2>1. Bare(t0.image)
    BY <1>3, <1>8 DEF BareIfOK
  <2> QED BY <1>2, <1>7, <1>8, <2>1, DeleteKeepsBare DEF BareIfOK
<1>10. m.copy = FALSE /\ m.from = from /\ m.s = RINGS /\ m.max = FixedSize
  BY DEF ProgramsOf
<1>11. Sourced(m, PlainSlots)
  <2>1. Source(from, RINGS) /\ RingsIn(from, RINGS, SlotsTo(RINGS)) /\ SlotsTo(RINGS) = PlainSlots
    BY ReadableSource DEF RingSections, SlotsTo
  <2>2. PlainSlots \subseteq RingSlots
    BY SlotKinds
  <2>3. FixedSize \in Int /\ FixedSize <= BufferSize
    BY SlwAssumption
  <2> HIDE DEF m
  <2> QED BY <1>10, <2>1, <2>2, <2>3 DEF Sourced
<1>12. Collected(m, PlainSlots, t1.image, r)
  <2>1. Sound(t1.image)
    BY <1>9 DEF Bare
  <2> QED BY <1>7, <1>11, <2>1, ProgramsCollect
<1> HIDE DEF m
<1>13. Well(r.image) /\ RingsWin(m, r.image)
  BY <1>6, <1>9, <1>10, <1>12, Won
<1> QED BY <1>13 DEF r, m

(* The slots of a file that only rings have been added to are as they were *)
(* in the reference image: zero, and in sections that no build takes off.  *)
LEMMA FileBare ==
  ASSUME NEW from, Readable(from), NEW base \in Images, LeftAlone(base, from)
  PROVE  Bare(from)
<1>1. LaidOut(from) /\ KeptFrom(base, from) /\ SlotsStay(base, from)
  BY DEF Readable, Ready, LeftAlone
<1>2. Shaped(from)
  BY <1>1, LaidOutIsShaped
<1>3. Tiled(Contents(from, RINGS))
  <2>1. Source(from, RINGS)
    BY ReadableSource DEF RingSections
  <2> QED BY <2>1 DEF Source
<1>4. ASSUME NEW slot \in RingSlots
      PROVE  AtHome(from, slot) /\ Pointer(from, slot) = 0
  <2>1. PICK name \in RingName : \E idx \in 0 .. Elements(name) - 1 : slot = SlotOf[name] + idx
    BY SlotOfRing
  <2>2. PICK idx \in 0 .. Elements(name) - 1 : slot = SlotOf[name] + idx
    BY <2>1
  <2>3. PICK t \in Present(base) : t \notin Dropped /\ InSection(base, t, Cell(slot))
    BY <2>2, BuildAssumption DEF Dropped
  <2>4. t \notin {SLW, FIT, FFDC}
    BY <2>3, BuildAssumption
  <2>5. t \notin RingSections
    <3>1. DCRINGS = Unnecessary[1] /\ RINGS = Unnecessary[2] /\ {1, 2} \subseteq DOMAIN Unnecessary
      BY DEF Unnecessary
    <3>2. DCRINGS \in Dropped /\ RINGS \in Dropped
      BY <3>1 DEF Dropped
    <3> QED BY <2>3, <3>2 DEF RingSections
  <2>6. t \in Sections /\ base.section[t].size # 0
    BY <2>3 DEF Present
  <2>7. from.section[t] = base.section[t]
    BY <1>1, <2>5, <2>6 DEF KeptFrom
  <2>8. t \in Present(from) /\ InSection(from, t, Cell(slot))
    BY <2>3, <2>6, <2>7 DEF Present, InSection
  <2>9. AtHome(from, slot)
    BY <2>3, <2>4, <2>6, <2>8 DEF AtHome, Home
  <2>10. Pointer(base, slot) = 0
    BY <2>2, ScanAssumption DEF Unlinked
  <2>11. SlotCell(from, slot) \in {SlotCell(base, slot), Word(0)}
    <3>1. IsSlot(Cell(slot))
      BY SlotOfRing
    <3> QED BY <1>1, <3>1 DEF SlotsStay, SlotCell, Cell
  <2>12. Pointer(from, slot) = 0
    BY <2>10, <2>11 DEF Pointer, Word
  <2> QED BY <2>9, <2>12
<1> QED BY <1>2, <1>3, <1>4 DEF Bare, Sound

-----------------------------------------------------------------------------
(***************************************************************************)
(* The tables' calls write the tables and their pointers only, which are   *)
(* neither slots of rings nor in .rings.                                   *)
(***************************************************************************)
PointersHome(img) == \A p \in Pointers : \E t \in Present(img) \ {RINGS} : InSection(img, t, Cell(p))
TableCell(img, a) == InSection(img, SLW, a) \/ \E p \in Pointers : a = Cell(p)
TablesOnly(img, r) == \E mem :
    /\ MemoryOf(mem) /\ r = [img EXCEPT !.mem = mem]
    /\ \A a \in 0 .. BufferSize - 1 : ~ TableCell(img, a) => mem[a] = img.mem[a]

(* A pointer for the programs is not a slot of a ring.                     *)
LEMMA PointerNotSlot ==
  ASSUME NEW p \in Pointers, NEW slot \in RingSlots
  PROVE  Cell(p) # Cell(slot)
<1>1. slot \notin Pointers
  <2>1. \E name \in RingName : \E idx \in 0 .. Elements(name) - 1 : slot = SlotOf[name] + idx
    BY SlotOfRing
  <2> QED BY <2>1, BuildAssumption DEF Pointers
<1>2. p \in Nat /\ slot \in Nat
  BY PointerTypes, SlotOfRing
<1>3. p # slot
  BY <1>1
<1> QED BY <1>2, <1>3, XipAssumption DEF Cell

LEMMA TableCellsApart ==
  ASSUME NEW img, Sound(img), SLW \in Present(img), PointersHome(img), NEW a, TableCell(img, a)
  PROVE  ~ InSection(img, RINGS, a) /\ \A slot \in RingSlots : a # Cell(slot)
<1>1. Shaped(img) /\ SLW # RINGS /\ SLW \notin Home
  BY DEF Sound, SLW, RINGS, Home
<1>2. ~ InSection(img, RINGS, a)
  <2>1. ASSUME RINGS \in Present(img), InSection(img, SLW, a) PROVE ~ InSection(img, RINGS, a)
    BY <1>1, <2>1, SectionsApart
  <2>2. ASSUME RINGS \in Present(img), NEW p \in Pointers, a = Cell(p) PROVE ~ InSection(img, RINGS, a)
    <3>1. PICK t \in Present(img) \ {RINGS} : InSection(img, t, a)
      BY <2>2 DEF PointersHome
    <3> QED BY <1>1, <2>2, <3>1, SectionsApart
  <2>3. ASSUME RINGS \notin Present(img) PROVE ~ InSection(img, RINGS, a)
    <3> DEFINE o == img.section[RINGS].offset
    <3>1. RINGS \in Sections
      BY RingAssumption
    <3>2. o \in Nat /\ End(img.section[RINGS]) = o
      BY <1>1, <2>3, <3>1, ShapedTypes
    <3> HIDE DEF o
    <3>3. \A x : x \notin o .. o - 1
      BY <3>2
    <3> QED BY <3>2, <3>3 DEF InSection, o
  <2> QED BY <2>1, <2>2, <2>3 DEF TableCell
<1>3. ASSUME NEW slot \in RingSlots PROVE a # Cell(slot)
  <2>1. PICK t \in Present(img) \cap Home : InSection(img, t, Cell(slot))
    BY SlotPlace
  <2>2. ~ InSection(img, SLW, Cell(slot))
    BY <1>1, <2>1, SectionsApart
  <2> QED BY <2>2, PointerNotSlot DEF TableCell
<1> QED BY <1>2, <1>3

(* What the invariant of an image with tables says of its rings.           *)
RingsHeld(m, img) == Well(img) /\ RingsWin(m, img)
TabledRings(m, img) == RingsHeld(m, img) /\ SLW \in Present(img) /\ PointersHome(img)

LEMMA HeldCarried ==
  ASSUME NEW m, NEW img, RingsHeld(m, img), NEW r, Carried(img, r, {})
  PROVE  RingsHeld(m, r)
<1>1. Well(r)
  <2>1. \A slot \in RingSlots : Leads(img, slot) => Leads(r, slot)
    BY LeadsAgain DEF Carried
  <2> QED BY <2>1 DEF RingsHeld, Well, Carried
<1>2. \A slot \in PlainSlots : SlotCell(r, slot) = SlotCell(img, slot)
  BY SlotKinds DEF Carried
<1>3. RingsWin(m, r)
  BY <1>2, WinsCarried DEF RingsHeld, Carried
<1> QED BY <1>1, <1>3 DEF RingsHeld

LEMMA TablesKeepRings ==
  ASSUME NEW m, NEW img, TabledRings(m, img), NEW r, TablesOnly(img, r)
  PROVE  TabledRings(m, r)
<1>1. PICK mem : /\ MemoryOf(mem) /\ r = [img EXCEPT !.mem = mem]
                 /\ \A a \in 0 .. BufferSize - 1 : ~ TableCell(img, a) => mem[a] = img.mem[a]
  BY DEF TablesOnly
<1>2. Sound(img) /\ Shaped(img) /\ SLW \in Present(img) /\ PointersHome(img) /\ RingsHeld(m, img)
  BY DEF TabledRings, RingsHeld, Well, Sound
<1>3. Shaped(r) /\ r.mem = mem /\ r.section = img.section /\ Present(r) = Present(img)
  BY <1>1, <1>2, ShapedMemory
<1>4. \A slot \in RingSlots : SlotCell(r, slot) = SlotCell(img, slot)
  <2>1. ASSUME NEW slot \in RingSlots PROVE SlotCell(r, slot) = SlotCell(img, slot)
    <3>1. Cell(slot) \in 0 .. BufferSize - 1
      BY <1>2, SlotPlace
    <3>2. ~ TableCell(img, Cell(slot))
      BY <1>2, TableCellsApart
    <3> QED BY <1>1, <1>3, <3>1, <3>2 DEF SlotCell, Cell
  <2> QED BY <2>1
<1>5. \A a \in 0 .. BufferSize - 1 : InSection(img, RINGS, a) => r.mem[a] = img.mem[a]
  BY <1>1, <1>2, <1>3, TableCellsApart
<1>6. Carried(img, r, {})
  BY <1>2, <1>3, <1>4, <1>5, Stays
<1>7. RingsHeld(m, r)
  BY <1>2, <1>6, HeldCarried
<1>8. PointersHome(r)
  BY <1>2, <1>3 DEF PointersHome, InSection
<1> QED BY <1>2, <1>3, <1>7, <1>8 DEF TabledRings

(* Writing nothing, one cell, or several in a row.                         *)
LEMMA TablesOnlyNothing ==
  ASSUME NEW img, Framed(img)
  PROVE  TablesOnly(img, img)
<1>1. MemoryOf(img.mem) /\ img = [img EXCEPT !.mem = img.mem]
  BY DEF Framed, Fields
<1> QED BY <1>1 DEF TablesOnly

LEMMA TablesOnlyFrame ==
  ASSUME NEW img, Framed(img), NEW r, TablesOnly(img, r)
  PROVE  Framed(r) /\ r.section = img.section /\ r.size = img.size /\ \A a : TableCell(r, a) <=> TableCell(img, a)
<1>1. PICK mem : MemoryOf(mem) /\ r = [img EXCEPT !.mem = mem]
  BY DEF TablesOnly
<1>2. Framed(r) /\ r.section = img.section /\ r.size = img.size
  BY <1>1, FramedMemory
<1> QED BY <1>2 DEF TableCell, InSection

LEMMA TablesOnlyThrough ==
  ASSUME NEW img, Framed(img), NEW r, TablesOnly(img, r), NEW q, TablesOnly(r, q)
  PROVE  TablesOnly(img, q)
<1>1. PICK mem : /\ MemoryOf(mem) /\ r = [img EXCEPT !.mem = mem]
                 /\ \A a \in 0 .. BufferSize - 1 : ~ TableCell(img, a) => mem[a] = img.mem[a]
  BY DEF TablesOnly
<1>2. PICK m2 : /\ MemoryOf(m2) /\ q = [r EXCEPT !.mem = m2]
                /\ \A a \in 0 .. BufferSize - 1 : ~ TableCell(r, a) => m2[a] = r.mem[a]
  BY DEF TablesOnly
<1>3. r.mem = mem
  BY <1>1, FramedMemory
<1>4. \A a : TableCell(r, a) <=> TableCell(img, a)
  BY TablesOnlyFrame
<1>5. q = [img EXCEPT !.mem = m2]
  <2>1. img = Fields(img, img.mem)
    BY DEF Framed
  <2>2. r = Fields(img, mem)
    BY <1>1, <2>1 DEF Fields
  <2> QED BY <1>2, <2>1, <2>2 DEF Fields
<1>6. \A a \in 0 .. BufferSize - 1 : ~ TableCell(img, a) => m2[a] = img.mem[a]
  BY <1>1, <1>2, <1>3, <1>4
<1> QED BY <1>2, <1>5, <1>6 DEF TablesOnly

LEMMA TablesOnlyPut ==
  ASSUME NEW img, Framed(img), NEW a \in 0 .. BufferSize - 1, TableCell(img, a), NEW cell, NEW r, r = Put(img, a, cell)
  PROVE  TablesOnly(img, r)
<1> DEFINE mem == [img.mem EXCEPT ![a] = cell]
<1>1. MemoryOf(img.mem) /\ img = Fields(img, img.mem)
  BY DEF Framed
<1>2. MemoryOf(mem) /\ \A b \in 0 .. BufferSize - 1 : b # a => mem[b] = img.mem[b]
  BY <1>1 DEF MemoryOf
<1>3. r = [img EXCEPT !.mem = mem]
  BY <1>1 DEF Put, Fields
<1> HIDE DEF mem
<1>4. \A b \in 0 .. BufferSize - 1 : ~ TableCell(img, b) => mem[b] = img.mem[b]
  BY <1>2
<1> QED BY <1>2, <1>3, <1>4 DEF TablesOnly

(* The cells of the tables are in .slw, their pointers elsewhere.          *)
LEMMA TableCellPlaces ==
  ASSUME NEW img, SlwPlaced(img)
  PROVE  /\ \A core \in CoreIds, k \in 0 .. RamOps - 1 :
               RamAt(img, core) + k \in 0 .. BufferSize - 1 /\ TableCell(img, RamAt(img, core) + k)
         /\ \A core \in CoreIds, part \in Parts : \A k \in 0 .. ScomOps[part] :
               ScomPlace(img, core, part) + k \in 0 .. BufferSize - 1 /\ TableCell(img, ScomPlace(img, core, part) + k)
         /\ \A p \in Pointers : Cell(p) \in 0 .. BufferSize - 1 /\ TableCell(img, Cell(p))
         /\ \A a \in SlwStart(img) .. SlwStart(img) + TableSize - 1 : TableCell(img, a)
<1> DEFINE o == SlwStart(img)
<1>1. /\ o \in Nat /\ SlwSize \in Nat /\ BufferSize \in Nat /\ o + SlwSize <= BufferSize
      /\ TableSize \in Nat /\ TableSize <= SlwSize /\ PartStart(1) \in Nat /\ PartStart(1) <= TableSize
      /\ img.section[SLW].offset = o /\ img.section[SLW].size = SlwSize
  <2>1. 0 \in CoreIds
    BY SpaceTypes DEF CoreIds
  <2> QED BY <2>1, SlwSizeBounds, PartStarts, TableBounds, XipAssumption DEF SlwPlaced, SlwStart
<1>2. End(img.section[SLW]) = o + SlwSize
  BY <1>1 DEF End
<1>3. \A p \in Pointers : Cell(p) \in 0 .. o - 1
  BY DEF SlwPlaced
<1>4. /\ \A core \in CoreIds, k \in 0 .. RamOps - 1 :
            /\ RamAt(img, core) + k \in 0 .. BufferSize - 1 /\ RamAt(img, core) \in Nat
            /\ o <= RamAt(img, core) /\ RamAt(img, core) + k < o + PartStart(1)
      /\ \A core \in CoreIds, part \in Parts : \A k \in 0 .. ScomOps[part] :
            /\ ScomPlace(img, core, part) + k \in 0 .. BufferSize - 1 /\ ScomPlace(img, core, part) \in Nat
            /\ o + PartStart(1) <= ScomPlace(img, core, part) /\ ScomPlace(img, core, part) + k < o + TableSize
  BY TablePlaces
<1> HIDE DEF o
<1>5. \A a \in o .. o + TableSize - 1 : TableCell(img, a)
  <2>1. \A a \in o .. o + TableSize - 1 : a \in o .. (o + SlwSize) - 1
    BY <1>1
  <2> QED BY <1>1, <1>2, <2>1 DEF TableCell, InSection
<1>6. \A p \in Pointers : Cell(p) \in 0 .. BufferSize - 1 /\ TableCell(img, Cell(p))
  BY <1>1, <1>3 DEF TableCell
<1>7. ASSUME NEW core \in CoreIds, NEW k \in 0 .. RamOps - 1
      PROVE  RamAt(img, core) + k \in 0 .. BufferSize - 1 /\ TableCell(img, RamAt(img, core) + k)
  <2> DEFINE a == RamAt(img, core) + k
             at == RamAt(img, core)
  <2>1. a \in 0 .. BufferSize - 1 /\ at \in Nat /\ o <= at /\ a < o + PartStart(1) /\ a = at + k
    BY <1>4
  <2> HIDE DEF at, a
  <2>2. a \in o .. o + TableSize - 1
    BY <1>1, <2>1
  <2> QED BY <1>5, <2>1, <2>2 DEF a
<1>8. ASSUME NEW core \in CoreIds, NEW part \in Parts, NEW k \in 0 .. ScomOps[part]
      PROVE  ScomPlace(img, core, part) + k \in 0 .. BufferSize - 1 /\ TableCell(img, ScomPlace(img, core, part) + k)
  <2> DEFINE at == ScomPlace(img, core, part)
             a == at + k
  <2>1. a \in 0 .. BufferSize - 1 /\ at \in Nat /\ o + PartStart(1) <= at /\ a < o + TableSize /\ a = at + k
    BY <1>4
  <2>2. k >= 0 /\ k \in Int
    BY SpaceTypes
  <2> HIDE DEF at, a
  <2>3. a \in o .. o + TableSize - 1
    BY <1>1, <2>1, <2>2
  <2> QED BY <1>5, <2>1, <2>3 DEF a, at
<1> QED BY <1>5, <1>6, <1>7, <1>8 DEF o

(* Laying a vector over an image.                                          *)
LEMMA VectorOnly ==
  ASSUME NEW img, Framed(img), NEW vector \in Nat, \A core \in CoreIds : vector + core \in Pointers,
         NEW first \in Nat, NEW space \in Nat,
         NEW m, MemoryOf(m), \A a \in 0 .. BufferSize - 1 : ~ TableCell(img, a) => m[a] = img.mem[a],
         NEW n, n = Laid(m, VectorCells(vector, first, space))
  PROVE  MemoryOf(n) /\ \A a \in 0 .. BufferSize - 1 : ~ TableCell(img, a) => n[a] = img.mem[a]
<1>1. VectorIn(m, n, vector, first, space)
  BY VectorLaid
<1>2. /\ MemoryOf(n)
      /\ \A a \in 0 .. BufferSize - 1 : (\A core \in CoreIds : a # Cell(vector + core)) => n[a] = m[a]
  BY <1>1, Zenon DEF VectorIn
<1>3. \A a : ~ TableCell(img, a) => \A core \in CoreIds : a # Cell(vector + core)
  BY DEF TableCell
<1> QED BY <1>2, <1>3

BeyondTables(img, m) == MemoryOf(m) /\ \A a \in 0 .. BufferSize - 1 : ~ TableCell(img, a) => m[a] = img.mem[a]
LEMMA PartVectorOnly ==
  ASSUME NEW img, Framed(img), NEW p \in Parts, NEW first \in Nat, NEW m, BeyondTables(img, m),
         NEW n, n = Laid(m, VectorCells(ScomVectors[p], first, ScomSpace(p)))
  PROVE  BeyondTables(img, n)
<1>1. /\ ScomVectors[p] \in Nat /\ ScomSpace(p) \in Nat
      /\ \A core \in CoreIds : ScomVectors[p] + core \in Pointers
  BY SlwAssumption, SpaceTypes, PointerTypes DEF Pointers
<1> QED BY <1>1, VectorOnly DEF BeyondTables

LEMMA RamVectorOnly ==
  ASSUME NEW img, SlwPlaced(img)
  PROVE  TablesOnly(img, SetRamVector(img))
<1> DEFINE first == LinkAddress + SlwStart(img)
           mem == Laid(img.mem, VectorCells(RamVector, first, RamSpace))
<1>1. /\ Framed(img) /\ MemoryOf(img.mem) /\ first \in Nat /\ RamVector \in Nat /\ RamSpace \in Nat
      /\ \A core \in CoreIds : RamVector + core \in Pointers
  BY XipAssumption, SpaceTypes, SlwAssumption, PointerTypes DEF SlwPlaced, Framed, Pointers
<1>2. SetRamVector(img) = [img EXCEPT !.mem = mem]
  BY <1>1 DEF SetRamVector, SlwStart, Framed, Fields
<1>3. MemoryOf(mem) /\ \A a \in 0 .. BufferSize - 1 : ~ TableCell(img, a) => mem[a] = img.mem[a]
  <2> HIDE DEF first
  <2>1. mem = Laid(img.mem, VectorCells(RamVector, first, RamSpace))
    OBVIOUS
  <2> HIDE DEF mem
  <2> QED BY <1>1, <2>1, VectorOnly
<1> HIDE DEF mem
<1> QED BY <1>2, <1>3 DEF TablesOnly

LEMMA InitializedOnly ==
  ASSUME NEW img, SlwPlaced(img)
  PROVE  TablesOnly(img, SetVectors(FillTables(img)))
<1> DEFINE start == SlwStart(img)
           mem0 == [a \in DOMAIN img.mem |->
                       IF a \in (start + PartStart(1)) .. (start + TableSize - 1) THEN RNNN ELSE img.mem[a]]
           f == FillTables(img)
           first(p) == LinkAddress + start + PartStart(p)
           m1 == Laid(mem0, VectorCells(ScomVectors[1], first(1), ScomSpace(1)))
           m2 == Laid(m1, VectorCells(ScomVectors[2], first(2), ScomSpace(2)))
           m3 == Laid(m2, VectorCells(ScomVectors[3], first(3), ScomSpace(3)))
           r == SetVectors(f)
<1>1. /\ BufferSize \in Nat /\ DOMAIN img.mem = 0 .. BufferSize - 1 /\ start \in Nat /\ Framed(img)
      /\ LinkAddress \in Nat /\ PartStart(1) \in Nat /\ TableSize \in Nat
  BY TablePlaces, XipAssumption DEF SlwPlaced
<1>2. f = [img EXCEPT !.mem = mem0]
  BY <1>1 DEF FillTables, SlwStart, Framed, Fields
<1>3. MemoryOf(mem0)
  BY <1>1 DEF MemoryOf
<1>4. \A a \in 0 .. BufferSize - 1 : ~ TableCell(img, a) => mem0[a] = img.mem[a]
  <2>1. \A a \in start .. start + TableSize - 1 : TableCell(img, a)
    BY TableCellPlaces
  <2>2. \A a \in (start + PartStart(1)) .. (start + TableSize - 1) : a \in start .. start + TableSize - 1
    BY <1>1
  <2>3. \A a \in 0 .. BufferSize - 1 :
           mem0[a] = IF a \in (start + PartStart(1)) .. (start + TableSize - 1) THEN RNNN ELSE img.mem[a]
    BY <1>1
  <2> HIDE DEF mem0, start
  <2> QED BY <2>1, <2>2, <2>3
<1> HIDE DEF f, mem0
<1>5. Framed(f) /\ f.mem = mem0 /\ f.size = img.size /\ f.section = img.section
  BY <1>1, <1>2, <1>3, FramedMemory
<1>6. r = [img EXCEPT !.mem = m3]
  <2>1. f.section[SLW].offset = start
    BY <1>5 DEF SlwStart
  <2>2. r = [f EXCEPT !.mem = m3]
    BY <1>5, <2>1 DEF SetVectors, Framed, Fields
  <2> HIDE DEF m3, r
  <2>3. img = Fields(img, img.mem)
    BY <1>1 DEF Framed
  <2>4. f = Fields(img, mem0)
    BY <1>2, <2>3 DEF Fields
  <2> QED BY <2>2, <2>3, <2>4 DEF Fields
<1>7. first(1) \in Nat /\ first(2) \in Nat /\ first(3) \in Nat /\ 1 \in Parts /\ 2 \in Parts /\ 3 \in Parts
  <2>1. PartStart(1) \in Nat /\ PartStart(2) \in Nat /\ PartStart(3) \in Nat
    BY PartStarts
  <2> QED BY <1>1, <2>1 DEF Parts
<1> HIDE DEF start, first, r
<1>8. BeyondTables(img, mem0)
  BY <1>3, <1>4 DEF BeyondTables
<1>9. BeyondTables(img, m1)
  BY <1>1, <1>7, <1>8, PartVectorOnly
<1> HIDE DEF m1
<1>10. BeyondTables(img, m2)
  BY <1>1, <1>7, <1>9, PartVectorOnly
<1> HIDE DEF m2
<1>11. BeyondTables(img, m3)
  BY <1>1, <1>7, <1>10, PartVectorOnly
<1> HIDE DEF m3
<1> QED BY <1>6, <1>11 DEF TablesOnly, BeyondTables, r, f

(* p8_pore_gen_cpureg_fixed writes the tables and their pointers only.     *)
LEMMA OldTableOnly ==
  ASSUME NEW img, SlwPlaced(img), NEW core \in CoreIds, NEW entry, NEW g, g = OldTable(img, RamAt(img, core), entry)
  PROVE  TablesOnly(img, g.image)
<1> DEFINE at == RamAt(img, core)
           hit == Replaced(img, at, entry.reg, entry.thread)
           first == CHOOSE j \in hit : \A i \in hit : j <= i
           last == LastEntry(img, at)
           ended == Ended(img, at)
<1>1. /\ hit # {} => g = Answer("OK", Put(img, at + first, EndAs(entry, img.mem[at + first])))
      /\ hit = {} =>
            /\ ended = {} => g = Answer("TABLE_END_NOT_FOUND", img)
            /\ ended # {} =>
                  /\ last + 1 >= RamOps => g = Answer("TABLE_FULL", img)
                  /\ ~ (last + 1 >= RamOps) =>
                        g = Answer("OK", Put(Put(img, at + last, Going(img.mem[at + last])), at + last + 1, Ending(entry)))
  <2>1. g = OldTable(img, at, entry)
    OBVIOUS
  <2> HIDE DEF at
  <2> QED BY <2>1, Zenon DEF OldTable, EndAs, EndSet, Going, Ending
<1>2. /\ Framed(img) /\ TablesOnly(img, img) /\ RamOps \in Nat /\ at \in Nat
      /\ \A k \in 0 .. RamOps - 1 : at + k \in 0 .. BufferSize - 1 /\ TableCell(img, at + k)
  BY TableCellPlaces, TablePlaces, TablesOnlyNothing, SpaceTypes DEF SlwPlaced
<1>3. hit \subseteq 0 .. RamOps - 1 /\ ended \subseteq 0 .. RamOps - 1 /\ hit \subseteq Nat /\ ended \subseteq Nat
  <2>1. hit \subseteq 0 .. RamOps - 1
    BY DEF Replaced
  <2>2. ended \subseteq 0 .. RamOps - 1
    BY DEF Ended
  <2> HIDE DEF hit, ended
  <2> QED BY <2>1, <2>2
<1>4. hit # {} => first \in hit
  <2> HIDE DEF hit
  <2> QED BY <1>3, LeastNatural
<1>5. ended # {} => last \in ended
  <2>1. last = CHOOSE k \in ended : \A j \in ended : k <= j
    BY DEF LastEntry
  <2> HIDE DEF ended, last
  <2> QED BY <1>3, <2>1, LeastNatural
<1> HIDE DEF hit, first, last, ended, at
<1>6. CASE hit # {}
  <2> DEFINE r == Put(img, at + first, EndAs(entry, img.mem[at + first]))
  <2>1. TablesOnly(img, r)
    BY <1>2, <1>3, <1>4, <1>6, TablesOnlyPut
  <2> HIDE DEF r
  <2> QED BY <1>1, <1>6, <2>1, AnswerFields DEF r
<1>7. CASE hit = {} /\ ended # {} /\ ~ (last + 1 >= RamOps)
  <2> DEFINE r == Put(img, at + last, Going(img.mem[at + last]))
             q == Put(r, at + last + 1, Ending(entry))
  <2>1. last \in 0 .. RamOps - 1 /\ last + 1 \in 0 .. RamOps - 1 /\ (at + last) + 1 = at + (last + 1)
    <3>1. last \in 0 .. RamOps - 1 /\ RamOps \in Nat /\ at \in Nat /\ ~ (last + 1 >= RamOps)
      BY <1>2, <1>3, <1>5, <1>7
    <3>2. last + 1 \in 0 .. RamOps - 1
      BY <3>1
    <3> QED BY <3>1, <3>2
  <2>2. TablesOnly(img, r)
    BY <1>2, <2>1, TablesOnlyPut
  <2>3. g = Answer("OK", q)
    BY <1>1, <1>7
  <2> HIDE DEF r
  <2>4. Framed(r) /\ \A a : TableCell(r, a) <=> TableCell(img, a)
    BY <1>2, <2>2, TablesOnlyFrame
  <2>5. TablesOnly(r, q)
    <3>1. at + last + 1 \in 0 .. BufferSize - 1 /\ TableCell(r, at + last + 1)
      BY <1>2, <2>1, <2>4
    <3> QED BY <2>4, <3>1, TablesOnlyPut
  <2> HIDE DEF q
  <2>6. TablesOnly(img, q)
    BY <1>2, <2>2, <2>5, TablesOnlyThrough
  <2> QED BY <2>3, <2>6, AnswerFields
<1>8. CASE hit = {} /\ (ended = {} \/ last + 1 >= RamOps)
  <2>1. g = Answer("TABLE_END_NOT_FOUND", img) \/ g = Answer("TABLE_FULL", img)
    BY <1>1, <1>8
  <2> QED BY <1>2, <2>1, AnswerFields
<1> QED BY <1>6, <1>7, <1>8

LEMMA NewTableOnly ==
  ASSUME NEW img, SlwPlaced(img), NEW core \in CoreIds, NEW entry, NEW mode,
         TableAt(img, mode, core) = RamAt(img, core), NEW g, g = NewTable(img, mode, core, entry)
  PROVE  TablesOnly(img, g.image)
<1> DEFINE at == RamAt(img, core)
           a == RamVector - LinkAddress + core
           v == IF mode = "SRAM" THEN Put(img, a, Word(LinkAddress + at)) ELSE img
           r == Put(v, at, Ending(entry))
<1>1. /\ Framed(img) /\ TablesOnly(img, img) /\ at \in 0 .. BufferSize - 1 /\ TableCell(img, at)
  <2>1. 0 \in 0 .. RamOps - 1
    BY SlwAssumption
  <2>2. RamAt(img, core) \in Nat /\ RamAt(img, core) + 0 \in 0 .. BufferSize - 1 /\ TableCell(img, RamAt(img, core) + 0)
    BY <2>1, TableCellPlaces, TablePlaces
  <2>3. RamAt(img, core) + 0 = at
    BY <2>2
  <2> QED BY <2>2, <2>3, TablesOnlyNothing DEF SlwPlaced
<1>2. a = Cell(RamVector + core) /\ a \in 0 .. BufferSize - 1 /\ TableCell(img, a)
  <2>1. RamVector \in Nat /\ core \in Nat /\ LinkAddress \in Nat /\ RamVector + core \in Pointers
    BY SlwAssumption, PointerTypes, XipAssumption DEF Pointers
  <2>2. a = Cell(RamVector + core)
    BY <2>1 DEF Cell
  <2>3. Cell(RamVector + core) \in 0 .. BufferSize - 1 /\ TableCell(img, Cell(RamVector + core))
    BY <2>1, TableCellPlaces
  <2> QED BY <2>2, <2>3
<1>3. \E rc : g = Answer(rc, r)
  <2>1. g = NewTable(img, mode, core, entry) /\ TableAt(img, mode, core) = at
    OBVIOUS
  <2> HIDE DEF at
  <2> QED BY <2>1, Zenon DEF NewTable, Ending, EndSet
<1> HIDE DEF at, a
<1>4. TablesOnly(img, v)
  <2>1. TablesOnly(img, Put(img, a, Word(LinkAddress + at)))
    BY <1>1, <1>2, TablesOnlyPut
  <2> QED BY <1>1, <2>1
<1> HIDE DEF v
<1>5. Framed(v) /\ TableCell(v, at)
  BY <1>1, <1>4, TablesOnlyFrame
<1>6. TablesOnly(v, r)
  BY <1>1, <1>5, TablesOnlyPut
<1> HIDE DEF r
<1>7. TablesOnly(img, r)
  BY <1>1, <1>4, <1>6, TablesOnlyThrough
<1> QED BY <1>3, <1>7, AnswerFields

LEMMA RamCallOnly ==
  ASSUME NEW img, NEW kind, TablesFound(img, kind), NEW reg, NEW core \in Nat, NEW thread, NEW data, NEW mode,
         NEW g, g = GenCpuReg(img, mode, reg, data, core, thread)
  PROVE  TablesOnly(img, g.image)
<1> DEFINE at == RamAt(img, core)
           entry == Fresh(reg, IF reg \in ThreadRegs THEN thread ELSE 0, data)
<1>1. SlwPlaced(img) /\ TablesOnly(img, img)
  BY TablesOnlyNothing DEF TablesFound, SlwPlaced
<1>2. \/ g = Answer("INVALID_PARM", img) \/ g = Answer("HDRS_NOT_SYNCED", img)
      \/ /\ RamCheck(reg, core, thread) = "OK"
         /\ g = IF IsNew(img, mode, core) THEN NewTable(img, mode, core, entry) ELSE OldTable(img, TableAt(img, mode, core), entry)
  BY Zenon DEF GenCpuReg, Fresh
<1>3. CASE g = Answer("INVALID_PARM", img) \/ g = Answer("HDRS_NOT_SYNCED", img)
  BY <1>1, <1>3, AnswerFields
<1>4. CASE /\ RamCheck(reg, core, thread) = "OK"
           /\ g = IF IsNew(img, mode, core) THEN NewTable(img, mode, core, entry) ELSE OldTable(img, TableAt(img, mode, core), entry)
  <2>1. core \in CoreIds
    <3>1. ~ (core >= Cores)
      BY <1>4 DEF RamCheck
    <3> QED BY <3>1, SpaceTypes DEF CoreIds
  <2>2. TableAt(img, mode, core) = at
    <3>1. CASE mode = "SRAM" /\ ~ IsNew(img, mode, core)
      <4> DEFINE w == IF kind = "sram" /\ img.mem[at] = Zero THEN 0 ELSE LinkAddress + at
      <4>1. VectorWord(img, RamVector, core) # 0
        BY <3>1 DEF IsNew
      <4>2. SlotCell(img, RamVector + core) = Word(w)
        BY <2>1, Zenon DEF TablesFound, RamsLead, SlotCell, Cell
      <4> HIDE DEF w
      <4>3. VectorWord(img, RamVector, core) = w
        BY <4>2 DEF VectorWord, Pointer, Word
      <4>4. VectorWord(img, RamVector, core) = LinkAddress + at
        BY <4>1, <4>3 DEF w
      <4>5. TableAt(img, mode, core) = VectorWord(img, RamVector, core) - LinkAddress
        BY <3>1, Zenon DEF TableAt
      <4>6. at \in Nat /\ LinkAddress \in Nat
        <5>1. 0 \in 0 .. RamOps - 1
          BY SlwAssumption
        <5> QED BY <1>1, <2>1, <5>1, TablePlaces, XipAssumption
      <4> HIDE DEF at
      <4> QED BY <4>4, <4>5, <4>6
    <3>2. CASE ~ (mode = "SRAM" /\ ~ IsNew(img, mode, core))
      <4>1. TableAt(img, mode, core) = img.section[SLW].offset + RamTable(core)
        BY <3>2, Zenon DEF TableAt
      <4> QED BY <4>1 DEF RamAt, SlwStart
    <3> QED BY <3>1, <3>2
  <2> HIDE DEF entry
  <2>3. CASE IsNew(img, mode, core)
    BY <1>1, <1>4, <2>1, <2>2, <2>3, NewTableOnly
  <2>4. CASE ~ IsNew(img, mode, core)
    BY <1>1, <1>4, <2>1, <2>2, <2>4, OldTableOnly
  <2> QED BY <2>3, <2>4
<1> QED BY <1>2, <1>3, <1>4

(* p8_pore_gen_scom_fixed writes the tables only.                          *)
LEMMA InsertOnly ==
  ASSUME NEW img, SlwPlaced(img), NEW core \in CoreIds, NEW part \in Parts, NEW ss, NEW m,
         ScomHolds(TableOf(img, core, part), ss, core, part, m), NEW addr, NEW data, NEW op,
         op \in {"APPEND", "REPLACE", "OR", "AND", "NOOP", "RESET"},
         op = "REPLACE" => EntryMatch(img, ScomPlace(img, core, part), addr) >= 0,
         ~ Overrun(op, EntriesCount(img, ScomPlace(img, core, part)), EntryNOP(img, ScomPlace(img, core, part)), part),
         NEW g, g = Insert(img, ScomPlace(img, core, part), op, LsSti(core, addr, data))
  PROVE  TablesOnly(img, g.image)
<1> DEFINE at == ScomPlace(img, core, part)
           t == TableOf(img, core, part)
           n == ScomOps[part]
           match == EntryMatch(img, at, addr)
           nop == EntryNOP(img, at)
           iis == LsSti(core, addr, data)
           h == Hits(t, m, addr)
<1>1. Framed(img) /\ TablesOnly(img, img)
  BY TablesOnlyNothing DEF SlwPlaced
<1>2. /\ n \in Nat /\ at \in Nat /\ m \in 0 .. n
      /\ \A k \in 0 .. n : at + k \in 0 .. BufferSize - 1 /\ TableCell(img, at + k)
  BY ScomCells, TableCellPlaces DEF ScomHolds
<1>3. /\ EntriesCount(img, at) = m
      /\ (h = {} /\ match = -1) \/ match \in h
      /\ nop = -1 \/ nop \in 0 .. m - 1
  <2>1. Searched(img, at, t, m, addr)
    BY TableSearched
  <2> QED BY <2>1, Zenon DEF Searched
<1>4. match \in Int /\ (match >= 0 => match \in 0 .. n) /\ nop \in Int /\ (nop >= 0 => nop \in 0 .. n)
  <2>1. h \subseteq 0 .. m - 1
    BY DEF Hits
  <2> HIDE DEF h, match, nop, n, t, at
  <2>2. \A k \in 0 .. m - 1 : k \in 0 .. n /\ k \in Int
    BY <1>2
  <2>3. -1 \in Int /\ ~ (-1 >= 0)
    OBVIOUS
  <2> QED BY <1>3, <2>1, <2>2, <2>3
<1>5. InsertionIs(img, at, op, match, nop, m, iis, g)
  <2>1. iis.addr = addr
    BY DEF LsSti
  <2> HIDE DEF iis
  <2>2. g = Insert(img, at, op, iis)
    BY DEF iis
  <2>3. EntryMatch(img, at, iis.addr) = match /\ EntryMatch(img, at, iis.addr) \in Int
    BY <1>4, <2>1
  <2> HIDE DEF at, match, nop
  <2>4. InsertionIs(img, at, op, EntryMatch(img, at, iis.addr), EntryNOP(img, at), EntriesCount(img, at), iis, g)
    BY <1>1, <2>2, <2>3, InsertIs
  <2> QED BY <1>3, <2>3, <2>4 DEF nop
<1>6. ~ Overrun(op, m, nop, part)
  BY <1>3
<1>7. op = "REPLACE" => match >= 0
  OBVIOUS
<1> HIDE DEF at, t, n, match, nop, iis, h
<1>8. ASSUME NEW k \in 0 .. n, NEW cell, NEW rc, g = Answer(rc, Put(img, at + k, cell)) PROVE TablesOnly(img, g.image)
  <2>1. TablesOnly(img, Put(img, at + k, cell))
    BY <1>1, <1>2, TablesOnlyPut
  <2> QED BY <1>8, <2>1, AnswerFields
<1>9. CASE op = "APPEND"
  <2> DEFINE k == IF nop >= 0 THEN nop ELSE m
  <2>1. k \in 0 .. n
    BY <1>2, <1>4
  <2>2. g = Answer("OK", Put(img, at + k, iis))
    BY <1>5, <1>9, Zenon DEF InsertionIs
  <2> HIDE DEF k
  <2> QED BY <1>8, <2>1, <2>2
<1>10. CASE op = "RESET"
  <2> DEFINE mem == Gone(img.mem, at, m)
  <2>1. g = Answer("OK", Remembered(img, mem))
    BY <1>5, <1>10, Zenon DEF InsertionIs
  <2>2. MemoryOf(img.mem) /\ DOMAIN img.mem = 0 .. BufferSize - 1
    BY <1>1 DEF Framed, MemoryOf
  <2>3. MemoryOf(mem) /\ \A a \in 0 .. BufferSize - 1 : mem[a] = IF a \in at .. at + m - 1 THEN RNNN ELSE img.mem[a]
    BY <2>2 DEF Gone, MemoryOf
  <2>4. \A a \in at .. at + m - 1 : TableCell(img, a)
    <3>1. ASSUME NEW a \in at .. at + m - 1 PROVE TableCell(img, a)
      <4>1. a - at \in 0 .. n /\ at + (a - at) = a
        BY <1>2
      <4> QED BY <1>2, <4>1
    <3> QED BY <3>1
  <2> HIDE DEF mem
  <2>5. TablesOnly(img, Remembered(img, mem))
    BY <2>3, <2>4 DEF TablesOnly, Remembered
  <2> QED BY <2>1, <2>5, AnswerFields
<1>11. CASE op \in {"REPLACE", "NOOP", "OR", "AND"} /\ match >= 0
  <2>1. \E cell : g = Answer("OK", Put(img, at + match, cell))
    BY <1>5, <1>11, Zenon DEF InsertionIs, OverWith
  <2> QED BY <1>4, <1>8, <1>11, <2>1
<1>12. CASE op \in {"NOOP", "OR", "AND"} /\ match < 0
  <2>1. g = Answer("SCOM_ENTRY_NOT_FOUND", img)
    BY <1>5, <1>12, Zenon DEF InsertionIs
  <2> QED BY <1>1, <2>1, AnswerFields
<1>13. match < 0 \/ match >= 0
  BY <1>4
<1> QED BY <1>7, <1>9, <1>10, <1>11, <1>12, <1>13

LEMMA ScomCallOnly ==
  ASSUME NEW img, NEW kind, TablesFound(img, kind), NEW ss, ScomsHold(img, ss), NEW addr, NEW core \in Nat, NEW part,
         NEW data, NEW operation \in Operations, NEW mode, NEW g, g = GenScom(img, mode, addr, core, data, operation, part)
  PROVE  TablesOnly(img, g.image)
<1> DEFINE at == ScomAt(img, mode, core, part)
           match == EntryMatch(img, at, addr)
           op == Translated(operation, match)
           over == Overrun(op, EntriesCount(img, at), EntryNOP(img, at), part)
           g2 == Insert(img, at, op, LsSti(core, addr, data))
<1>1. SlwPlaced(img) /\ TablesOnly(img, img)
  BY TablesOnlyNothing DEF TablesFound, SlwPlaced
<1>2. \/ g = Answer("INVALID_PARM", img) \/ g = Answer("HDRS_NOT_SYNCED", img)
      \/ g = Answer("INVALID_SUBSECTION", img) \/ g = Answer("CHECK_CODE", img)
      \/ ~ (core >= Cores) /\ part \in Parts /\ ~ over /\ g = g2
  BY Zenon DEF GenScom
<1>3. CASE \/ g = Answer("INVALID_PARM", img) \/ g = Answer("HDRS_NOT_SYNCED", img)
           \/ g = Answer("INVALID_SUBSECTION", img) \/ g = Answer("CHECK_CODE", img)
  <2> HIDE DEF g2, over
  <2> QED BY <1>1, <1>3, AnswerFields
<1>4. CASE ~ (core >= Cores) /\ part \in Parts /\ ~ over /\ g = g2
  <2>1. core \in CoreIds /\ part \in Parts
    BY <1>4, SpaceTypes DEF CoreIds
  <2>2. at = ScomPlace(img, core, part)
    BY <2>1, ScomFound
  <2>3. PICK m : ScomHolds(TableOf(img, core, part), ss, core, part, m)
    BY <2>1 DEF ScomsHold
  <2>4. match \in Int
    <3>1. Searched(img, at, TableOf(img, core, part), m, addr)
      BY <1>1, <2>1, <2>2, <2>3, TableSearched
    <3> HIDE DEF at
    <3>2. match = -1 \/ match \in Hits(TableOf(img, core, part), m, addr)
      BY <3>1 DEF Searched
    <3>3. \A k \in Hits(TableOf(img, core, part), m, addr) : k \in 0 .. m - 1
      BY DEF Hits
    <3> HIDE DEF match
    <3> QED BY <3>2, <3>3
  <2> HIDE DEF match
  <2>5. /\ op = "REPLACE" => match >= 0
        /\ op \in {"APPEND", "REPLACE", "OR", "AND", "NOOP", "RESET"}
    BY <2>4, OperationIs
  <2> HIDE DEF op
  <2>6. /\ op = "REPLACE" => EntryMatch(img, ScomPlace(img, core, part), addr) >= 0
        /\ ~ Overrun(op, EntriesCount(img, ScomPlace(img, core, part)), EntryNOP(img, ScomPlace(img, core, part)), part)
        /\ g = Insert(img, ScomPlace(img, core, part), op, LsSti(core, addr, data))
    BY <1>4, <2>2, <2>5 DEF match
  <2> QED BY <1>1, <2>1, <2>3, <2>5, <2>6, InsertOnly
<1> QED BY <1>2, <1>3, <1>4

(* Making the tables' sections keeps the rings.                            *)
LEMMA SpaceCarries ==
  ASSUME NEW img, Sound(img), NEW s \in {SLW, FIT, FFDC}, s \notin Present(img), NEW size, NEW r, SpaceAdded(img, s, size, r)
  PROVE  Carried(img, r, {})
<1>1. Shaped(img) /\ Shaped(r)
  BY DEF Sound, SpaceAdded
<1>2. s \notin Home \cup {RINGS}
  BY DEF Home, RINGS, SLW, FIT, FFDC
<1>3. Home \cup {RINGS} \subseteq Sections
  BY RingAssumption DEF Home
<1>4. \A t \in Home \cup {RINGS} : r.section[t] = img.section[t]
  BY <1>2, <1>3 DEF SpaceAdded
<1>5. ASSUME NEW t \in Present(img), NEW a \in 0 .. BufferSize - 1, InSection(img, t, a) PROVE r.mem[a] = img.mem[a]
  <2>1. a \in img.section[t].offset .. End(img.section[t]) - 1
    BY <1>5 DEF InSection
  <2>2. img.section[t].offset \in Nat /\ End(img.section[t]) \in Nat
    BY <1>1, ShapedTypes DEF Present
  <2>3. a < End(img.section[t])
    BY <2>1, <2>2
  <2> QED BY <2>3 DEF SpaceAdded
<1>6. \A slot \in RingSlots \ {} : SlotCell(r, slot) = SlotCell(img, slot)
  <2>1. ASSUME NEW slot \in RingSlots PROVE SlotCell(r, slot) = SlotCell(img, slot)
    <3>1. PICK t \in Present(img) \cap Home : InSection(img, t, Cell(slot))
      BY SlotPlace
    <3>2. Cell(slot) \in 0 .. BufferSize - 1
      BY SlotPlace
    <3> QED BY <1>5, <3>1, <3>2 DEF SlotCell, Cell
  <2> QED BY <2>1
<1>7. \A a \in 0 .. BufferSize - 1 : InSection(img, RINGS, a) => r.mem[a] = img.mem[a]
  <2>1. CASE RINGS \in Present(img)
    BY <1>5, <2>1
  <2>2. CASE RINGS \notin Present(img)
    <3> DEFINE o == img.section[RINGS].offset
    <3>1. o \in Nat /\ End(img.section[RINGS]) = o
      BY <1>1, <1>3, <2>2, ShapedTypes
    <3> HIDE DEF o
    <3>2. \A x : x \notin o .. o - 1
      BY <3>1
    <3> QED BY <3>1, <3>2 DEF InSection, o
  <2> QED BY <2>1, <2>2
<1> QED BY <1>1, <1>4, <1>6, <1>7, Stays

LEMMA SpaceKeepsHome ==
  ASSUME NEW img, PointersHome(img), NEW s \in Sections, s \notin Present(img), NEW size, NEW r, SpaceAdded(img, s, size, r)
  PROVE  PointersHome(r)
<1> SUFFICES ASSUME NEW p \in Pointers PROVE \E t \in Present(r) \ {RINGS} : InSection(r, t, Cell(p))
  BY DEF PointersHome
<1>1. PICK t \in Present(img) \ {RINGS} : InSection(img, t, Cell(p))
  BY DEF PointersHome
<1>2. r.section[t] = img.section[t]
  BY <1>1 DEF SpaceAdded, Present
<1> QED BY <1>1, <1>2 DEF Present, InSection

LEMMA SpaceKeepsRings ==
  ASSUME NEW m, NEW img, RingsHeld(m, img), PointersHome(img), NEW s \in {SLW, FIT, FFDC}, s \notin Present(img),
         NEW size, NEW r, SpaceAdded(img, s, size, r)
  PROVE  RingsHeld(m, r) /\ PointersHome(r)
<1>1. s \in Sections /\ Sound(img)
  BY SlwAssumption DEF RingsHeld, Well
<1>2. Carried(img, r, {})
  BY <1>1, SpaceCarries
<1>3. PointersHome(r)
  BY <1>1, SpaceKeepsHome
<1> QED BY <1>2, <1>3, HeldCarried

(* The pointers of a ready image are in sections of their own.             *)
LEMMA ReadyHome ==
  ASSUME NEW img, SlwReady(img)
  PROVE  PointersHome(img)
<1> SUFFICES ASSUME NEW p \in Pointers PROVE \E t \in Present(img) \ {RINGS} : InSection(img, t, Cell(p))
  BY DEF PointersHome
<1>1. PICK base \in Images : KeptFrom(base, img)
  BY DEF SlwReady
<1>2. PICK t \in Present(base) \ RingSections : InSection(base, t, Cell(p))
  BY BuildAssumption DEF Pointers
<1>3. t \in Sections \ RingSections /\ img.section[t] = base.section[t]
  BY <1>1, <1>2 DEF KeptFrom, Present
<1> QED BY <1>2, <1>3 DEF Present, InSection, RingSections

LEMMA PlacedPresent ==
  ASSUME NEW img, SlwPlaced(img)
  PROVE  SLW \in Present(img)
BY SlwNotEmpty, SlwAssumption DEF SlwPlaced, Present

LEMMA SramRings ==
  ASSUME NEW m, NEW img, SlwReady(img), RingsHeld(m, img), InitializeSlw(img, FixedSize).rc = "OK"
  PROVE  TabledRings(m, InitializeSlw(img, FixedSize).image)
<1> DEFINE r == InitializeSlw(img, FixedSize).image
<1>1. PICK i : SramMade(img, i, r)
  BY SramSteps
<1> HIDE DEF r
<1>2. SpaceAdded(img, SLW, SlwSize, i) /\ SlwPlaced(i) /\ r = SetVectors(FillTables(i))
  BY <1>1 DEF SramMade
<1>3. SLW \notin Present(img) /\ PointersHome(img)
  BY ReadyPointers, ReadyHome
<1>4. TabledRings(m, i)
  BY <1>2, <1>3, SpaceKeepsRings, PlacedPresent DEF TabledRings
<1>5. TabledRings(m, r)
  BY <1>2, <1>4, InitializedOnly, TablesKeepRings
<1> QED BY <1>5 DEF r

LEMMA FixedRings ==
  ASSUME NEW m, NEW img, SlwReady(img), RingsHeld(m, img), CreateFixed(img).rc = "OK"
  PROVE  TabledRings(m, CreateFixed(img).image)
<1> DEFINE r == CreateFixed(img).image
<1>1. PICK i1, i2, i3 : FixedMade(img, i1, i2, i3, r)
  BY FixedSteps
<1> HIDE DEF r
<1>2. FIT \notin Present(img) /\ PointersHome(img)
  BY ReadyPointers, ReadyHome
<1>3. RingsHeld(m, i1) /\ PointersHome(i1)
  BY <1>1, <1>2, SpaceKeepsRings DEF FixedMade
<1>4. RingsHeld(m, i2) /\ PointersHome(i2)
  BY <1>1, <1>3, SpaceKeepsRings DEF FixedMade
<1>5. RingsHeld(m, i3) /\ PointersHome(i3)
  BY <1>1, <1>4, SpaceKeepsRings DEF FixedMade
<1>6. SlwPlaced(i3) /\ r = SetVectors(FillTables(SetRamVector(i3)))
  BY <1>1 DEF FixedMade
<1>7. TabledRings(m, i3)
  BY <1>5, <1>6, PlacedPresent DEF TabledRings
<1> DEFINE i4 == SetRamVector(i3)
<1>8. TablesOnly(i3, i4) /\ SlwPlaced(i4)
  BY <1>6, RamVectorOnly, RamVectorSet
<1>9. r = SetVectors(FillTables(i4))
  BY <1>6
<1> HIDE DEF i4
<1>10. TabledRings(m, i4)
  BY <1>7, <1>8, TablesKeepRings
<1>11. TabledRings(m, r)
  BY <1>8, <1>9, <1>10, InitializedOnly, TablesKeepRings
<1> QED BY <1>11 DEF r

(***************************************************************************)
(* The invariant of the rings of a built P8 image.                         *)
(***************************************************************************)
Compiled == ProgramsOf(ref, build.dd, 1, FixedSize)
RingInvariant ==
    /\ build.kind = "ipl" => RingsHeld(CopiesOf(ref, build.dd, 0, RINGS), image) /\ ref.size \in Int /\ ref.size <= BufferSize
    /\ build.kind = "slw" => RingsHeld(Compiled, image)
    /\ build.kind \in {"fixed", "sram"} => TabledRings(Compiled, image)

(* The level of a build that changes.                                      *)
LEMMA LevelStays ==
  ASSUME NEW b, BuildFields(b)
  PROVE  /\ \A v : [b EXCEPT !.vpd = v].dd = b.dd /\ \A k : [b EXCEPT !.kind = k].dd = b.dd
         /\ [b EXCEPT !.ready = TRUE].dd = b.dd
BY DEF BuildFields

(* What a call on an image with tables has to show.                        *)
LEMMA TabledCall ==
  ASSUME BuildInvariant, RingInvariant, build.kind \in {"fixed", "sram"}, TablesOnly(image, image'), ref' = ref,
         build'.kind = build.kind, build'.dd = build.dd
  PROVE  RingInvariant'
<1>1. TabledRings(Compiled, image)
  BY DEF RingInvariant
<1>2. TabledRings(Compiled, image')
  BY <1>1, TablesKeepRings
<1>3. Compiled' = Compiled
  BY DEF Compiled
<1> QED BY <1>2, <1>3 DEF RingInvariant

LEMMA BuildHolds == ASSUME FileInvariant, BuildInvariant, Build PROVE RingInvariant'
<1>1. PICK dd \in DdLevels, kind \in {"ipl", "centaur", "slw"} :
         /\ build = NoBuild /\ (kind = "centaur" <=> chip = "centaur")
         /\ FileCheck(file) = "OK" /\ Built(kind, dd).rc = "OK"
         /\ image' = Built(kind, dd).image /\ ref' = file.image
         /\ build' = [kind |-> kind, dd |-> dd, vpd |-> 0, ready |-> FALSE]
  BY Zenon DEF Build
<1>2. build'.kind = kind /\ build'.dd = dd
  BY <1>1
<1>3. ASSUME kind # "centaur" PROVE Readable(file.image) /\ Bare(file.image)
  <2>1. chip = "p8" /\ Whole
    BY <1>1, <1>3 DEF BuildInvariant, Whole
  <2> QED BY <2>1, FileFits, FileBare
<1>4. ASSUME kind = "ipl"
      PROVE  RingsHeld(CopiesOf(file.image, dd, 0, RINGS), image') /\ file.image.size \in Int /\ file.image.size <= BufferSize
  <2>1. Built("ipl", dd) = IplBuild(file.image, dd)
    BY DEF Built
  <2>2. IplBuild(file.image, dd).rc = "OK" /\ image' = IplBuild(file.image, dd).image
    BY <1>1, <1>4, <2>1
  <2>3. RingsHeld(CopiesOf(file.image, dd, 0, RINGS), image')
    BY <1>3, <1>4, <2>2, IplBuilt DEF RingsHeld
  <2>4. Shaped(file.image)
    BY <1>3, <1>4 DEF Bare, Sound
  <2> QED BY <2>3, <2>4, ShapedTypes
<1>5. ASSUME kind = "slw"
      PROVE  RingsHeld(ProgramsOf(file.image, dd, 1, FixedSize), image')
  <2>1. Built("slw", dd) = SlwBuild(file.image, dd)
    BY DEF Built
  <2>2. SlwBuild(file.image, dd).rc = "OK" /\ image' = SlwBuild(file.image, dd).image
    BY <1>1, <1>5, <2>1
  <2> QED BY <1>3, <1>5, <2>2, SlwBuilt DEF RingsHeld
<1> QED BY <1>1, <1>2, <1>4, <1>5 DEF RingInvariant, Compiled

LEMMA VpdHolds == ASSUME BuildInvariant, RingInvariant, AddVpdIpl \/ AddVpdSlw PROVE RingInvariant'
<1> DEFINE b == [build EXCEPT !.vpd = @ + 1]
<1>1. b.kind = build.kind /\ b.dd = build.dd
  BY BuildChanges, LevelStays DEF BuildInvariant, BuildIs
<1>2. build' = b /\ ref' = ref /\ build.kind \in {"ipl", "slw"}
  BY DEF AddVpdIpl, AddVpdSlw, VpdCode
<1> HIDE DEF b
<1>3. build'.kind = build.kind /\ build'.dd = build.dd
  BY <1>1, <1>2
<1>4. ASSUME NEW m, RingsHeld(m, image), VpdKept(image, image') PROVE RingsHeld(m, image')
  <2>1. Well(image')
    BY <1>4, VpdKeepsWell DEF RingsHeld
  <2>2. PICK slot \in VpdSlots : Carried(image, image', {slot})
    BY <1>4 DEF VpdKept
  <2>3. RingsWin(m, image')
    <3>1. \A plain \in PlainSlots : SlotCell(image', plain) = SlotCell(image, plain)
      BY <2>2, SlotKinds DEF Carried
    <3>2. KeepsBlocks(image, image')
      BY <2>2 DEF Carried
    <3> QED BY <1>4, <3>1, <3>2, WinsCarried DEF RingsHeld
  <2> QED BY <2>1, <2>3 DEF RingsHeld
<1>5. ASSUME build.kind = "ipl" PROVE VpdKept(image, image')
  <2>1. PICK ring \in VpdRings : image' = WriteVpdRingIpl(image, ref.size, ring, build.dd, 0, ring.name, RINGS).image
    BY <1>5 DEF AddVpdIpl, AddVpdSlw, VpdCode
  <2>2. Sound(image) /\ ref.size \in Int /\ ref.size <= BufferSize
    BY <1>5 DEF RingInvariant, RingsHeld, Well
  <2>3. RINGS \in RingSections
    BY DEF RingSections
  <2> QED BY <2>1, <2>2, <2>3, VpdIplKeeps
<1>6. ASSUME build.kind = "slw" PROVE VpdKept(image, image')
  <2>1. PICK ring \in VpdRings : image' = WriteVpdRingSlw(image, FixedSize, ring, ring.name, VpdType(ring.name) = "R").image
    BY <1>6 DEF AddVpdIpl, AddVpdSlw, VpdCode
  <2>2. Sound(image) /\ FixedSize \in Int /\ FixedSize <= BufferSize
    BY <1>6, SlwAssumption DEF RingInvariant, RingsHeld, Well
  <2> QED BY <2>1, <2>2, VpdSlwKeeps
<1>7. Compiled' = Compiled
  BY <1>2, <1>3 DEF Compiled
<1> QED BY <1>2, <1>3, <1>4, <1>5, <1>6, <1>7 DEF RingInvariant

LEMMA TablesHeld == ASSUME BuildInvariant, RingInvariant, Fix \/ InitSlw PROVE RingInvariant'
<1>1. build.kind = "slw" /\ ref' = ref
  BY DEF Fix, InitSlw, VpdCode
<1>2. SlwReady(image) /\ RingsHeld(Compiled, image) /\ BuildFields(build)
  BY <1>1 DEF BuildInvariant, RingInvariant
<1>3. PICK kind \in {"fixed", "sram", "failed"} :
         /\ build' = [build EXCEPT !.kind = kind]
         /\ kind \in {"fixed", "sram"} => TabledRings(Compiled, image')
  <2>1. CASE Fix
    <3> DEFINE r == CreateFixed(image)
    <3>1. image' = r.image /\ build' = [build EXCEPT !.kind = IF r.rc = "OK" THEN "fixed" ELSE "failed"]
      BY <2>1 DEF Fix, VpdCode
    <3>2. r.rc = "OK" => TabledRings(Compiled, r.image)
      BY <1>2, FixedRings
    <3> HIDE DEF r
    <3> QED BY <3>1, <3>2
  <2>2. CASE InitSlw
    <3> DEFINE r == InitializeSlw(image, FixedSize)
    <3>1. image' = r.image /\ build' = [build EXCEPT !.kind = IF r.rc = "OK" THEN "sram" ELSE "failed"]
      BY <2>2 DEF InitSlw, VpdCode
    <3>2. r.rc = "OK" => TabledRings(Compiled, r.image)
      BY <1>2, SramRings
    <3> HIDE DEF r
    <3> QED BY <3>1, <3>2
  <2> QED BY <2>1, <2>2
<1>4. build'.kind = kind /\ build'.dd = build.dd
  <2> DEFINE b == [build EXCEPT !.kind = kind]
  <2>1. b.kind = kind /\ b.dd = build.dd
    BY <1>2, BuildChanges, LevelStays DEF BuildIs
  <2> HIDE DEF b
  <2> QED BY <1>3, <2>1 DEF b
<1>5. Compiled' = Compiled
  BY <1>1, <1>4 DEF Compiled
<1> QED BY <1>3, <1>4, <1>5 DEF RingInvariant

LEMMA RuntimeHolds == ASSUME BuildInvariant, RingInvariant, UpdateRuntimeScom PROVE RingInvariant'
<1>1. build.kind \in {"fixed", "sram"} /\ ref' = ref /\ build' = [build EXCEPT !.ready = TRUE]
  BY DEF UpdateRuntimeScom, VpdCode
<1>2. TablesFound(image, build.kind) /\ BuildFields(build)
  BY <1>1 DEF BuildInvariant, TablesHold
<1>3. image' = Put(image, RuntimeScom[1] - LinkAddress, Word(RuntimeScom[2]))
  BY AnswerFields DEF UpdateRuntimeScom, VpdCode
<1>4. TablesOnly(image, image')
  <2> DEFINE a == Cell(RuntimeScom[1])
  <2>1. SlwPlaced(image) /\ Framed(image) /\ RuntimeScom[1] \in Pointers
    BY <1>2 DEF TablesFound, SlwPlaced, Pointers
  <2>2. a \in 0 .. BufferSize - 1 /\ TableCell(image, a)
    BY <2>1, TableCellPlaces
  <2>3. image' = Put(image, a, Word(RuntimeScom[2]))
    BY <1>3 DEF Cell
  <2> HIDE DEF a
  <2> QED BY <2>1, <2>2, <2>3, TablesOnlyPut
<1>5. build'.kind = build.kind /\ build'.dd = build.dd
  <2> DEFINE b == [build EXCEPT !.ready = TRUE]
  <2>1. b.kind = build.kind /\ b.dd = build.dd
    BY <1>2, BuildChanges, LevelStays DEF BuildIs
  <2> HIDE DEF b
  <2> QED BY <1>1, <2>1 DEF b
<1> QED BY <1>1, <1>4, <1>5, TabledCall

LEMMA FillHolds == ASSUME BuildInvariant, RingInvariant, FillRam \/ FillScom PROVE RingInvariant'
<1>1. Filling /\ UNCHANGED <<build, ref>>
  BY DEF FillRam, FillScom
<1>2. build.kind \in {"fixed", "sram"} /\ TablesFound(image, build.kind) /\ ScomsHold(image, scoms)
  BY <1>1, FillingHolds DEF TablesHold
<1>3. TablesOnly(image, image')
  <2>1. CASE FillRam
    <3>1. PICK q \in RamRequests, mode \in Mode :
             image' = GenCpuReg(image, mode, q.reg, q.data, q.core, q.thread).image
      BY <2>1, Zenon DEF FillRam
    <3>2. q.core \in Nat
      BY BuildAssumption
    <3> QED BY <1>2, <3>1, <3>2, RamCallOnly
  <2>2. CASE FillScom
    <3>1. PICK q \in ScomRequests, mode \in Mode :
             image' = GenScom(image, mode, q.addr, q.core, q.data, q.operation, q.part).image
      BY <2>2, Zenon DEF FillScom
    <3>2. q.operation \in Operations /\ q.core \in Nat
      BY BuildAssumption
    <3> QED BY <1>2, <3>1, <3>2, ScomCallOnly
  <2> QED BY <2>1, <2>2
<1> QED BY <1>1, <1>2, <1>3, TabledCall

(* The invariant of the rings, with those of the file and of the tables,   *)
(* is inductive: whatever builds and calls follow, every slot of a P8      *)
(* image is in a section that stays and leads to a block of .rings that    *)
(* points back to it, and the last ring for a slot is what it leads to.    *)
THEOREM RingsInductive == BuildSpec => []RingInvariant
<1>1. BuildInit => RingInvariant
  BY DEF BuildInit, NoBuild, RingInvariant
<1>2. FileInvariant /\ BuildInvariant /\ RingInvariant /\ [BuildNext]_<<scanVars, buildVars>> => RingInvariant'
  <2> SUFFICES ASSUME FileInvariant, BuildInvariant, RingInvariant, [BuildNext]_<<scanVars, buildVars>> PROVE RingInvariant'
    OBVIOUS
  <2>1. CASE UNCHANGED buildVars
    BY <2>1 DEF buildVars, RingInvariant, Compiled
  <2>2. CASE BuildNext /\ ~ UNCHANGED buildVars
    BY <2>2, BuildHolds, VpdHolds, TablesHeld, RuntimeHolds, FillHolds DEF BuildNext
  <2> QED BY <2>1, <2>2
<1> QED BY <1>1, <1>2, BuildImplementsScan, FileInductive, BuildInductive, PTL DEF BuildSpec

(* Every slot of a built P8 image that is not zero leads to a block of     *)
(* .rings that points back to it.                                          *)
THEOREM EverySlotLeads == BuildSpec => []AllLead
<1>1. RingInvariant => AllLead
  BY DEF RingInvariant, AllLead, TabledRings, RingsHeld, Well, RingSlots
<1> QED BY <1>1, RingsInductive, PTL

(***************************************************************************)
(* The images of p8_delta_scan_w_centaur: .dcrings is never there, and     *)
(* every block of .rings is a ring that programs can be made from.         *)
(***************************************************************************)
Stocked(img) ==
    /\ Sound(img) /\ DCRINGS \notin Present(img) /\ RingsIn(img, RINGS, RingSlots)
    /\ RINGS \in Present(img) => img.section[RINGS].offset # 0
IsStock(ring) ==
    /\ IsRing(ring, ring[1].back, BodyOf(ring)) /\ ring[1].back \in RingSlots /\ BodyOf(ring) \in DOMAIN Program
    /\ ring[1] = Header(ring[1].back, Len(ring), ring[1].dd, ring[1].phase, ring[1].override)

(* A block that is appended is one more.                                   *)
LEMMA StockAppended ==
  ASSUME NEW img, Stocked(img), NEW ring, IsStock(ring), NEW allocation \in Int, allocation <= BufferSize,
         NEW a, a = DoAppend(img, RINGS, ring, allocation), a.rc = "OK"
  PROVE  Stocked(a.image)
<1> DEFINE r == a.image
           n == img.section[RINGS].size
           at == r.section[RINGS].offset + n
<1>1. PICK Y : ring \in Seq(Y)
  BY DEF IsStock, IsRing
<1>2. ring # << >> /\ ring[1].size = Len(ring) /\ RINGS \in Sections /\ DCRINGS \in Sections /\ DCRINGS # RINGS
  BY RingAssumption DEF IsStock, IsRing, RINGS, DCRINGS
<1>3. Carried(img, r, {}) /\ Added(img, r, ring)
  BY <1>1, <1>2, BlockAppended DEF Stocked
<1>4. Appends(img, RINGS, ring, allocation, a)
  BY <1>1, <1>2, AppendOutcome DEF Stocked, Sound
<1>5. Shaped(img) /\ Shaped(r) /\ Sound(img) /\ Sound(r)
  BY <1>3 DEF Stocked, Sound, Carried
<1>6. DCRINGS \notin Present(r)
  BY <1>2, <1>4, <1>5 DEF Stocked, Appends, Present
<1>7. RingsIn(r, RINGS, RingSlots)
  <2>1. ASSUME NEW b \in Blocks(img, RINGS)
        PROVE  WithHeader(r, b) /\ r.mem[b].back \in RingSlots /\ DataAt(r, b) \in DOMAIN Program
    <3>1. SameBlock(img, r, b)
      BY <1>3 DEF Carried, KeepsBlocks
    <3>2. WithHeader(img, b) /\ img.mem[b].back \in RingSlots /\ DataAt(img, b) \in DOMAIN Program
      BY DEF Stocked, RingsIn
    <3> QED BY <3>1, <3>2 DEF SameBlock, WithHeader
  <2>2. at \in Nat /\ Len(ring) \in Nat \ {0} /\ \A k \in 1 .. Len(ring) : r.mem[at + k - 1] = ring[k]
    <3>1. at \in Nat
      BY <1>2, <1>5, ShapedTypes
    <3> QED BY <1>1, <1>2, <1>3, <3>1, EmptySeq DEF Added
  <2>3. Blocks(r, RINGS) = Blocks(img, RINGS) \cup {at}
    BY <1>3 DEF Added
  <2> HIDE DEF at, r
  <2>4. r.mem[at] = ring[1] /\ \A k \in 1 .. Len(ring) - 1 : r.mem[at + k] = ring[k + 1]
    <3>1. 1 \in 1 .. Len(ring) /\ at + 1 - 1 = at
      BY <2>2
    <3>2. \A k \in 1 .. Len(ring) - 1 : k + 1 \in 1 .. Len(ring) /\ at + (k + 1) - 1 = at + k
      BY <2>2
    <3> QED BY <2>2, <3>1, <3>2
  <2>5. DataAt(r, at) = BodyOf(ring)
    BY <1>2, <2>4 DEF DataAt, BodyOf
  <2>6. WithHeader(r, at) /\ r.mem[at].back \in RingSlots /\ DataAt(r, at) \in DOMAIN Program
    BY <1>2, <2>4, <2>5 DEF IsStock, WithHeader
  <2> QED BY <2>1, <2>3, <2>6 DEF RingsIn
<1>8. r.section[RINGS].offset # 0
  <2>1. CASE RINGS \in Present(img)
    BY <1>3, <2>1 DEF Stocked, Carried, KeepsBlocks
  <2>2. CASE RINGS \notin Present(img)
    <3>1. n = 0 /\ img.size \in Nat /\ r.section[RINGS].offset \in Nat
      BY <1>2, <1>5, <2>2, ShapedTypes
    <3>2. r.section[RINGS].offset + n = AppendStart(img, RINGS)
      <4>1. r.section # img.section \/ ~ (a.rc = "OK" => ring = << >>)
        BY <1>2
      <4> QED BY <1>2, <1>4, <4>1 DEF Appends
    <3>3. img.size <= AppendStart(img, RINGS) /\ AppendStart(img, RINGS) \in Nat
      BY <1>2, <1>5, <2>2, ShapedStart
    <3>4. img.size # 0
      <4>1. PICK t \in Present(img) : InSection(img, t, Cell(ring[1].back))
        BY <1>5, SlotPlace DEF IsStock
      <4>2. /\ img.section[t].offset \in Nat /\ End(img.section[t]) \in Nat /\ End(img.section[t]) <= img.size
        BY <1>5, <4>1, ShapedTypes DEF Present
      <4>3. img.section[t].offset <= Cell(ring[1].back) /\ Cell(ring[1].back) <= End(img.section[t]) - 1
            /\ Cell(ring[1].back) \in Int
        BY <4>1, <4>2 DEF InSection
      <4> QED BY <3>1, <4>2, <4>3
    <3> QED BY <3>1, <3>2, <3>3, <3>4
  <2> QED BY <2>1, <2>2
<1> QED BY <1>5, <1>6, <1>7, <1>8 DEF Stocked

(* A slot that is set leaves the blocks alone.                             *)
LEMMA StockLinked ==
  ASSUME NEW img, Stocked(img), NEW r, NEW slot \in RingSlots, NEW x, PointerSet(img, r, slot, x)
  PROVE  Stocked(r)
<1>1. /\ Carried(img, r, {slot}) /\ r.section = img.section /\ Blocks(r, RINGS) = Blocks(img, RINGS)
  BY DEF PointerSet
<1>2. Sound(r) /\ Present(r) = Present(img)
  BY <1>1 DEF Carried, Present
<1>3. RingsIn(r, RINGS, RingSlots)
  <2>1. ASSUME NEW b \in Blocks(img, RINGS)
        PROVE  WithHeader(r, b) /\ r.mem[b].back \in RingSlots /\ DataAt(r, b) \in DOMAIN Program
    <3>1. SameBlock(img, r, b)
      BY <1>1 DEF Carried, KeepsBlocks
    <3>2. WithHeader(img, b) /\ img.mem[b].back \in RingSlots /\ DataAt(img, b) \in DOMAIN Program
      BY DEF Stocked, RingsIn
    <3> QED BY <3>1, <3>2 DEF SameBlock, WithHeader
  <2> QED BY <1>1, <2>1 DEF RingsIn
<1> QED BY <1>1, <1>2, <1>3 DEF Stocked

(* What p8_delta_scan_w_centaur accepts, and the blocks it makes of it.    *)
CentaurAccepted == {req \in Requests : CentaurArguments(req) = "OK"}
LEMMA StockOf ==
  ASSUME NEW back \in RingSlots, NEW dd, NEW phase, NEW override, NEW data \in Seq(Nat), data \in DOMAIN Program
  PROVE  IsStock(Rs4Block(back, dd, phase, override, data)) /\ IsBlock(Rs4Block(back, dd, phase, override, data))
<1> DEFINE b == Rs4Block(back, dd, phase, override, data)
<1>1. IsBlock(b) /\ b[1].back = back /\ BodyOf(b) = data
  BY Rs4IsBlock
<1> HIDE DEF b
<1>2. b[1].size = Len(b)
  <2>1. b[1] = Header(b[1].back, Len(b), b[1].dd, b[1].phase, b[1].override)
    BY <1>1 DEF IsBlock
  <2> QED BY <2>1 DEF Header
<1>3. IsStock(b)
  BY <1>1, <1>2 DEF IsStock, IsRing, IsBlock
<1> QED BY <1>1, <1>3 DEF b

LEMMA StockWithBack ==
  ASSUME NEW back \in RingSlots, NEW dd, NEW phase, NEW override, NEW data \in Seq(Nat), data \in DOMAIN Program
  PROVE  IsStock(RingWith(Rs4Block(0, dd, phase, override, data), back))
<1> DEFINE b == Rs4Block(0, dd, phase, override, data)
           c == Rs4Block(back, dd, phase, override, data)
<1>1. IsStock(c)
  BY StockOf
<1>2. RingWith(b, back) = c
  <2> DEFINE n == Len(data)
             h == Header(0, 1 + n, dd, phase, override)
             g == Header(back, 1 + n, dd, phase, override)
  <2>1. [h EXCEPT !.back = back] = g
    BY DEF Header
  <2>2. b = BlockFunction(h, data) /\ c = BlockFunction(g, data)
    BY BlockCells
  <2>3. n \in Nat
    OBVIOUS
  <2> HIDE DEF h, g, b, c
  <2>4. b = [k \in 1 .. 1 + n |-> IF k = 1 THEN h ELSE Body(data[k - 1])]
    BY <2>2 DEF BlockFunction
  <2>5. c = [k \in 1 .. 1 + n |-> IF k = 1 THEN g ELSE Body(data[k - 1])]
    BY <2>2 DEF BlockFunction
  <2> HIDE DEF n
  <2>6. b[1] = h /\ [b EXCEPT ![1] = g] = c
    <3>1. 1 \in 1 .. 1 + n /\ \A k \in 1 .. 1 + n : k \in DOMAIN b
      BY <2>3, <2>4
    <3>2. b[1] = h
      BY <2>4, <3>1
    <3>3. [b EXCEPT ![1] = g] = [k \in 1 .. 1 + n |-> IF k = 1 THEN g ELSE b[k]]
      BY <2>4, <3>1
    <3>4. \A k \in 1 .. 1 + n : (IF k = 1 THEN g ELSE b[k]) = (IF k = 1 THEN g ELSE Body(data[k - 1]))
      BY <2>4
    <3> QED BY <2>5, <3>2, <3>3, <3>4
  <2>7. RingWith(b, back) = [b EXCEPT ![1] = [b[1] EXCEPT !.back = back]]
    BY DEF RingWith
  <2> QED BY <2>1, <2>6, <2>7
<1> QED BY <1>1, <1>2

(* A request that is accepted makes such blocks.                           *)
LEMMA CentaurFacts ==
  ASSUME NEW req \in CentaurAccepted
  PROVE  /\ req.name \in RingName /\ req.name # NoName /\ req.data \in Seq(Nat) /\ req.data \in DOMAIN Program
         /\ req.chiplet \in Nat
         /\ VpdType(req.name) = "none" => SlotOf[req.name] + req.override \in RingSlots /\ SlotOf[req.name] \in RingSlots
         /\ VpdType(req.name) # "none" => SlotOf[req.name] + VectorIndex(req.chiplet) \in RingSlots
<1>1. /\ req \in Requests /\ CentaurArguments(req) = "OK"
      /\ req.name \in RingName /\ req.override \in Nat /\ req.chiplet \in Nat /\ req.data \in Seq(Nat)
  BY ScanAssumption DEF CentaurAccepted
<1>2. req.override \in {0, 1}
  BY <1>1 DEF CentaurArguments
<1>3. req.name # NoName /\ SlotOf[req.name] \in Nat /\ SlotOf[req.name] + 0 = SlotOf[req.name]
  BY <1>1, RingAssumption
<1>4. ASSUME VpdType(req.name) = "none"
      PROVE  SlotOf[req.name] + req.override \in RingSlots /\ SlotOf[req.name] \in RingSlots
  <2>1. 0 \in 0 .. Elements(req.name) - 1 /\ req.override \in 0 .. Elements(req.name) - 1
    BY <1>2, <1>4 DEF Elements
  <2> QED BY <1>1, <1>3, <2>1, SlotOfRing
<1>5. ASSUME VpdType(req.name) # "none" PROVE SlotOf[req.name] + VectorIndex(req.chiplet) \in RingSlots
  BY <1>1, <1>5, VectorIndexOfVpd, SlotOfRing
<1> QED BY <1>1, <1>3, <1>4, <1>5, BuildAssumption

(* A VPD ring is one more block, and its slot is set.                      *)
LEMMA StockWritten ==
  ASSUME NEW img, Stocked(img), NEW block, NEW name, name # NoName, NEW idx, NEW max \in Int, max <= BufferSize, NEW size,
         NEW slot \in RingSlots, slot = BackPointer(name, idx, 0, 0), IsStock(RingWith(block, slot)),
         NEW w, w = WriteRingBlock(img, name, block, idx, 0, 0, max, RINGS, size), w.rc = "OK"
  PROVE  Stocked(w.image)
<1> DEFINE ring == RingWith(block, slot)
           off  == OffOf(img, RINGS, size)
           app  == AppOf(img, RINGS, size, block, slot, max)
           put  == PutOf(img, RINGS, size, block, slot, max)
           link == LinkOf(img, RINGS, size, block, slot, max)
<1>1. WriteEnds(w, img, off, app, put, link)
  BY BlockWriteIs
<1>2. off = Answer("OK", img) /\ put = Answer("OK", app.image)
  BY Zenon DEF OffOf, PutOf, TakeOff, PutBack, Stocked
<1>3. PICK room \in Int : room <= BufferSize /\ app = DoAppend(off.image, RINGS, ring, room)
  <2>1. img.section[DCRINGS].size \in Nat
    BY ShapedTypes, RingAssumption DEF Stocked, Sound
  <2>2. \A n \in Nat : max - n \in Int /\ max - n <= BufferSize
    BY XipAssumption
  <2>3. app = DoAppend(off.image, RINGS, ring, max - img.section[DCRINGS].size)
    BY Zenon DEF AppOf
  <2> QED BY <2>1, <2>2, <2>3, Zenon
<1>4. link = Link(put.image, RINGS, app.offset, slot)
  BY Zenon DEF LinkOf
<1> HIDE DEF ring, off, app, put, link
<1>5. off.image = img /\ put.image = app.image /\ put.rc = "OK" /\ off.rc = "OK"
  BY <1>2, AnswerFields
<1>6. app.rc = "OK" /\ w.image = link.image
  <2>1. \A rc, i : w = Answer(rc, i) => rc = "OK"
    BY AnswerFields
  <2>2. (\E rc : w = Answer(rc, link.image)) /\ app.rc = "OK"
    BY <1>1, <1>5, <2>1, Zenon DEF WriteEnds
  <2> QED BY <2>2, AnswerFields
<1>7. Stocked(app.image)
  BY <1>3, <1>5, <1>6, StockAppended DEF ring
<1>8. PointerSet(app.image, link.image, slot, Word(LinkedTo(app.image, RINGS, app.offset)))
  <2>1. Sound(app.image)
    BY <1>7 DEF Stocked
  <2> QED BY <1>4, <1>5, <2>1, LinkSets
<1> QED BY <1>6, <1>7, <1>8, StockLinked

(* Any other ring too, and the first slot of its name is set.              *)
LEMMA StockSet ==
  ASSUME NEW img, Stocked(img), NEW req \in CentaurAccepted, VpdType(req.name) = "none",
         NEW a, a = DoAppend(img, RINGS, BlockOf(req), RefMax), a.rc = "OK"
  PROVE  Stocked(SetFirstSlot(a.image, req, a.offset).image)
<1> DEFINE slot == SlotOf[req.name]
           x == Word(Section2Pore(a.image, RINGS, a.offset).address)
           r == SetFirstSlot(a.image, req, a.offset).image
<1>1. /\ req.data \in Seq(Nat) /\ req.data \in DOMAIN Program /\ SlotOf[req.name] + req.override \in RingSlots
      /\ slot \in RingSlots
  BY CentaurFacts
<1>2. IsStock(BlockOf(req))
  BY <1>1, StockOf DEF BlockOf
<1>3. RefMax \in Int /\ RefMax <= BufferSize
  BY ScanAssumption, XipAssumption
<1>4. Stocked(a.image)
  BY <1>2, <1>3, StockAppended
<1>5. r = DoWriteDoubleword(a.image, slot, <<x>>)
  BY AnswerFields DEF SetFirstSlot
<1> HIDE DEF slot, x, r
<1>6. PointerSet(a.image, r, slot, x)
  <2>1. Sound(a.image)
    BY <1>4 DEF Stocked
  <2> QED BY <1>1, <1>5, <2>1, SlotSet
<1>7. Stocked(r)
  BY <1>1, <1>4, <1>6, StockLinked
<1> QED BY <1>7 DEF r

(* write_rs4_ring_to_ref_image of p8_delta_scan_w_centaur.                 *)
LEMMA CentaurAdds ==
  ASSUME NEW img, Stocked(img), NEW req \in CentaurAccepted, CentaurAddRing(img, req).rc = "OK"
  PROVE  Stocked(CentaurAddRing(img, req).image)
<1> DEFINE r == CentaurAddRing(img, req)
<1>1. ASSUME VpdType(req.name) # "none" PROVE Stocked(r.image)
  <2> DEFINE block == Rs4Block(0, DdOf(req.dd), req.phase, 0, req.data)
             idx == VectorIndex(req.chiplet)
             slot == SlotOf[req.name] + idx
             v == WriteVpdRingIpl(img, RefMax, req, DdOf(req.dd), req.phase, req.name, RINGS)
             w == WriteRingBlock(img, req.name, block, idx, 0, 0, RefMax, RINGS, RingBuffer)
  <2>1. r = Mapped(v, LAMBDA rc : "GENERIC")
    BY <1>1 DEF CentaurAddRing
  <2>2. \/ \E rc : rc # "OK" /\ v = Answer(rc, img)
        \/ v = w \/ (v = [w EXCEPT !.rc = VpdBlockCode(w.rc)] /\ w.rc # "OK")
    <3>1. "KEYWORD_NOT_FOUND" # "OK" /\ "RING_TOO_LARGE" # "OK"
      OBVIOUS
    <3> QED BY <3>1, Zenon DEF WriteVpdRingIpl, Mapped
  <2>3. VpdBlockCode(w.rc) # "OK"
    BY DEF VpdBlockCode
  <2>4. w = Answer(w.rc, w.image) /\ slot \in RingSlots /\ IsStock(RingWith(block, slot)) /\ slot = BackPointer(req.name, idx, 0, 0)
        /\ req.name # NoName /\ RefMax \in Int /\ RefMax <= BufferSize
    <3>1. slot \in RingSlots /\ req.name # NoName /\ req.data \in Seq(Nat) /\ req.data \in DOMAIN Program
      BY <1>1, CentaurFacts
    <3>2. IsStock(RingWith(block, slot))
      BY <3>1, StockWithBack
    <3>3. RefMax \in Int /\ RefMax <= BufferSize
      BY ScanAssumption, XipAssumption
    <3>4. slot = BackPointer(req.name, idx, 0, 0)
      <4>1. SlotOf[req.name] \in Nat /\ idx \in Nat
        <5>1. req.chiplet \in Nat /\ req.name \in RingName
          BY CentaurFacts
        <5> QED BY <5>1, RingAssumption DEF VectorIndex, MaxElements
      <4> HIDE DEF idx
      <4>2. SlotOf[req.name] + idx * (1 + 0) + 0 * 0 = SlotOf[req.name] + idx
        BY <4>1
      <4> QED BY <4>2 DEF BackPointer
    <3>5. IsBlock(block) /\ RINGS \in RingSections
      BY <3>1, Rs4IsBlock DEF RingSections
    <3>6. Sound(img)
      BY DEF Stocked
    <3>7. w = Answer(w.rc, w.image)
      <4>1. RingPlaced(img, w, RINGS, slot, BodyOf(block))
        <5> HIDE DEF block, idx, slot
        <5>1. slot = IF req.name = NoName THEN block[1].back ELSE BackPointer(req.name, idx, 0, 0)
          BY <3>1, <3>4
        <5> QED BY <3>1, <3>3, <3>5, <3>6, <5>1, RingWritten
      <4> QED BY <4>1, Zenon DEF RingPlaced
    <3> QED BY <3>1, <3>2, <3>3, <3>4, <3>7
  <2>5. r.rc = "OK"
    OBVIOUS
  <2> HIDE DEF r, v, w, block, idx, slot
  <2>6. r = v /\ v.rc = "OK"
    <3>1. r = IF v.rc = "OK" THEN v ELSE [v EXCEPT !.rc = "GENERIC"]
      BY <2>1, Zenon DEF Mapped
    <3>2. v.rc # "OK" => r.rc # "OK"
      <4>1. PICK rc, i : v = Answer(rc, i)
        <5>1. [w EXCEPT !.rc = VpdBlockCode(w.rc)] = Answer(VpdBlockCode(w.rc), w.image)
          BY <2>4, RecodedAnswer
        <5> QED BY <2>2, <2>4, <5>1, Zenon
      <4>2. [v EXCEPT !.rc = "GENERIC"].rc = "GENERIC"
        BY <4>1, RecodedAnswer, AnswerFields
      <4> QED BY <3>1, <4>2
    <3> QED BY <2>5, <3>1, <3>2
  <2>7. v = w
    <3>1. [w EXCEPT !.rc = VpdBlockCode(w.rc)].rc = VpdBlockCode(w.rc)
      BY <2>4, RecodedAnswer, AnswerFields
    <3> QED BY <2>2, <2>3, <2>6, <3>1, AnswerFields, ZenonT(30)
  <2>8. w.rc = "OK" /\ r.image = w.image
    BY <2>6, <2>7
  <2>9. Stocked(w.image)
    BY <2>4, <2>8, StockWritten DEF w
  <2> QED BY <2>8, <2>9
<1>2. ASSUME VpdType(req.name) = "none" PROVE Stocked(r.image)
  <2> DEFINE a == DoAppend(img, RINGS, BlockOf(req), RefMax)
             t0 == Answer(a.rc, a.image)
             t1 == Then(t0, Validated)
             t2 == Then(t1, LAMBDA i : SetFirstSlot(i, req, a.offset))
             t3 == Then(t2, Validated)
  <2>1. r = Answer("GENERIC", img) \/ r = Mapped(t3, LAMBDA rc : "GENERIC")
    BY <1>2 DEF CentaurAddRing, Answer
  <2>2. t0.rc = a.rc /\ t0.image = a.image
    BY AnswerFields
  <2>3. t1 = IF t0.rc = "OK" THEN Validated(t0.image) ELSE t0
    <3> HIDE DEF t0
    <3> QED BY Zenon DEF Then
  <2>4. t2 = IF t1.rc = "OK" THEN SetFirstSlot(t1.image, req, a.offset) ELSE t1
    <3> HIDE DEF t1, a
    <3> QED BY Zenon DEF Then
  <2>5. t3 = IF t2.rc = "OK" THEN Validated(t2.image) ELSE t2
    <3> HIDE DEF t2
    <3> QED BY Zenon DEF Then
  <2>6. r.rc = "OK"
    OBVIOUS
  <2>7. \A i : Validated(i).image = i
    BY AnswerFields DEF Validated
  <2>8. (\E rc, i : t3 = Answer(rc, i)) /\ (\E rc, i : t1 = Answer(rc, i))
    <3>1. \A i : \E rc : Validated(i) = Answer(rc, i)
      BY Zenon DEF Validated
    <3>2. \A i, o : \E rc, j : SetFirstSlot(i, req, o) = Answer(rc, j)
      BY Zenon DEF SetFirstSlot
    <3>3. \E rc, i : t0 = Answer(rc, i)
      OBVIOUS
    <3> HIDE DEF t0, t1, t2, t3, a
    <3>4. \E rc, i : t1 = Answer(rc, i)
      <4>1. t1 = t0 \/ t1 = Validated(t0.image)
        BY <2>3
      <4> QED BY <3>1, <3>3, <4>1
    <3>5. \E rc, i : t2 = Answer(rc, i)
      <4>1. t2 = t1 \/ t2 = SetFirstSlot(t1.image, req, a.offset)
        BY <2>4
      <4> QED BY <3>2, <3>4, <4>1
    <3>6. t3 = t2 \/ t3 = Validated(t2.image)
      BY <2>5
    <3>7. \E rc, i : t3 = Answer(rc, i)
      BY <3>1, <3>5, <3>6
    <3> QED BY <3>4, <3>7
  <2> HIDE DEF r, a, t0, t1, t2, t3
  <2>9. r = t3 /\ t3.rc = "OK"
    <3>1. Answer("GENERIC", img).rc # "OK"
      BY AnswerFields
    <3>2. r = IF t3.rc = "OK" THEN t3 ELSE [t3 EXCEPT !.rc = "GENERIC"]
      BY <2>1, <2>6, <3>1, Zenon DEF Mapped
    <3>3. [t3 EXCEPT !.rc = "GENERIC"].rc = "GENERIC"
      BY <2>8, RecodedAnswer, AnswerFields
    <3> QED BY <2>6, <3>2, <3>3
  <2>10. t2.rc = "OK" /\ t3.image = t2.image
    BY <2>5, <2>7, <2>9
  <2>11. t1.rc = "OK" /\ t2 = SetFirstSlot(t1.image, req, a.offset)
    BY <2>4, <2>10
  <2>12. a.rc = "OK" /\ t1.image = a.image
    BY <2>2, <2>3, <2>7, <2>11
  <2>13. r.image = SetFirstSlot(a.image, req, a.offset).image
    BY <2>9, <2>10, <2>11, <2>12
  <2> QED BY <1>2, <2>12, <2>13, StockSet DEF a
<1> QED BY <1>1, <1>2

(* The reference images, in which no ring is.                              *)
LEMMA ImagesStocked ==
  ASSUME NEW img \in Images
  PROVE  Stocked(img)
<1>1. LaidOut(img) /\ RingSections \cap Present(img) = {} /\ Shaped(img)
  BY ImagesAssumption, ScanAssumption, LaidOutIsShaped
<1>2. RINGS \notin Present(img) /\ DCRINGS \notin Present(img) /\ RINGS \in Sections
  BY <1>1, RingAssumption DEF RingSections
<1>3. Contents(img, RINGS) = << >>
  BY <1>1, <1>2, ContentsIs
<1>4. Starts(<< >>) = {}
  BY DEF Starts
<1>5. Tiled(Contents(img, RINGS)) /\ Blocks(img, RINGS) = {}
  BY <1>3, <1>4 DEF Tiled, Blocks
<1>6. ASSUME NEW slot \in RingSlots PROVE AtHome(img, slot)
  <2>1. PICK name \in RingName : \E idx \in 0 .. Elements(name) - 1 : slot = SlotOf[name] + idx
    BY SlotOfRing
  <2>2. PICK idx \in 0 .. Elements(name) - 1 : slot = SlotOf[name] + idx
    BY <2>1
  <2>3. PICK t \in Present(img) : t \notin Dropped /\ InSection(img, t, Cell(slot))
    BY <2>2, BuildAssumption DEF Dropped
  <2>4. t \notin {SLW, FIT, FFDC}
    BY <2>3, BuildAssumption
  <2> QED BY <2>3, <2>4 DEF AtHome, Home, Present
<1> QED BY <1>1, <1>2, <1>5, <1>6 DEF Stocked, Sound, RingsIn

-----------------------------------------------------------------------------
(***************************************************************************)
(* The file of p8_delta_scan_w_centaur, whose runs may overlap: whichever  *)
(* writes last, it is a stock of rings.                                    *)
(***************************************************************************)
RunFields(r) == r = [pc |-> r.pc, request |-> r.request, image |-> r.image]
Stocking(r) ==
    /\ RunFields(r)
    /\ Stocked(r.image) /\ r.request \in CentaurAccepted
    /\ CentaurAddRing(r.image, r.request).rc = "OK"
CentaurFile ==
    /\ file = [image |-> file.image, length |-> file.length] /\ Stocked(file.image)
    /\ DOMAIN writer = Writers /\ \A w \in Writers : writer[w] = Idle \/ Stocking(writer[w])
CentaurInvariant == chip = "centaur" => CentaurFile

LEMMA CentaurStarts == ScanInit => CentaurInvariant
<1> SUFFICES ASSUME ScanInit PROVE CentaurFile
  BY DEF CentaurInvariant
<1>1. PICK img \in Images : file = [image |-> img, length |-> img.size]
  BY DEF ScanInit
<1> QED BY <1>1, ImagesStocked DEF ScanInit, CentaurFile

LEMMA CentaurKeeps == ASSUME CentaurInvariant, [ScanNext]_scanVars PROVE CentaurInvariant'
<1>1. CASE UNCHANGED scanVars
  BY <1>1 DEF scanVars, CentaurInvariant, CentaurFile
<1>2. CASE ScanNext
  <2> SUFFICES ASSUME chip' = "centaur" PROVE CentaurFile'
    BY DEF CentaurInvariant
  <2>1. PICK w \in Writers : CentaurOpen(w) \/ CentaurTruncate(w) \/ CentaurWrite(w) \/ Stopped(w)
                             \/ ((Open(w) \/ WriteAndUnlock(w)) /\ chip = "p8")
    BY <1>2 DEF ScanNext, Open, WriteAndUnlock
  <2>2. chip' = chip
    BY <2>1 DEF CentaurOpen, CentaurTruncate, CentaurWrite, Stopped, Open, WriteAndUnlock
  <2>3. CentaurFile /\ chip = "centaur"
    BY <2>2 DEF CentaurInvariant
  <2>4. Idle.pc = "idle"
    BY DEF Idle
  <2>5. (\A v \in Writers : v # w => writer'[v] = writer[v]) /\ DOMAIN writer' = Writers
        /\ (writer'[w] = Idle \/ Stocking(writer'[w])) =>
           \A v \in Writers : writer'[v] = Idle \/ Stocking(writer'[v])
    BY <2>3 DEF CentaurFile
  <2>6. ASSUME NEW r, writer' = [writer EXCEPT ![w] = r]
        PROVE  (\A v \in Writers : v # w => writer'[v] = writer[v]) /\ DOMAIN writer' = Writers /\ writer'[w] = r
    BY <2>3, <2>6 DEF CentaurFile
  <2>7. CASE CentaurOpen(w)
    <3>1. PICK req \in Requests : /\ CentaurArguments(req) = "OK" /\ CentaurAddRing(file.image, req).rc = "OK"
                                  /\ writer' = [writer EXCEPT ![w] = [pc |-> "open", request |-> req, image |-> file.image]]
                                  /\ UNCHANGED <<chip, file, added>>
      BY <2>7, Zenon DEF CentaurOpen
    <3> DEFINE r == [pc |-> "open", request |-> req, image |-> file.image]
    <3>2. Stocking(r)
      BY <2>3, <3>1 DEF Stocking, RunFields, CentaurAccepted, CentaurFile
    <3> HIDE DEF r
    <3>3. writer' = [writer EXCEPT ![w] = r]
      BY <3>1 DEF r
    <3> QED BY <2>3, <2>5, <2>6, <3>1, <3>2, <3>3 DEF CentaurFile
  <2>8. CASE CentaurTruncate(w)
    <3>1. writer[w].pc = "open" /\ file' = [file EXCEPT !.length = 0] /\ writer' = [writer EXCEPT ![w].pc = "truncated"]
      BY <2>8 DEF CentaurTruncate
    <3>2. Stocking(writer[w])
      BY <2>3, <2>4, <3>1 DEF CentaurFile
    <3> DEFINE r == [writer[w] EXCEPT !.pc = "truncated"]
    <3>3. r = [pc |-> "truncated", request |-> writer[w].request, image |-> writer[w].image]
      BY <3>2 DEF Stocking, RunFields
    <3>4. writer' = [writer EXCEPT ![w] = r]
      BY <3>1
    <3> HIDE DEF r
    <3>5. Stocking(r)
      BY <3>2, <3>3 DEF Stocking, RunFields
    <3>6. file' = [image |-> file.image, length |-> 0]
      BY <2>3, <3>1 DEF CentaurFile
    <3>7. file'.image = file.image /\ file'.length = 0
      BY <3>6
    <3> QED BY <2>3, <2>5, <2>6, <3>4, <3>5, <3>6, <3>7 DEF CentaurFile
  <2>9. CASE CentaurWrite(w)
    <3> DEFINE new == CentaurAddRing(writer[w].image, writer[w].request).image
    <3>1. writer[w].pc = "truncated" /\ file' = [image |-> new, length |-> new.size] /\ writer' = [writer EXCEPT ![w] = Idle]
      BY <2>9 DEF CentaurWrite
    <3>2. Stocking(writer[w])
      BY <2>3, <2>4, <3>1 DEF CentaurFile
    <3>3. Stocked(new)
      BY <3>2, CentaurAdds DEF Stocking
    <3> HIDE DEF new
    <3> QED BY <2>3, <2>5, <2>6, <3>1, <3>3 DEF CentaurFile
  <2>10. CASE Stopped(w)
    <3>1. writer' = [writer EXCEPT ![w] = Idle] /\ file' = file
      BY <2>10 DEF Stopped
    <3> QED BY <2>3, <2>5, <2>6, <3>1 DEF CentaurFile
  <2> QED BY <2>1, <2>3, <2>7, <2>8, <2>9, <2>10
<1> QED BY <1>1, <1>2

(* Between any two steps of the runs of p8_delta_scan_w_centaur the image  *)
(* file holds only whole rings, and each run is building on such a file.   *)
THEOREM CentaurFileInductive == ScanSpec => []CentaurInvariant
BY CentaurStarts, CentaurKeeps, PTL DEF ScanSpec

-----------------------------------------------------------------------------
(***************************************************************************)
(* p8_centaur_build.                                                       *)
(***************************************************************************)
Linked(m, img) == \A slot \in PlainSlots :
    Winner(m, slot) # {} => PointsTo(img, slot, DataFor(m, LastOf(Winner(m, slot))))
LEMMA CentaurBuilt ==
  ASSUME NEW from, Stocked(from), NEW dd, CentaurBuild(from, dd).rc = "OK"
  PROVE  Linked(ProgramsOf(from, dd, 0, CentaurMax), CentaurBuild(from, dd).image)
<1> DEFINE d == DoDelete(from, RINGS)
           t == Delete(from, RINGS)
           r == CentaurBuild(from, dd)
           m == ProgramsOf(from, dd, 0, CentaurMax)
<1>1. r = Then(t, LAMBDA i : Programs(i, from, dd, 0, CentaurMax))
  BY DEF CentaurBuild
<1>2. (\E rc : t = Answer(rc, d.image)) /\ (t.rc = "OK" => d.rc = "OK")
  BY DeleteIs
<1>3. Sound(from) /\ Shaped(from) /\ RINGS \in Sections
  BY RingAssumption DEF Stocked, Sound
<1>4. /\ Shaped(d.image) /\ d.image.mem = from.mem
      /\ \A s \in Sections \ {RINGS} : d.image.section[s] = from.section[s]
      /\ d.rc = "OK" => RINGS \notin Present(d.image)
  BY <1>3, DeleteOutcome
<1>5. r.rc = "OK"
  OBVIOUS
<1> HIDE DEF r, t, d
<1>6. r = IF t.rc = "OK" THEN Programs(t.image, from, dd, 0, CentaurMax) ELSE t
  BY <1>1, Zenon DEF Then
<1>7. t.rc = "OK" /\ r = Programs(t.image, from, dd, 0, CentaurMax) /\ t.image = d.image
  BY <1>2, <1>5, <1>6, AnswerFields
<1>8. Sound(t.image)
  BY <1>2, <1>3, <1>4, <1>7, NoRingsSound
<1>9. m.copy = FALSE /\ m.from = from /\ m.s = RINGS /\ m.max = CentaurMax
  BY DEF ProgramsOf
<1>10. Sourced(m, RingSlots)
  <2>1. Source(from, RINGS) /\ RingsIn(from, RINGS, RingSlots)
    BY <1>3 DEF Source, RingSections, Stocked, Sound
  <2>2. CentaurMax \in Int /\ CentaurMax <= BufferSize
    BY BuildAssumption, XipAssumption
  <2> HIDE DEF m
  <2> QED BY <1>9, <2>1, <2>2 DEF Sourced
<1>11. Collected(m, RingSlots, t.image, r)
  BY <1>7, <1>8, <1>10, ProgramsCollect
<1> HIDE DEF m
<1>12. SlotsTurned(m, MatchesIn(m.from, RINGS, m.dd, m.phase), t.image, r.image)
  BY <1>5, <1>9, <1>11 DEF Collected
<1>13. ASSUME NEW slot \in PlainSlots, Winner(m, slot) # {}
       PROVE  PointsTo(r.image, slot, DataFor(m, LastOf(Winner(m, slot))))
  <2>1. slot \in RingSlots
    BY SlotKinds
  <2> QED BY <1>12, <1>13, <2>1 DEF SlotsTurned, SlotTurned, Winner
<1> QED BY <1>13 DEF Linked, r, m

(* The invariant of a built Centaur image.                                 *)
CentaurPrograms == ProgramsOf(ref, build.dd, 0, CentaurMax)
CentaurLinked == build.kind = "centaur" => Linked(CentaurPrograms, image)

LEMMA CentaurLinks ==
  ASSUME CentaurInvariant, BuildInvariant, CentaurLinked, BuildNext, ~ UNCHANGED buildVars
  PROVE  CentaurLinked'
<1>1. CASE Build
  <2>1. PICK dd \in DdLevels, kind \in {"ipl", "centaur", "slw"} :
           /\ (kind = "centaur" <=> chip = "centaur") /\ Built(kind, dd).rc = "OK"
           /\ image' = Built(kind, dd).image /\ ref' = file.image
           /\ build' = [kind |-> kind, dd |-> dd, vpd |-> 0, ready |-> FALSE]
    BY <1>1, Zenon DEF Build
  <2>2. build'.kind = kind /\ build'.dd = dd
    BY <2>1
  <2>3. ASSUME kind = "centaur" PROVE Linked(ProgramsOf(file.image, dd, 0, CentaurMax), image')
    <3>1. Stocked(file.image)
      BY <2>1, <2>3 DEF CentaurInvariant, CentaurFile
    <3>2. Built("centaur", dd) = CentaurBuild(file.image, dd)
      BY DEF Built
    <3> QED BY <2>1, <2>3, <3>1, <3>2, CentaurBuilt
  <2> QED BY <2>1, <2>2, <2>3 DEF CentaurLinked, CentaurPrograms
<1>2. CASE AddVpdIpl \/ AddVpdSlw \/ Fix \/ InitSlw \/ UpdateRuntimeScom \/ FillRam \/ FillScom
  <2>1. BuildFields(build) /\ build.kind \in {"ipl", "slw", "fixed", "sram"}
    <3>1. BuildFields(build)
      BY DEF BuildInvariant
    <3>2. FillRam \/ FillScom => build.kind \in {"fixed", "sram"}
      BY FillingHolds DEF FillRam, FillScom
    <3> QED BY <1>2, <3>1, <3>2 DEF AddVpdIpl, AddVpdSlw, Fix, InitSlw, UpdateRuntimeScom
  <2>2. \/ \E v : build' = [build EXCEPT !.vpd = v]
        \/ \E k \in {"fixed", "sram", "failed"} : build' = [build EXCEPT !.kind = k]
        \/ build' = [build EXCEPT !.ready = TRUE]
        \/ build' = build
    BY <1>2 DEF AddVpdIpl, AddVpdSlw, Fix, InitSlw, UpdateRuntimeScom, FillRam, FillScom
  <2>3. build'.kind \in {"ipl", "slw", "fixed", "sram", "failed"}
    BY <2>1, <2>2 DEF BuildFields
  <2> QED BY <2>3 DEF CentaurLinked
<1> QED BY <1>1, <1>2 DEF BuildNext

(* Whatever runs of p8_delta_scan_w_centaur overlap, in a built Centaur    *)
(* image the slot of each selected ring leads to the program of the last.  *)
THEOREM CentaurInductive == BuildSpec => []CentaurLinked
<1>1. BuildInit => CentaurLinked
  BY DEF BuildInit, NoBuild, CentaurLinked
<1>2. CentaurInvariant /\ BuildInvariant /\ CentaurLinked /\ [BuildNext]_<<scanVars, buildVars>> => CentaurLinked'
  <2> SUFFICES ASSUME CentaurInvariant, BuildInvariant, CentaurLinked, [BuildNext]_<<scanVars, buildVars>>
               PROVE  CentaurLinked'
    OBVIOUS
  <2>1. CASE UNCHANGED buildVars
    BY <2>1 DEF buildVars, CentaurLinked, CentaurPrograms
  <2>2. CASE BuildNext /\ ~ UNCHANGED buildVars
    BY <2>2, CentaurLinks
  <2> QED BY <2>1, <2>2
<1> QED BY <1>1, <1>2, BuildImplementsScan, CentaurFileInductive, BuildInductive, PTL DEF BuildSpec

(* What the two invariants say of a slot.                                  *)
WinsIn(kind, from, img, slot, all) ==
    LET last == CHOOSE at \in all : \A b \in all : b <= at
    IN  IF all = {} THEN kind # "centaur" => Pointer(img, slot) = 0
        ELSE /\ Pointer(img, slot) - LinkAddress \in Blocks(img, RINGS)
             /\ DataAt(img, Pointer(img, slot) - LinkAddress)
                   = IF kind = "ipl" THEN DataAt(from, last) ELSE Program[DataAt(from, last)]
LEMMA WinnerIs ==
  ASSUME NEW m, NEW img, NEW slot, NEW kind, NEW from, NEW all,
         m.from = from, m.copy = (kind = "ipl"), all = Winner(m, slot),
         all = {} /\ kind # "centaur" => Pointer(img, slot) = 0,
         all # {} => PointsTo(img, slot, DataFor(m, LastOf(all)))
  PROVE  WinsIn(kind, from, img, slot, all)
BY DEF WinsIn, PointsTo, DataFor, LastOf

(* In a built image each slot that is not of the VPD leads to the ring     *)
(* that was added last for it and the level and phase of the image, and in *)
(* a P8 image it is zero when there is none.                               *)
THEOREM TheLastRingWins == BuildSpec => []LastRingWins
<1>1. RingInvariant /\ CentaurLinked => LastRingWins
  <2> SUFFICES ASSUME RingInvariant, CentaurLinked, build.kind \in {"ipl", "slw", "fixed", "sram", "centaur"},
                      NEW slot \in PlainSlots
               PROVE  WinsIn(build.kind, ref, image, slot, Chosen(slot))
    BY Zenon DEF LastRingWins, WinsIn, PlainSlots
  <2> DEFINE phase == IF build.kind \in {"ipl", "centaur"} THEN 0 ELSE 1
  <2>1. ASSUME NEW m, m.from = ref, m.dd = build.dd, m.phase = phase PROVE Chosen(slot) = Winner(m, slot)
    BY <2>1 DEF Chosen, Winner, Toward, MatchesIn
  <2>2. CASE build.kind = "ipl"
    <3> DEFINE m == CopiesOf(ref, build.dd, 0, RINGS)
    <3>1. m.from = ref /\ m.dd = build.dd /\ m.phase = 0 /\ m.copy = TRUE
      BY DEF CopiesOf
    <3>2. RingsWin(m, image)
      BY <2>2 DEF RingInvariant, RingsHeld
    <3> HIDE DEF m
    <3>3. Chosen(slot) = Winner(m, slot)
      BY <2>1, <2>2, <3>1
    <3> QED BY <2>2, <3>1, <3>2, <3>3, WinnerIs DEF RingsWin
  <2>3. CASE build.kind \in {"slw", "fixed", "sram"}
    <3> DEFINE m == ProgramsOf(ref, build.dd, 1, FixedSize)
    <3>1. m.from = ref /\ m.dd = build.dd /\ m.phase = 1 /\ m.copy = FALSE
      BY DEF ProgramsOf
    <3>2. RingsWin(m, image)
      BY <2>3 DEF RingInvariant, RingsHeld, TabledRings, Compiled
    <3> HIDE DEF m
    <3>3. Chosen(slot) = Winner(m, slot)
      BY <2>1, <2>3, <3>1
    <3> QED BY <2>3, <3>1, <3>2, <3>3, WinnerIs DEF RingsWin
  <2>4. CASE build.kind = "centaur"
    <3> DEFINE m == ProgramsOf(ref, build.dd, 0, CentaurMax)
    <3>1. m.from = ref /\ m.dd = build.dd /\ m.phase = 0 /\ m.copy = FALSE
      BY DEF ProgramsOf
    <3>2. Linked(m, image)
      BY <2>4 DEF CentaurLinked, CentaurPrograms
    <3> HIDE DEF m
    <3>3. Chosen(slot) = Winner(m, slot)
      BY <2>1, <2>4, <3>1
    <3> QED BY <2>4, <3>1, <3>2, <3>3, WinnerIs DEF Linked
  <2> QED BY <2>2, <2>3, <2>4
<1> QED BY <1>1, RingsInductive, CentaurInductive, PTL
=============================================================================
