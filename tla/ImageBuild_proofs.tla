-------------------------- MODULE ImageBuild_proofs --------------------------
(***************************************************************************)
(* The SLW image, for every chip, reference image, VPD ring and call: the  *)
(* tables of what a core is to restore are where the firmware looks for    *)
(* them, and hold what the calls have asked for.                           *)
(***************************************************************************)
EXTENDS ImageBuild, DeltaScan_proofs, FiniteSetTheorems

(***************************************************************************)
(* A build reads the reference image's file and leaves it as it is.        *)
(***************************************************************************)
LEMMA BuildLeavesFile == BuildNext => [ScanNext]_scanVars
<1> USE DEF scanVars
<1>1. CASE build = NoBuild /\ ScanNext /\ UNCHANGED buildVars
  BY <1>1
<1>2. CASE Build
  BY <1>2 DEF Build
<1>3. CASE AddVpdIpl \/ AddVpdSlw
  BY <1>3 DEF AddVpdIpl, AddVpdSlw, VpdCode
<1>4. CASE Fix \/ InitSlw
  BY <1>4 DEF Fix, InitSlw, VpdCode
<1>5. CASE UpdateRuntimeScom
  BY <1>5 DEF UpdateRuntimeScom, VpdCode
<1>6. CASE FillRam \/ FillScom
  BY <1>6 DEF FillRam, FillScom
<1> QED BY <1>1, <1>2, <1>3, <1>4, <1>5, <1>6 DEF BuildNext

(* To the file, building images is what runs of p8_delta_scan_w and of its *)
(* Centaur form do: p8_ipl_build and the others only read it.              *)
THEOREM BuildImplementsScan == BuildSpec => ScanSpec
<1>1. BuildInit => ScanInit
  BY DEF BuildInit
<1>2. UNCHANGED <<scanVars, buildVars>> => UNCHANGED scanVars
  OBVIOUS
<1> QED BY <1>1, <1>2, BuildLeavesFile, PTL DEF BuildSpec, ScanSpec

(* While images are built too, no ring written to the file is lost, and    *)
(* p8_delta_scan_r reads back what p8_delta_scan_w was given.              *)
THEOREM BuildKeepsRings == BuildSpec => [](NoRingLost /\ ReadsBack)
BY BuildImplementsScan, RingsAreKept, RingsReadBack, PTL

-----------------------------------------------------------------------------
(***************************************************************************)
(* Where the tables are in .slw.                                           *)
(***************************************************************************)
LEMMA ProductSteps ==
  ASSUME NEW s \in Nat, NEW c \in Nat, NEW d \in Nat, c < d
  PROVE  s * c \in Nat /\ s * d \in Nat /\ s * c + s <= s * d
<1>1. PICK e \in Nat : d = c + 1 + e
  <2>1. d - c - 1 \in Nat /\ d = c + 1 + (d - c - 1)
    OBVIOUS
  <2> QED BY <2>1
<1>2. s * e \in Nat /\ s * c \in Nat
  OBVIOUS
<1>3. s * (c + 1 + e) = s * c + s + s * e
  OBVIOUS
<1> QED BY <1>1, <1>2, <1>3

(* The numbers of entries a table has.                                     *)
LEMMA SpaceTypes ==
  /\ RamSpace = RamOps /\ RamOps \in Nat \ {0} /\ Cores \in Nat \ {0}
  /\ \A part \in Parts : ScomOps[part] \in Nat /\ ScomSpace(part) = ScomOps[part] + 1
BY SlwAssumption DEF RamSpace, ScomSpace

(* The parts of the SCOM tables follow the RAM tables one after the other. *)
LEMMA PartStarts ==
  /\ PartStart(1) = Cores * RamOps /\ PartStart(1) \in Nat
  /\ PartStart(2) = PartStart(1) + Cores * ScomSpace(1) /\ PartStart(2) \in Nat
  /\ PartStart(3) = PartStart(2) + Cores * ScomSpace(2) /\ PartStart(3) \in Nat
  /\ TableSize = PartStart(3) + Cores * ScomSpace(3) /\ TableSize \in Nat
<1> DEFINE a == ScomSpace(1)
           b == ScomSpace(2)
           d == ScomSpace(3)
<1>1. a \in Nat /\ b \in Nat /\ d \in Nat /\ RamOps \in Nat /\ Cores \in Nat /\ RamSpace = RamOps
  BY SpaceTypes DEF Parts
<1>2. /\ PartStart(1) = Cores * (RamOps + 0 + 0)
      /\ PartStart(2) = Cores * (RamOps + a + 0)
      /\ PartStart(3) = Cores * (RamOps + a + b)
  BY <1>1 DEF PartStart
<1>3. TableSize = PartStart(3) + Cores * d
  BY DEF TableSize
<1> HIDE DEF a, b, d
<1>4. /\ Cores * (RamOps + 0 + 0) = Cores * RamOps
      /\ Cores * (RamOps + a + 0) = Cores * RamOps + Cores * a
      /\ Cores * (RamOps + a + b) = Cores * RamOps + Cores * a + Cores * b
  BY <1>1
<1>5. Cores * RamOps \in Nat /\ Cores * a \in Nat /\ Cores * b \in Nat /\ Cores * d \in Nat
  BY <1>1
<1>6. /\ PartStart(1) = Cores * RamOps
      /\ PartStart(2) = PartStart(1) + Cores * a
      /\ PartStart(3) = PartStart(2) + Cores * b
  BY <1>2, <1>4, <1>5
<1> QED BY <1>3, <1>5, <1>6 DEF a, b, d

(* .slw has room for its tables.                                           *)
LEMMA SlwSizeBounds == SlwSize \in Nat /\ TableSize <= SlwSize
BY PartStarts, AlignBounds, SlwAssumption DEF SlwSize

(* The RAM tables lie before the SCOM tables, and all in the section.      *)
LEMMA TableBounds ==
  ASSUME NEW core \in CoreIds
  PROVE  /\ core \in Nat /\ RamTable(core) \in Nat /\ RamTable(core) + RamOps <= PartStart(1)
         /\ PartStart(1) <= TableSize
         /\ \A part \in Parts : /\ ScomTable(core, part) \in Nat /\ PartStart(1) <= ScomTable(core, part)
                                /\ ScomTable(core, part) + ScomSpace(part) <= TableSize
<1>1. core \in Nat /\ core < Cores /\ Cores \in Nat
  BY SpaceTypes DEF CoreIds
<1>2. RamOps * core \in Nat /\ RamOps * core + RamOps <= RamOps * Cores
  BY <1>1, SpaceTypes, ProductSteps
<1>3. RamOps * Cores = Cores * RamOps
  BY SpaceTypes
<1>4. PartStart(1) <= PartStart(2) /\ PartStart(2) <= PartStart(3) /\ PartStart(3) <= TableSize
  <2>1. ASSUME NEW part \in Parts PROVE Cores * ScomSpace(part) \in Nat
    <3>1. ScomSpace(part) \in Nat
      BY SpaceTypes
    <3> QED BY <1>1, <3>1
  <2>2. Cores * ScomSpace(1) \in Nat /\ Cores * ScomSpace(2) \in Nat /\ Cores * ScomSpace(3) \in Nat
    BY <2>1 DEF Parts
  <2> QED BY <2>2, PartStarts
<1>5. ASSUME NEW part \in Parts
      PROVE  /\ ScomTable(core, part) \in Nat /\ PartStart(1) <= ScomTable(core, part)
             /\ ScomTable(core, part) + ScomSpace(part) <= TableSize
  <2> DEFINE s == ScomSpace(part)
  <2>1. s \in Nat
    BY SpaceTypes
  <2>2. s * core \in Nat /\ s * core + s <= s * Cores
    BY <1>1, <2>1, ProductSteps
  <2>3. s * Cores = Cores * s
    BY <1>1, <2>1
  <2>4. PartStart(part) \in Nat /\ PartStart(1) <= PartStart(part) /\ PartStart(part) + Cores * s <= TableSize
    BY <1>4, PartStarts DEF Parts
  <2>5. ScomTable(core, part) = PartStart(part) + s * core
    BY DEF ScomTable
  <2>6. Cores * s \in Nat
    BY <1>1, <2>1
  <2> HIDE DEF s
  <2>7. ScomTable(core, part) + s <= TableSize
    BY <2>1, <2>2, <2>3, <2>4, <2>5, <2>6, PartStarts
  <2> QED BY <2>2, <2>4, <2>5, <2>7, PartStarts DEF s
<1>6. RamTable(core) = RamOps * core
  BY SpaceTypes DEF RamTable
<1> QED BY <1>1, <1>2, <1>3, <1>4, <1>5, <1>6, PartStarts

(* No two tables share an entry.                                           *)
LEMMA RamTablesApart ==
  ASSUME NEW c \in CoreIds, NEW d \in CoreIds, c # d
  PROVE  RamTable(c) + RamOps <= RamTable(d) \/ RamTable(d) + RamOps <= RamTable(c)
<1>1. c \in Nat /\ d \in Nat /\ (c < d \/ d < c)
  BY SpaceTypes DEF CoreIds
<1>2. RamTable(c) = RamOps * c /\ RamTable(d) = RamOps * d
  BY SpaceTypes DEF RamTable
<1> QED BY <1>1, <1>2, SpaceTypes, ProductSteps

(* No two SCOM tables share a cell.                                        *)
LEMMA ScomTablesApart ==
  ASSUME NEW c \in CoreIds, NEW d \in CoreIds, NEW p \in Parts, NEW q \in Parts, c # d \/ p # q
  PROVE  \/ ScomTable(c, p) + ScomSpace(p) <= ScomTable(d, q)
         \/ ScomTable(d, q) + ScomSpace(q) <= ScomTable(c, p)
<1>1. c \in Nat /\ d \in Nat /\ (c = d \/ c < d \/ d < c) /\ c < Cores /\ d < Cores /\ Cores \in Nat
  BY SpaceTypes DEF CoreIds
<1>2. /\ ScomTable(c, p) = PartStart(p) + ScomSpace(p) * c
      /\ ScomTable(d, q) = PartStart(q) + ScomSpace(q) * d
  BY DEF ScomTable
<1>3. ScomSpace(p) \in Nat /\ ScomSpace(q) \in Nat /\ PartStart(p) \in Nat /\ PartStart(q) \in Nat
  BY SpaceTypes, PartStarts DEF Parts
<1>4. CASE p = q
  <2> DEFINE s == ScomSpace(p)
             o == PartStart(p)
  <2>1. c < d \/ d < c
    BY <1>1, <1>4
  <2>2. s \in Nat /\ o \in Nat
    BY <1>3
  <2>3. ScomTable(c, p) = o + s * c /\ ScomTable(d, q) = o + s * d
    BY <1>2, <1>4
  <2>4. \/ s * c + s <= s * d /\ s * c \in Nat /\ s * d \in Nat
        \/ s * d + s <= s * c /\ s * c \in Nat /\ s * d \in Nat
    BY <1>1, <2>1, <2>2, ProductSteps
  <2>5. ScomSpace(q) = s
    BY <1>4
  <2> HIDE DEF s, o
  <2>6. o + s * c + s <= o + s * d \/ o + s * d + s <= o + s * c
    BY <2>2, <2>4
  <2> QED BY <2>3, <2>5, <2>6 DEF s
<1>5. ASSUME NEW e \in CoreIds, NEW f \in CoreIds, NEW u \in Parts, NEW v \in Parts, u < v
      PROVE  ScomTable(e, u) + ScomSpace(u) <= ScomTable(f, v)
  <2> DEFINE s == ScomSpace(u)
             w == ScomSpace(v)
  <2>1. e \in Nat /\ f \in Nat /\ e < Cores /\ Cores \in Nat
    BY SpaceTypes DEF CoreIds
  <2>2. s \in Nat /\ w \in Nat
    BY SpaceTypes
  <2>3. s * e \in Nat /\ s * e + s <= s * Cores /\ s * Cores = Cores * s /\ w * f \in Nat /\ Cores * s \in Nat
    BY <2>1, <2>2, ProductSteps
  <2>4. PartStart(u) \in Nat /\ PartStart(v) \in Nat /\ PartStart(u) + Cores * s <= PartStart(v)
    <3>1. /\ Cores * ScomSpace(1) \in Nat /\ Cores * ScomSpace(2) \in Nat
      <4>1. ScomSpace(1) \in Nat /\ ScomSpace(2) \in Nat
        BY SpaceTypes DEF Parts
      <4> QED BY <2>1, <4>1
    <3>2. (u = 1 /\ v = 2) \/ (u = 1 /\ v = 3) \/ (u = 2 /\ v = 3)
      BY <1>5 DEF Parts
    <3> QED BY <3>1, <3>2, PartStarts
  <2>5. ScomTable(e, u) = PartStart(u) + s * e /\ ScomTable(f, v) = PartStart(v) + w * f
    BY DEF ScomTable
  <2> HIDE DEF s, w
  <2>6. PartStart(u) + s * e + s <= PartStart(v) + w * f
    BY <2>2, <2>3, <2>4
  <2> QED BY <2>5, <2>6 DEF s
<1>6. CASE p # q
  <2>1. p < q \/ q < p
    BY <1>6 DEF Parts
  <2> QED BY <1>5, <2>1
<1> QED BY <1>4, <1>6

-----------------------------------------------------------------------------
(***************************************************************************)
(* The layout of an image whose memory holds whatever it may: programs and *)
(* entries of the tables are no cells of the reference image.  What a call *)
(* does to the sections does not depend on them.                           *)
(***************************************************************************)
Fields(img, mem) ==
    [mem |-> mem, size |-> img.size, magic |-> img.magic, section |-> img.section,
     normalized |-> img.normalized, tocSorted |-> img.tocSorted]
Flat(img) == Fields(img, [a \in 0 .. BufferSize - 1 |-> Zero])
MemoryOf(mem) == mem = [a \in 0 .. BufferSize - 1 |-> mem[a]]
Shaped(img) == img = Fields(img, img.mem) /\ MemoryOf(img.mem) /\ LaidOut(Flat(img))

(* A flat image has the layout of the image.                               *)
LEMMA FlatFacts ==
  ASSUME NEW img, Shaped(img)
  PROVE  /\ Flat(img) \in Image /\ Flat(img).section = img.section /\ Flat(img).size = img.size
         /\ Flat(img).magic = img.magic /\ Flat(img).normalized = img.normalized
         /\ Flat(img).tocSorted = img.tocSorted
         /\ Present(Flat(img)) = Present(img) /\ \A s : Final(Flat(img), s) <=> Final(img, s)
<1>1. Flat(img) \in Image
  BY DEF Shaped, LaidOut
<1>2. /\ Flat(img).section = img.section /\ Flat(img).size = img.size
      /\ Flat(img).magic = img.magic /\ Flat(img).normalized = img.normalized
      /\ Flat(img).tocSorted = img.tocSorted
  BY DEF Flat, Fields
<1>3. Present(Flat(img)) = Present(img)
  BY <1>2 DEF Present
<1>4. \A s : Final(Flat(img), s) <=> Final(img, s)
  BY <1>2, <1>3 DEF Final
<1> QED BY <1>1, <1>2, <1>3, <1>4

(* The types of what an image of this kind has, and its bounds.            *)
LEMMA ShapedTypes ==
  ASSUME NEW img, Shaped(img)
  PROVE  /\ img.size \in Nat /\ img.size <= BufferSize /\ BufferSize \in Nat
         /\ img.magic \in BOOLEAN /\ img.normalized \in BOOLEAN /\ img.tocSorted \in BOOLEAN
         /\ img.section \in [Sections -> SectionEntry]
         /\ \A s \in Sections : /\ img.section[s].offset \in Nat /\ img.section[s].size \in Nat
                                /\ img.section[s].alignment \in Nat \ {0}
                                /\ End(img.section[s]) = img.section[s].offset + img.section[s].size
                                /\ End(img.section[s]) \in Nat
                                /\ s \in Present(img) <=> img.section[s].size # 0
                                /\ s \in Present(img) => End(img.section[s]) <= img.size
<1> DEFINE f == Flat(img)
<1>1. /\ f \in Image /\ LaidOut(f) /\ f.section = img.section /\ f.size = img.size
      /\ f.magic = img.magic /\ f.normalized = img.normalized /\ f.tocSorted = img.tocSorted
      /\ Present(f) = Present(img)
  BY FlatFacts DEF Shaped
<1> HIDE DEF f
<1>2. /\ img.size \in Nat /\ img.magic \in BOOLEAN /\ img.normalized \in BOOLEAN /\ img.tocSorted \in BOOLEAN
      /\ img.section \in [Sections -> SectionEntry] /\ BufferSize \in Nat /\ img.size <= BufferSize
  BY <1>1, ImageType, XipAssumption DEF LaidOut, DisjointIn
<1>3. ASSUME NEW s \in Sections
      PROVE  /\ img.section[s].offset \in Nat /\ img.section[s].size \in Nat
             /\ img.section[s].alignment \in Nat \ {0}
             /\ End(img.section[s]) = img.section[s].offset + img.section[s].size
             /\ End(img.section[s]) \in Nat
             /\ s \in Present(img) <=> img.section[s].size # 0
             /\ s \in Present(img) => End(img.section[s]) <= img.size
  BY <1>1, SectionType DEF LaidOut, DisjointIn, WithinImage
<1> QED BY <1>2, <1>3

(* Memory that is replaced keeps the layout.                               *)
LEMMA ShapedMemory ==
  ASSUME NEW img, Shaped(img), NEW mem, MemoryOf(mem)
  PROVE  LET r == [img EXCEPT !.mem = mem]
         IN  /\ Shaped(r) /\ r.mem = mem /\ r.size = img.size /\ r.section = img.section
             /\ r.magic = img.magic /\ r.normalized = img.normalized /\ Present(r) = Present(img)
<1> DEFINE r == [img EXCEPT !.mem = mem]
<1>1. r = Fields(img, mem)
  BY DEF Shaped, Fields
<1>2. /\ r.mem = mem /\ r.size = img.size /\ r.section = img.section /\ r.magic = img.magic
      /\ r.normalized = img.normalized /\ r.tocSorted = img.tocSorted
  BY <1>1 DEF Fields
<1>3. r = Fields(r, r.mem)
  BY <1>1, <1>2 DEF Fields
<1> HIDE DEF r
<1>4. Flat(r) = Flat(img)
  BY <1>2 DEF Flat, Fields
<1> QED BY <1>2, <1>3, <1>4 DEF Shaped, Present, r

(* An image of the type has its shape.                                     *)
LEMMA LaidOutIsShaped ==
  ASSUME NEW img, LaidOut(img)
  PROVE  Shaped(img)
<1> DEFINE zero == [a \in 0 .. BufferSize - 1 |-> Zero]
           r == [img EXCEPT !.mem = zero]
<1>1. img \in Image /\ DisjointIn(img) /\ img.size % FinalAlignment = 0
  BY DEF LaidOut
<1>2. zero \in [0 .. BufferSize - 1 -> Cells]
  BY XipAssumption
<1>3. /\ img = [mem |-> img.mem, size |-> img.size, magic |-> img.magic, section |-> img.section,
                normalized |-> img.normalized, tocSorted |-> img.tocSorted]
      /\ img.mem \in [0 .. BufferSize - 1 -> Cells]
  BY <1>1, ImageType
<1>4. r = Fields(img, zero)
  <2>1. img = Fields(img, img.mem)
    BY <1>3 DEF Fields
  <2>2. ASSUME NEW mem PROVE [img EXCEPT !.mem = mem] = Fields(img, mem)
    BY <2>1 DEF Fields
  <2> QED BY <2>2
<1>5. img = Fields(img, img.mem) /\ MemoryOf(img.mem)
  BY <1>3 DEF Fields, MemoryOf
<1>6. Flat(img) = r
  BY <1>4 DEF Flat
<1>7. r = [img EXCEPT !.mem = zero]
  OBVIOUS
<1> HIDE DEF r, zero
<1>8. r \in Image /\ (DisjointIn(img) => DisjointIn(r)) /\ r.size = img.size
  BY <1>1, <1>2, <1>7, MemoryReplaced
<1> QED BY <1>1, <1>5, <1>6, <1>8 DEF Shaped, LaidOut

(* Data laid over memory is there, and nowhere before.                     *)
LEMMA LaidOver ==
  ASSUME NEW mem, MemoryOf(mem), NEW at \in Nat, NEW X, NEW data \in Seq(X)
  PROVE  /\ MemoryOf(Overlay(mem, at, data))
         /\ \A i \in 0 .. BufferSize - 1 : i < at => Overlay(mem, at, data)[i] = mem[i]
         /\ \A k \in 1 .. Len(data) : at + k - 1 < BufferSize => Overlay(mem, at, data)[at + k - 1] = data[k]
<1>1. DOMAIN mem = 0 .. BufferSize - 1 /\ BufferSize \in Nat /\ Len(data) \in Nat
  BY XipAssumption DEF MemoryOf
<1>2. Overlay(mem, at, data) = [i \in 0 .. BufferSize - 1 |->
          IF i \in at .. at + Len(data) - 1 THEN data[i - at + 1] ELSE mem[i]]
  BY <1>1 DEF Overlay
<1>3. MemoryOf(Overlay(mem, at, data))
  BY <1>2 DEF MemoryOf
<1>4. ASSUME NEW k \in 1 .. Len(data), at + k - 1 < BufferSize
      PROVE  Overlay(mem, at, data)[at + k - 1] = data[k]
  <2>1. at + k - 1 \in 0 .. BufferSize - 1 /\ at + k - 1 \in at .. at + Len(data) - 1 /\ (at + k - 1) - at + 1 = k
    BY <1>1, <1>4
  <2> QED BY <1>2, <2>1
<1> QED BY <1>1, <1>2, <1>3, <1>4

(* One cell laid over memory.                                              *)
LEMMA OneLaidOver ==
  ASSUME NEW mem, MemoryOf(mem), NEW at \in Nat, NEW x
  PROVE  /\ MemoryOf(Overlay(mem, at, <<x>>))
         /\ \A i \in 0 .. BufferSize - 1 : i # at => Overlay(mem, at, <<x>>)[i] = mem[i]
<1>1. DOMAIN mem = 0 .. BufferSize - 1 /\ BufferSize \in Nat /\ Len(<<x>>) = 1
  BY XipAssumption DEF MemoryOf
<1>2. Overlay(mem, at, <<x>>) = [i \in 0 .. BufferSize - 1 |->
          IF i \in at .. at + Len(<<x>>) - 1 THEN <<x>>[i - at + 1] ELSE mem[i]]
  BY <1>1 DEF Overlay
<1>3. MemoryOf(Overlay(mem, at, <<x>>))
  BY <1>2 DEF MemoryOf
<1>4. ASSUME NEW i \in 0 .. BufferSize - 1, i # at
      PROVE  Overlay(mem, at, <<x>>)[i] = mem[i]
  <2>1. i \notin at .. at + Len(<<x>>) - 1
    BY <1>1, <1>4
  <2> QED BY <1>2, <2>1
<1> QED BY <1>3, <1>4

(* What alignment adds.                                                    *)
LEMMA Padding ==
  ASSUME NEW img, Shaped(img), NEW s \in Sections, NEW allocation
  PROVE  /\ MemoryOf(Padded(img, s, allocation))
         /\ \A i \in 0 .. BufferSize - 1 : i < img.size => Padded(img, s, allocation)[i] = img.mem[i]
         /\ s \in Present(img) => Padded(img, s, allocation) = img.mem
<1>1. DOMAIN img.mem = 0 .. BufferSize - 1 /\ BufferSize \in Nat /\ img.size \in Nat
  BY ShapedTypes, XipAssumption DEF Shaped, MemoryOf
<1>2. \/ Padded(img, s, allocation) = img.mem
      \/ s \notin Present(img) /\ Padded(img, s, allocation) = [i \in 0 .. BufferSize - 1 |->
            IF i \in img.size .. AppendStart(img, s) - 1 THEN Zero ELSE img.mem[i]]
  BY <1>1 DEF Padded, Clear
<1>3. CASE Padded(img, s, allocation) = img.mem
  BY <1>3 DEF Shaped
<1>4. CASE s \notin Present(img) /\ Padded(img, s, allocation) = [i \in 0 .. BufferSize - 1 |->
            IF i \in img.size .. AppendStart(img, s) - 1 THEN Zero ELSE img.mem[i]]
  BY <1>1, <1>4 DEF MemoryOf
<1> QED BY <1>2, <1>3, <1>4

(* Where appended data starts: after all that is there.                    *)
LEMMA ShapedStart ==
  ASSUME NEW img, Shaped(img), NEW s \in Sections, s \in Present(img) => Final(img, s)
  PROVE  /\ AppendStart(img, s) \in Nat /\ AppendStart(Flat(img), s) = AppendStart(img, s)
         /\ \A t \in Present(img) : End(img.section[t]) <= AppendStart(img, s)
         /\ s \in Present(img) => AppendStart(img, s) = End(img.section[s])
         /\ s \notin Present(img) => img.size <= AppendStart(img, s)
<1> DEFINE f == Flat(img)
<1>1. /\ LaidOut(f) /\ f.section = img.section /\ f.size = img.size /\ Present(f) = Present(img)
      /\ (Final(f, s) <=> Final(img, s))
  BY FlatFacts DEF Shaped
<1>2. AppendStart(f, s) = AppendStart(img, s)
  BY <1>1 DEF AppendStart
<1> HIDE DEF f
<1> QED BY <1>1, <1>2, StartBounds DEF f

(* What an append does to the fields of an image.                          *)
Longer(w, s, data) ==
    [w.section EXCEPT ![s] =
        [offset |-> IF s \in Present(w) THEN w.section[s].offset ELSE AppendStart(w, s),
         size |-> w.section[s].size + Len(data), alignment |-> w.section[s].alignment]]
StillSorted(w, s) == w.tocSorted /\ s # TOC

LEMMA ExtendedRecord ==
  ASSUME NEW w, w = Fields(w, w.mem), NEW s, NEW data, NEW r, r = Extended(w, s, data)
  PROVE  /\ r = Fields(r, w.mem) /\ r.mem = w.mem /\ r.magic = w.magic /\ r.normalized = w.normalized
         /\ r.size = Align(AppendStart(w, s) + Len(data), FinalAlignment)
         /\ r.section = Longer(w, s, data) /\ r.tocSorted = StillSorted(w, s)
<1> DEFINE n == Align(AppendStart(w, s) + Len(data), FinalAlignment)
<1>1. r = [w EXCEPT !.size = n, !.section = Longer(w, s, data), !.tocSorted = StillSorted(w, s)]
  BY DEF Extended, Longer, StillSorted
<1> HIDE DEF n
<1>2. r = [mem |-> w.mem, size |-> n, magic |-> w.magic, section |-> Longer(w, s, data),
           normalized |-> w.normalized, tocSorted |-> StillSorted(w, s)]
  BY <1>1 DEF Fields
<1>3. /\ r.mem = w.mem /\ r.magic = w.magic /\ r.normalized = w.normalized /\ r.size = n
      /\ r.section = Longer(w, s, data) /\ r.tocSorted = StillSorted(w, s)
  BY <1>2
<1>4. r = Fields(r, w.mem)
  BY <1>2, <1>3 DEF Fields
<1> QED BY <1>3, <1>4 DEF n

(* What an append leaves, whatever it answers: the memory of the sections  *)
(* there are, and their entries; data that is appended follows them.       *)
Appends(img, s, data, allocation, r) ==
    /\ Shaped(r.image)
    /\ \A t \in Sections \ {s} : r.image.section[t] = img.section[t]
    /\ \A t \in Present(img) : \A a \in 0 .. BufferSize - 1 :
          a < End(img.section[t]) => r.image.mem[a] = img.mem[a]
    /\ \/ r.image.section = img.section /\ r.image.size = img.size /\ (r.rc = "OK" => data = << >>)
       \/ /\ r.rc = "OK" /\ data # << >>
          /\ s \in Present(img) => Final(img, s)
          /\ r.image.size = AppendStart(img, s) + Len(data) /\ r.image.size <= allocation
          /\ r.image.section[s].size = img.section[s].size + Len(data)
          /\ r.image.section[s].offset + img.section[s].size = AppendStart(img, s)
          /\ \A k \in 1 .. Len(data) : r.image.mem[AppendStart(img, s) + k - 1] = data[k]

LEMMA AppendCasesShaped ==
  ASSUME NEW img, img = Fields(img, img.mem), NEW s \in Sections, NEW X, NEW data \in Seq(X), NEW allocation
  PROVE  LET r == DoAppend(img, s, data, allocation)
         IN  \/ r.image = img /\ (r.rc = "OK" => data = << >>)
             \/ /\ r.image = [img EXCEPT !.mem = Padded(img, s, allocation)] /\ r.rc = "WOULD_OVERFLOW"
                /\ (s \in Present(img) => Final(img, s))
             \/ /\ r.image = Written(img, s, data, allocation) /\ r.rc = "WOULD_OVERFLOW"
                /\ (s \in Present(img) => Final(img, s))
             \/ /\ r.image = Extended(Written(img, s, data, allocation), s, data) /\ r.rc = "OK"
                /\ data # << >> /\ (s \in Present(img) => Final(img, s))
                /\ Align(AppendStart(img, s) + Len(data), FinalAlignment) <= allocation
<1> DEFINE check == AppendCheck(img, s, data, allocation)
           ext == Extended(Written(img, s, data, allocation), s, data)
           wr == Written(img, s, data, allocation)
           cut == [img EXCEPT !.mem = Padded(img, s, allocation)]
           big == Align(AppendStart(img, s) + Len(data), FinalAlignment) <= allocation
           ans(rc, img2) == [rc |-> rc, offset |-> img.section[s].size, image |-> img2]
<1>1. check \in {"OK", "WOULD_OVERFLOW"} => QuickCheck(img, TRUE) = "OK" /\ (s \in Present(img) => Final(img, s))
  BY DEF AppendCheck, QuickCheck
<1>2. check = "OK" => QuickCheck(img, TRUE) = "OK"
  BY DEF AppendCheck, QuickCheck
<1>3. \/ DoAppend(img, s, data, allocation) = ans("OK", img) /\ data = << >>
      \/ DoAppend(img, s, data, allocation) = ans(check, cut) /\ check = "WOULD_OVERFLOW"
      \/ DoAppend(img, s, data, allocation) = ans("WOULD_OVERFLOW", wr) /\ check = "OK"
      \/ DoAppend(img, s, data, allocation) = ans("OK", ext) /\ check = "OK" /\ data # << >> /\ big
      \/ DoAppend(img, s, data, allocation) = ans(check, img) /\ check # "OK"
  <2> HIDE DEF check, big, ext
  <2> QED BY <1>2, Zenon DEF DoAppend, Written, check, big, ext
<1> DEFINE r == DoAppend(img, s, data, allocation)
<1>4. \A rc, img2 : ans(rc, img2).rc = rc /\ ans(rc, img2).image = img2
  OBVIOUS
<1> HIDE DEF check, ext, wr, cut, big, ans, r
<1>5. \/ r.rc = "OK" /\ r.image = img /\ data = << >>
      \/ r.rc = check /\ r.image = cut /\ check = "WOULD_OVERFLOW"
      \/ r.rc = "WOULD_OVERFLOW" /\ r.image = wr /\ check = "OK"
      \/ r.rc = "OK" /\ r.image = ext /\ check = "OK" /\ data # << >> /\ big
      \/ r.rc = check /\ r.image = img /\ check # "OK"
  BY <1>3, <1>4 DEF r
<1>6. \/ r.image = img /\ (r.rc = "OK" => data = << >>)
      \/ r.image = cut /\ r.rc = "WOULD_OVERFLOW" /\ (s \in Present(img) => Final(img, s))
      \/ r.image = wr /\ r.rc = "WOULD_OVERFLOW" /\ (s \in Present(img) => Final(img, s))
      \/ /\ r.image = ext /\ r.rc = "OK"
         /\ data # << >> /\ (s \in Present(img) => Final(img, s)) /\ big
  BY <1>1, <1>5
<1> QED BY <1>6 DEF ext, wr, cut, big, r

(* What sbe_xip_append leaves of an image of this shape.                   *)
LEMMA AppendOutcome ==
  ASSUME NEW img, Shaped(img), NEW s \in Sections, NEW X, NEW data \in Seq(X),
         NEW allocation \in Int, allocation <= BufferSize
  PROVE  Appends(img, s, data, allocation, DoAppend(img, s, data, allocation))
<1> DEFINE r == DoAppend(img, s, data, allocation)
           start == AppendStart(img, s)
           zeros == [i \in DOMAIN data |-> Zero]
           f == Flat(img)
           w == Written(img, s, data, allocation)
           e == Extended(Written(f, s, zeros, allocation), s, zeros)
<1> SUFFICES Appends(img, s, data, allocation, r)
  OBVIOUS
<1>1. img = Fields(img, img.mem) /\ BufferSize \in Nat /\ Len(data) \in Nat
  BY XipAssumption DEF Shaped
<1>2. /\ LaidOut(f) /\ f.section = img.section /\ f.size = img.size /\ Present(f) = Present(img)
      /\ (Final(f, s) <=> Final(img, s)) /\ f \in Image /\ f.magic = img.magic
      /\ f.normalized = img.normalized /\ f.tocSorted = img.tocSorted
  BY FlatFacts DEF Shaped
<1>3. zeros \in Seq(Cells) /\ Len(zeros) = Len(data) /\ (zeros = << >> => data = << >>)
  <2>1. DOMAIN data = 1 .. Len(data)
    OBVIOUS
  <2>2. zeros = [i \in 1 .. Len(data) |-> Zero]
    BY <2>1
  <2>3. zeros \in Seq(Cells)
    BY <1>1, <2>2, XipAssumption
  <2>4. Len(zeros) = Len(data)
    BY <1>1, <2>2
  <2>5. zeros = << >> => Len(zeros) = 0
    OBVIOUS
  <2> QED BY <2>3, <2>4, <2>5
<1>4. CASE r.image = img /\ (r.rc = "OK" => data = << >>)
  BY <1>4 DEF Appends
<1>5. ASSUME NEW mem, MemoryOf(mem), r.image = [img EXCEPT !.mem = mem], r.rc = "WOULD_OVERFLOW",
             \A t \in Present(img) : \A a \in 0 .. BufferSize - 1 : a < End(img.section[t]) => mem[a] = img.mem[a]
      PROVE  Appends(img, s, data, allocation, r)
  <2> HIDE DEF r
  <2>1. /\ Shaped(r.image) /\ r.image.mem = mem /\ r.image.section = img.section /\ r.image.size = img.size
    BY <1>5, ShapedMemory
  <2> QED BY <1>5, <2>1 DEF Appends
<1>6. ASSUME s \in Present(img) => Final(img, s)
      PROVE  LET pad == Padded(img, s, allocation)
                 mem == Overlay(pad, start, data)
             IN  /\ MemoryOf(pad) /\ MemoryOf(mem) /\ w = [img EXCEPT !.mem = mem]
                 /\ start \in Nat /\ AppendStart(f, s) = start
                 /\ \A t \in Present(img) : \A a \in 0 .. BufferSize - 1 : a < End(img.section[t]) =>
                       pad[a] = img.mem[a] /\ mem[a] = img.mem[a]
                 /\ \A k \in 1 .. Len(data) : start + k - 1 < BufferSize => mem[start + k - 1] = data[k]
  <2> DEFINE pad == Padded(img, s, allocation)
             mem == Overlay(pad, start, data)
  <2>1. /\ start \in Nat /\ AppendStart(f, s) = start
        /\ \A t \in Present(img) : End(img.section[t]) <= start
    BY <1>6, ShapedStart
  <2>2. /\ MemoryOf(pad)
        /\ \A i \in 0 .. BufferSize - 1 : i < img.size => pad[i] = img.mem[i]
    BY Padding
  <2>3. w = [img EXCEPT !.mem = mem]
    BY DEF Written
  <2>4. \A t \in Present(img) : End(img.section[t]) \in Nat /\ End(img.section[t]) <= img.size /\ img.size \in Nat
    BY ShapedTypes DEF Present
  <2> HIDE DEF pad, start
  <2>5. /\ MemoryOf(mem)
        /\ \A i \in 0 .. BufferSize - 1 : i < start => mem[i] = pad[i]
        /\ \A k \in 1 .. Len(data) : start + k - 1 < BufferSize => mem[start + k - 1] = data[k]
    BY <2>1, <2>2, LaidOver
  <2> HIDE DEF mem
  <2>6. ASSUME NEW t \in Present(img), NEW a \in 0 .. BufferSize - 1, a < End(img.section[t])
        PROVE  pad[a] = img.mem[a] /\ mem[a] = img.mem[a]
    <3>1. a < img.size /\ a < start
      BY <1>1, <2>1, <2>4, <2>6
    <3> QED BY <2>2, <2>5, <3>1
  <2> QED BY <2>1, <2>2, <2>3, <2>5, <2>6 DEF pad, mem, start
<1>7. CASE r.image = [img EXCEPT !.mem = Padded(img, s, allocation)] /\ r.rc = "WOULD_OVERFLOW"
           /\ (s \in Present(img) => Final(img, s))
  <2> HIDE DEF r, w, start
  <2>1. MemoryOf(Padded(img, s, allocation))
    BY <1>6, <1>7
  <2>2. \A t \in Present(img) : \A a \in 0 .. BufferSize - 1 :
           a < End(img.section[t]) => Padded(img, s, allocation)[a] = img.mem[a]
    BY <1>6, <1>7
  <2> QED BY <1>5, <1>7, <2>1, <2>2
<1>8. CASE r.image = w /\ r.rc = "WOULD_OVERFLOW" /\ (s \in Present(img) => Final(img, s))
  <2> DEFINE mem == Overlay(Padded(img, s, allocation), start, data)
  <2> HIDE DEF r, w, start
  <2>1. MemoryOf(mem) /\ w = [img EXCEPT !.mem = mem]
    BY <1>6, <1>8
  <2>2. \A t \in Present(img) : \A a \in 0 .. BufferSize - 1 : a < End(img.section[t]) => mem[a] = img.mem[a]
    BY <1>6, <1>8
  <2> HIDE DEF mem
  <2> QED BY <1>5, <1>8, <2>1, <2>2
<1>9. CASE /\ r.image = Extended(w, s, data) /\ r.rc = "OK"
           /\ data # << >> /\ (s \in Present(img) => Final(img, s))
           /\ Align(AppendStart(img, s) + Len(data), FinalAlignment) <= allocation
  <2> DEFINE pad == Padded(img, s, allocation)
             mem == Overlay(pad, start, data)
             ri == Extended(w, s, data)
             fw == Written(f, s, zeros, allocation)
  <2>1. /\ MemoryOf(mem) /\ w = [img EXCEPT !.mem = mem]
        /\ start \in Nat /\ AppendStart(f, s) = start
        /\ \A t \in Present(img) : \A a \in 0 .. BufferSize - 1 : a < End(img.section[t]) => mem[a] = img.mem[a]
        /\ \A k \in 1 .. Len(data) : start + k - 1 < BufferSize => mem[start + k - 1] = data[k]
    BY <1>6, <1>9
  <2> HIDE DEF mem, w, r, f, zeros, start
  <2>2. /\ Shaped(w) /\ w.mem = mem /\ w.size = img.size /\ w.section = img.section
        /\ w.magic = img.magic /\ w.normalized = img.normalized /\ Present(w) = Present(img)
    BY <2>1, ShapedMemory
  <2>3. w.tocSorted = img.tocSorted
    BY <1>1, <2>1 DEF Fields
  <2>4. AppendStart(w, s) = start
    BY <2>2 DEF AppendStart, start
  <2>5. /\ ri = Fields(ri, mem) /\ ri.mem = mem /\ ri.magic = img.magic /\ ri.normalized = img.normalized
        /\ ri.size = Align(start + Len(data), FinalAlignment)
        /\ ri.section = Longer(img, s, data) /\ ri.tocSorted = StillSorted(img, s)
    <3>1. w = Fields(w, w.mem)
      BY <2>2 DEF Shaped
    <3>2. ri = Extended(w, s, data)
      OBVIOUS
    <3> HIDE DEF ri
    <3>3. /\ ri = Fields(ri, w.mem) /\ ri.mem = w.mem /\ ri.magic = w.magic /\ ri.normalized = w.normalized
          /\ ri.size = Align(AppendStart(w, s) + Len(data), FinalAlignment)
          /\ ri.section = Longer(w, s, data) /\ ri.tocSorted = StillSorted(w, s)
      BY <3>1, <3>2, ExtendedRecord
    <3>4. Longer(w, s, data) = Longer(img, s, data) /\ StillSorted(w, s) = StillSorted(img, s)
      BY <2>2, <2>3, <2>4 DEF Longer, StillSorted, start
    <3> QED BY <2>2, <2>4, <3>3, <3>4
  <2>6. /\ LaidOut(e) /\ Present(e) = Present(f) \cup {s}
        /\ \A t \in Sections \ {s} : e.section[t] = f.section[t]
        /\ e.section[s].size = f.section[s].size + Len(zeros)
        /\ e.section[s].offset + f.section[s].size = start
        /\ start + Len(data) <= BufferSize
    <3>1. Align(AppendStart(f, s) + Len(zeros), FinalAlignment) <= BufferSize
      <4>1. start + Len(data) \in Nat
        BY <1>1, <2>1
      <4>2. Align(start + Len(data), FinalAlignment) \in Nat
        BY <4>1, AlignBounds, XipAssumption
      <4>3. Align(start + Len(data), FinalAlignment) <= allocation
        BY <1>9 DEF start
      <4> QED BY <1>1, <1>3, <2>1, <4>2, <4>3
    <3>2. (s \in Present(f) => Final(f, s)) /\ zeros # << >>
      BY <1>2, <1>3, <1>9
    <3> QED BY <1>2, <1>3, <2>1, <3>1, <3>2, ExtendedLayout DEF e
  <2>7. /\ e.size = Align(start + Len(data), FinalAlignment) /\ e.magic = img.magic
        /\ e.normalized = img.normalized /\ e.tocSorted = StillSorted(img, s)
        /\ e.section = Longer(img, s, data)
    <3>1. f = Fields(f, f.mem)
      BY <1>2, LaidOutIsShaped DEF Shaped
    <3>2. /\ fw = [f EXCEPT !.mem = Overlay(Padded(f, s, allocation), start, zeros)]
      BY <2>1 DEF Written
    <3>3. fw = Fields(f, Overlay(Padded(f, s, allocation), start, zeros))
      BY <3>1, <3>2 DEF Fields
    <3>4. /\ fw = Fields(fw, fw.mem) /\ fw.size = img.size /\ fw.section = img.section /\ fw.magic = img.magic
          /\ fw.normalized = img.normalized /\ fw.tocSorted = img.tocSorted
      BY <1>2, <3>3 DEF Fields
    <3> HIDE DEF fw
    <3>5. AppendStart(fw, s) = start /\ Present(fw) = Present(img)
      BY <3>4 DEF AppendStart, Present, start
    <3>6. e = Extended(fw, s, zeros)
      BY DEF e, fw
    <3> HIDE DEF e
    <3>7. /\ e.magic = fw.magic /\ e.normalized = fw.normalized
          /\ e.size = Align(AppendStart(fw, s) + Len(zeros), FinalAlignment)
          /\ e.section = Longer(fw, s, zeros) /\ e.tocSorted = StillSorted(fw, s)
      BY <3>4, <3>6, ExtendedRecord
    <3>8. Longer(fw, s, zeros) = Longer(img, s, data) /\ StillSorted(fw, s) = StillSorted(img, s)
      BY <1>3, <3>4, <3>5 DEF Longer, StillSorted, start
    <3> QED BY <1>3, <3>4, <3>5, <3>7, <3>8
  <2> HIDE DEF e, ri
  <2>8. Flat(ri) = Flat(e)
    BY <2>5, <2>7 DEF Flat, Fields
  <2>9. LaidOut(Flat(ri))
    BY <2>6, <2>8, LaidOutIsShaped DEF Shaped
  <2>10. Shaped(ri)
    BY <2>1, <2>5, <2>9 DEF Shaped
  <2>11. Align(start + Len(data), FinalAlignment) = start + Len(data)
    BY <1>1, <2>1, AlignOne, RingAssumption
  <2>12. /\ \A t \in Sections \ {s} : ri.section[t] = img.section[t]
         /\ ri.section[s].size = img.section[s].size + Len(data)
         /\ ri.section[s].offset + img.section[s].size = start
    BY <1>2, <1>3, <2>5, <2>6, <2>7
  <2>13. \A k \in 1 .. Len(data) : ri.mem[start + k - 1] = data[k]
    <3>1. \A k \in 1 .. Len(data) : start + k - 1 < BufferSize
      BY <1>1, <2>1, <2>6
    <3> QED BY <2>1, <2>5, <3>1
  <2>14. ri.size = start + Len(data) /\ ri.size <= allocation
    BY <1>9, <2>5, <2>11 DEF start
  <2>15. r.image = ri
    BY <1>9 DEF ri
  <2>16. AppendStart(img, s) = start
    BY DEF start
  <2>17. \A t \in Present(img) : \A a \in 0 .. BufferSize - 1 : a < End(img.section[t]) => ri.mem[a] = img.mem[a]
    BY <2>1, <2>5
  <2> QED BY <1>9, <2>10, <2>12, <2>13, <2>14, <2>15, <2>16, <2>17 DEF Appends
<1> HIDE DEF r, start, zeros, f, e
<1>10. \/ r.image = img /\ (r.rc = "OK" => data = << >>)
       \/ /\ r.image = [img EXCEPT !.mem = Padded(img, s, allocation)] /\ r.rc = "WOULD_OVERFLOW"
          /\ (s \in Present(img) => Final(img, s))
       \/ r.image = w /\ r.rc = "WOULD_OVERFLOW" /\ (s \in Present(img) => Final(img, s))
       \/ /\ r.image = Extended(w, s, data) /\ r.rc = "OK"
          /\ data # << >> /\ (s \in Present(img) => Final(img, s))
          /\ Align(AppendStart(img, s) + Len(data), FinalAlignment) <= allocation
  BY <1>1, AppendCasesShaped DEF r
<1> QED BY <1>4, <1>7, <1>8, <1>9, <1>10

-----------------------------------------------------------------------------
(***************************************************************************)
(* An SLW image before its tables: laid out, without .dcrings, and in its  *)
(* other sections as the reference image, but for the rings' pointers.     *)
(***************************************************************************)
SlwReady(img) ==
    /\ Shaped(img) /\ DCRINGS \notin Present(img)
    /\ \E base \in Images : KeptFrom(base, img)

LEMMA KeptSections ==
  ASSUME NEW img, Shaped(img), NEW r,
         \A t \in Sections \ RingSections : r.section[t] = img.section[t],
         \A t \in Present(img) : \A a \in 0 .. BufferSize - 1 :
            a < End(img.section[t]) /\ ~ IsSlot(a) => r.mem[a] = img.mem[a]
  PROVE  KeptFrom(img, r)
<1>1. ASSUME NEW t \in Sections \ RingSections, NEW a \in img.section[t].offset .. End(img.section[t]) - 1, ~ IsSlot(a)
      PROVE  r.mem[a] = img.mem[a]
  <2>1. /\ img.section[t].offset \in Nat /\ End(img.section[t]) \in Nat /\ img.section[t].size \in Nat
        /\ End(img.section[t]) = img.section[t].offset + img.section[t].size
        /\ t \in Present(img) <=> img.section[t].size # 0
        /\ t \in Present(img) => End(img.section[t]) <= img.size
        /\ img.size \in Nat /\ img.size <= BufferSize /\ BufferSize \in Nat
    BY ShapedTypes
  <2>2. t \in Present(img) /\ a \in 0 .. BufferSize - 1 /\ a < End(img.section[t])
    BY <2>1
  <2> QED BY <1>1, <2>2
<1> QED BY <1>1 DEF KeptFrom

(* A block appended to .rings leaves it so, whatever the answer.           *)
LEMMA RingsAppended ==
  ASSUME NEW img, SlwReady(img), NEW X, NEW data \in Seq(X), NEW allocation \in 0 .. BufferSize
  PROVE  SlwReady(DoAppend(img, RINGS, data, allocation).image)
<1> DEFINE r == DoAppend(img, RINGS, data, allocation)
<1>1. Appends(img, RINGS, data, allocation, r) /\ Shaped(img)
  BY AppendOutcome, RingAssumption DEF SlwReady
<1> HIDE DEF r
<1>2. KeptFrom(img, r.image)
  BY <1>1, KeptSections DEF Appends, RingSections
<1>3. DCRINGS \notin Present(r.image)
  BY <1>1 DEF Appends, Present, SlwReady, DCRINGS, RINGS
<1>4. \E base \in Images : KeptFrom(base, r.image)
  BY <1>2, KeptThrough DEF SlwReady
<1> QED BY <1>1, <1>3, <1>4 DEF SlwReady, Appends, r

(* So does a pointer written for a ring.                                   *)
LEMMA SlotWritten ==
  ASSUME NEW img, SlwReady(img), NEW address \in Nat, IsSlot(address - LinkAddress), NEW x
  PROVE  SlwReady(DoWriteDoubleword(img, address, <<x>>))
<1> DEFINE r == DoWriteDoubleword(img, address, <<x>>)
           mem == Overlay(img.mem, address - LinkAddress, <<x>>)
<1>1. CASE DoublewordCheck(img, address) # "OK"
  <2>1. r = [img EXCEPT !.mem = img.mem]
    BY <1>1, Zenon DEF DoWriteDoubleword
  <2>2. img = Fields(img, img.mem)
    BY DEF SlwReady, Shaped
  <2>3. r = img
    BY <2>1, <2>2 DEF Fields
  <2> QED BY <2>3
<1>2. CASE DoublewordCheck(img, address) = "OK"
  <2>1. r = [img EXCEPT !.mem = mem]
    BY <1>2, Zenon DEF DoWriteDoubleword
  <2>2. address - LinkAddress \in Nat
    <3>1. InImage(img, address, DataAlignment)
      BY <1>2 DEF DoublewordCheck
    <3> QED BY <3>1, XipAssumption DEF InImage
  <2>3. Shaped(img) /\ MemoryOf(img.mem) /\ <<x>> \in Seq({x}) /\ Len(<<x>>) = 1
    BY DEF SlwReady, Shaped
  <2>4. MemoryOf(mem) /\ \A i \in 0 .. BufferSize - 1 : i # address - LinkAddress => mem[i] = img.mem[i]
    BY <2>2, <2>3, OneLaidOver
  <2> HIDE DEF mem, r
  <2>5. /\ Shaped(r) /\ r.mem = mem /\ r.size = img.size /\ r.section = img.section /\ Present(r) = Present(img)
    BY <2>1, <2>3, <2>4, ShapedMemory
  <2>6. \A i \in 0 .. BufferSize - 1 : ~ IsSlot(i) => r.mem[i] = img.mem[i]
    <3>1. ASSUME NEW i \in 0 .. BufferSize - 1, ~ IsSlot(i)
          PROVE  i # address - LinkAddress
      BY <3>1
    <3> QED BY <2>4, <2>5, <3>1
  <2>7. KeptFrom(img, r)
    BY <2>3, <2>5, <2>6, KeptSections
  <2>8. \E base \in Images : KeptFrom(base, r)
    BY <2>7, KeptThrough DEF SlwReady
  <2> QED BY <2>5, <2>8 DEF SlwReady, r
<1> QED BY <1>1, <1>2

(* Only a forward pointer changes when a block is linked.                  *)
LEMMA LinkKeepsReady ==
  ASSUME NEW img, SlwReady(img), NEW s, NEW offset, NEW back \in Nat, IsSlot(back - LinkAddress)
  PROVE  SlwReady(Link(img, s, offset, back).image)
<1>1. \A rc, i : Answer(rc, i).image = i
  BY DEF Answer
<1>2. \A x : SlwReady(DoWriteDoubleword(img, back, <<x>>))
  BY SlotWritten
<1>3. \/ Link(img, s, offset, back).image = img
      \/ \E x : Link(img, s, offset, back).image = DoWriteDoubleword(img, back, <<x>>)
  BY <1>1 DEF Link
<1> QED BY <1>2, <1>3

(* An answer has its code and its image.                                   *)
LEMMA AnswerFields == \A rc, i : Answer(rc, i).rc = rc /\ Answer(rc, i).image = i /\ DOMAIN Answer(rc, i) = {"rc", "image"}
BY DEF Answer

(* The slot of a ring and of an element of its vector.                     *)
LEMMA AddressOfSlot ==
  ASSUME NEW name \in RingName, NEW idx \in 0 .. Elements(name) - 1
  PROVE  /\ BackPointer(name, idx, 0, 0) = SlotOf[name] + idx /\ SlotOf[name] + idx \in Nat
         /\ IsSlot((SlotOf[name] + idx) - LinkAddress)
<1>1. SlotOf[name] \in Nat /\ idx \in Nat
  BY RingAssumption DEF Elements
<1>2. BackPointer(name, idx, 0, 0) = SlotOf[name] + idx
  BY <1>1 DEF BackPointer
<1>3. SlotOf[name] + idx \in Nat
  BY <1>1
<1>4. IsSlot((SlotOf[name] + idx) - LinkAddress)
  BY Zenon DEF IsSlot
<1> QED BY <1>2, <1>3, <1>4

(* write_ring_block_to_image keeps an SLW image ready for its tables.      *)
LEMMA BlockWritten ==
  ASSUME NEW img, SlwReady(img), NEW name \in RingName, NEW idx \in 0 .. Elements(name) - 1,
         NEW X, NEW block \in Seq(X), NEW size
  PROVE  LET r == WriteRingBlock(img, name, block, idx, 0, 0, FixedSize, RINGS, size)
         IN  SlwReady(r.image) /\ r = Answer(r.rc, r.image)
<1> DEFINE back   == BackPointer(name, idx, 0, 0)
           ring   == [block EXCEPT ![1].back = back]
           room   == FixedSize - img.section[DCRINGS].size
           added1 == DoAppend(img, RINGS, ring, room)
           linked == Link(added1.image, RINGS, added1.offset, back)
           r      == WriteRingBlock(img, name, block, idx, 0, 0, FixedSize, RINGS, size)
<1> SUFFICES SlwReady(r.image) /\ r = Answer(r.rc, r.image)
  OBVIOUS
<1>1. back \in Nat /\ IsSlot(back - LinkAddress)
  <2>1. back = SlotOf[name] + idx
    BY AddressOfSlot
  <2> HIDE DEF back
  <2> QED BY <2>1, AddressOfSlot
<1>2. \E Y : ring \in Seq(Y)
  <2>1. PICK n \in Nat : block \in [1 .. n -> X]
    BY SeqDef
  <2>2. ring \in [1 .. n -> {ring[i] : i \in 1 .. n}]
    BY <2>1
  <2> DEFINE Y == {ring[i] : i \in 1 .. n}
  <2>3. ring \in [1 .. n -> Y]
    BY <2>2
  <2> HIDE DEF ring, Y
  <2>4. ring \in Seq(Y)
    BY <2>3, SeqDef
  <2> QED BY <2>4
<1>3. img.section[DCRINGS].size = 0 /\ room = FixedSize /\ room \in 0 .. BufferSize
  BY RingAssumption, SlwAssumption DEF SlwReady, Present
<1>4. TakeOff(img, RINGS, size) = Answer("OK", img)
  BY DEF TakeOff, SlwReady
<1>5. \A i : PutBack(i, img, RINGS, FixedSize) = Answer("OK", i)
  BY DEF PutBack, SlwReady
<1>6. SlwReady(added1.image)
  <2> HIDE DEF ring, room
  <2> QED BY <1>2, <1>3, RingsAppended
<1>7. SlwReady(linked.image)
  <2> HIDE DEF added1, back
  <2> QED BY <1>1, <1>6, LinkKeepsReady
<1>8. linked = Answer(linked.rc, linked.image)
  <2> HIDE DEF added1, back
  <2> QED BY AnswerFields DEF Link
<1>9. name # NoName
  BY RingAssumption
<1>10. \/ r = Answer("KEYWORD_NOT_FOUND", img)
       \/ r = Answer(AppendCode(added1.rc), added1.image)
       \/ r = Validated(added1.image)
       \/ r = linked
       \/ r = Validated(linked.image)
  <2> DEFINE off == TakeOff(img, RINGS, size)
             put == PutBack(added1.image, img, RINGS, FixedSize)
             lnk == Link(put.image, RINGS, added1.offset, back)
  <2>1. off.rc = "OK" /\ off.image = img
    BY <1>4, AnswerFields
  <2>2. put.rc = "OK" /\ put.image = added1.image
    BY <1>5, AnswerFields
  <2>3. r = IF ~ Found(img, name) THEN Answer("KEYWORD_NOT_FOUND", img)
            ELSE IF off.rc # "OK" THEN off
            ELSE IF DoAppend(off.image, RINGS, ring, room).rc # "OK"
            THEN Answer(AppendCode(DoAppend(off.image, RINGS, ring, room).rc),
                        DoAppend(off.image, RINGS, ring, room).image)
            ELSE LET p == PutBack(DoAppend(off.image, RINGS, ring, room).image, img, RINGS, FixedSize)
                     k == Link(p.image, RINGS, DoAppend(off.image, RINGS, ring, room).offset, back)
                 IN  IF p.rc # "OK" THEN p
                     ELSE IF Validated(p.image).rc # "OK" THEN Validated(p.image)
                     ELSE IF k.rc # "OK" THEN k
                     ELSE Validated(k.image)
    BY <1>9, Zenon DEF WriteRingBlock
  <2>4. lnk = linked
    BY <2>2
  <2>5. DoAppend(off.image, RINGS, ring, room) = added1
    BY <2>1
  <2> HIDE DEF off, back, ring, room
  <2>6. r = IF ~ Found(img, name) THEN Answer("KEYWORD_NOT_FOUND", img)
            ELSE IF off.rc # "OK" THEN off
            ELSE IF added1.rc # "OK" THEN Answer(AppendCode(added1.rc), added1.image)
            ELSE IF put.rc # "OK" THEN put
            ELSE IF Validated(put.image).rc # "OK" THEN Validated(put.image)
            ELSE IF lnk.rc # "OK" THEN lnk
            ELSE Validated(lnk.image)
    <3> HIDE DEF r
    <3> QED BY <2>3, <2>5
  <2> HIDE DEF put, lnk, added1, linked, r
  <2> QED BY <2>1, <2>2, <2>4, <2>6
<1> HIDE DEF back, ring, room, added1, linked, r
<1>11. CASE r = linked
  BY <1>7, <1>8, <1>11
<1>12. CASE r # linked
  <2>1. \E rc : \/ r = Answer(rc, img) \/ r = Answer(rc, added1.image) \/ r = Answer(rc, linked.image)
    BY <1>10, <1>12, Zenon DEF Validated
  <2>2. PICK rc, i : r = Answer(rc, i) /\ SlwReady(i)
    BY <1>6, <1>7, <2>1, Zenon
  <2>3. r.rc = rc /\ r.image = i
    BY <2>2, AnswerFields
  <2> QED BY <2>2, <2>3
<1> QED BY <1>11, <1>12

(* The wiggle-flip block of a program.                                     *)
LEMMA WfIsSequence ==
  ASSUME NEW back, NEW data \in Seq(Nat)
  PROVE  \E X : WfBlock(back, data) \in Seq(X) /\ WfBlock(back, data) # << >> /\ Len(WfBlock(back, data)) = 1 + Len(data)
<1> DEFINE h == Header(back, 1 + Len(data), NoDd, 0, 0)
           body == [i \in DOMAIN data |-> Body(data[i])]
           X == {h} \cup {Body(n) : n \in Nat}
<1>1. body \in Seq(X) /\ Len(body) = Len(data)
  <2>1. DOMAIN data = 1 .. Len(data) /\ Len(data) \in Nat /\ \A i \in 1 .. Len(data) : data[i] \in Nat
    OBVIOUS
  <2>2. body = [i \in 1 .. Len(data) |-> Body(data[i])]
    BY <2>1
  <2>3. \A i \in 1 .. Len(data) : Body(data[i]) \in X
    BY <2>1
  <2> HIDE DEF X, body
  <2> QED BY <2>1, <2>2, <2>3
<1>2. <<h>> \in Seq(X) /\ Len(<<h>>) = 1
  <2>1. h \in X
    OBVIOUS
  <2> HIDE DEF X, h
  <2> QED BY <2>1
<1>3. WfBlock(back, data) = <<h>> \o body
  BY DEF WfBlock
<1> HIDE DEF h, body, X
<1>4. WfBlock(back, data) \in Seq(X) /\ Len(WfBlock(back, data)) = 1 + Len(data)
  BY <1>1, <1>2, <1>3
<1>5. WfBlock(back, data) # << >>
  BY <1>4
<1> QED BY <1>4, <1>5

(* A program padded with HALT for its worst case.                          *)
LEMMA ReservedIsSequence ==
  ASSUME NEW ring \in VpdRings, NEW worst
  PROVE  Reserved(ring, worst) \in Seq(Nat)
<1>1. ring.program \in Seq(Nat) /\ ring.worst \in Nat
  BY BuildAssumption
<1>2. \A n \in Nat : Halts(n) \in Seq(Nat)
  BY DEF Halts
<1>3. ring.worst > Len(ring.program) => ring.program \o Halts(ring.worst - Len(ring.program)) \in Seq(Nat)
  <2>1. ring.worst > Len(ring.program) => ring.worst - Len(ring.program) \in Nat
    BY <1>1
  <2> QED BY <1>1, <1>2, <2>1
<1> QED BY <1>1, <1>3 DEF Reserved

(* The element of a VPD ring's vector is in the vector.                    *)
LEMMA VectorIndexOfVpd ==
  ASSUME NEW name \in RingName, VpdType(name) # "none", NEW chiplet \in Nat
  PROVE  VectorIndex(chiplet) \in 0 .. Elements(name) - 1
BY RingAssumption DEF VectorIndex, Elements, MaxElements

(* A ring of the VPD is written, or is not, to an image that stays ready.  *)
LEMMA VpdKeepsReady ==
  ASSUME NEW img, SlwReady(img), NEW ring \in VpdRings, NEW worst
  PROVE  SlwReady(WriteVpdRingSlw(img, FixedSize, ring, ring.name, worst).image)
<1> DEFINE block == WfBlock(0, Reserved(ring, worst))
           w == WriteRingBlock(img, ring.name, block, VectorIndex(ring.chiplet), 0, 0, FixedSize, RINGS, RingBuffer)
           r == WriteVpdRingSlw(img, FixedSize, ring, ring.name, worst)
<1>1. ring.name \in RingName /\ VpdType(ring.name) # "none" /\ ring.chiplet \in Nat
  BY BuildAssumption
<1>2. PICK X : block \in Seq(X)
  BY ReservedIsSequence, WfIsSequence
<1>3. VectorIndex(ring.chiplet) \in 0 .. Elements(ring.name) - 1
  BY <1>1, VectorIndexOfVpd
<1>4. SlwReady(w.image) /\ w = Answer(w.rc, w.image)
  <2> HIDE DEF block
  <2> QED BY <1>1, <1>2, <1>3, BlockWritten
<1>5. r.image = img \/ r = w \/ r = [w EXCEPT !.rc = VpdBlockCode(w.rc)]
  <2>1. \/ \E rc : r = Answer(rc, img)
        \/ r = w \/ r = [w EXCEPT !.rc = VpdBlockCode(w.rc)]
    <3> HIDE DEF w
    <3> QED BY Zenon DEF WriteVpdRingSlw, Mapped, w
  <2> HIDE DEF r, w
  <2> QED BY <2>1, AnswerFields
<1>6. [w EXCEPT !.rc = VpdBlockCode(w.rc)].image = w.image
  <2> HIDE DEF w
  <2>1. DOMAIN w = {"rc", "image"}
    BY <1>4, AnswerFields
  <2> QED BY <1>4 DEF Answer
<1> HIDE DEF w, r
<1> QED BY <1>4, <1>5, <1>6 DEF r

(* So is a program compiled from a ring.                                   *)
LEMMA ProgramKeepsReady ==
  ASSUME NEW img, SlwReady(img), NEW name \in RingName, NEW idx \in 0 .. Elements(name) - 1,
         NEW layout, layout.back = SlotOf[name] + idx, NEW program \in Seq(Nat)
  PROVE  LET r == WriteWiggleFlip(img, FixedSize, layout, program, MaxAlign)
         IN  SlwReady(r.image)
<1> DEFINE block == WfBlock(layout.back, program)
           estimate == img.size + Len(block) + MaxAlign
           app == DoAppend(img, RINGS, block, estimate)
           link == Link(app.image, RINGS, app.offset, layout.back)
           r == WriteWiggleFlip(img, FixedSize, layout, program, MaxAlign)
<1> SUFFICES SlwReady(r.image)
  OBVIOUS
<1>1. layout.back \in Nat /\ IsSlot(layout.back - LinkAddress)
  BY AddressOfSlot
<1>2. PICK X : block \in Seq(X) /\ Len(block) \in Nat
  BY WfIsSequence
<1>3. estimate \in Nat
  <2>1. img.size \in Nat
    BY ShapedTypes DEF SlwReady
  <2> HIDE DEF block
  <2> QED BY <1>2, <2>1, BuildAssumption
<1>4. estimate > FixedSize => r.image = img
  <2>1. estimate > FixedSize => r = Answer("IMAGE_TOO_LARGE", img)
    BY DEF WriteWiggleFlip
  <2> HIDE DEF r
  <2> QED BY <2>1, AnswerFields
<1>5. CASE estimate <= FixedSize
  <2> HIDE DEF block, estimate
  <2>1. estimate \in 0 .. BufferSize
    BY <1>3, <1>5, SlwAssumption, XipAssumption
  <2>2. SlwReady(app.image)
    BY <1>2, <2>1, RingsAppended
  <2> HIDE DEF app
  <2>3. SlwReady(link.image)
    BY <1>1, <2>2, LinkKeepsReady
  <2>4. link = Answer(link.rc, link.image)
    BY AnswerFields DEF Link
  <2> HIDE DEF link
  <2>5. ~ (estimate > FixedSize)
    BY <1>3, <1>5, SlwAssumption
  <2> DEFINE one == Mapped([rc |-> app.rc, image |-> app.image], LAMBDA rc : "XIP_MISC")
             two == Then(one, Validated)
             three == Then(two, LAMBDA i : Link(i, RINGS, app.offset, layout.back))
  <2>6. r = Then(three, Validated)
    BY <2>5 DEF WriteWiggleFlip, app, estimate, block
  <2>7. one.image = app.image
    BY DEF Mapped
  <2>8. two.image = app.image
    <3> HIDE DEF one
    <3> QED BY <2>7, AnswerFields DEF Then, Validated
  <2>9. three.image \in {app.image, link.image}
    <3> HIDE DEF two
    <3> QED BY <2>8 DEF Then, link
  <2>10. r.image = three.image
    <3> HIDE DEF three, r
    <3>1. r = three \/ \E rc : r = Answer(rc, three.image)
      BY <2>6 DEF Then, Validated
    <3> QED BY <3>1, AnswerFields
  <2> HIDE DEF r, three
  <2> QED BY <2>2, <2>3, <2>9, <2>10
<1>6. estimate > FixedSize \/ estimate <= FixedSize
  BY <1>3, SlwAssumption
<1> QED BY <1>4, <1>5, <1>6

-----------------------------------------------------------------------------
(***************************************************************************)
(* The loop that adds the rings: what a search finds is a block of .rings, *)
(* and so is where the next one starts.                                    *)
(***************************************************************************)
LEMMA SearchFinds ==
  ASSUME NEW img, Ready(img), RINGS \in Present(img), Tiled(Contents(img, RINGS)),
         NEW k \in Starts(Contents(img, RINGS)), NEW dd, NEW phase
  PROVE  LET r == Search(img, img.section[RINGS].offset + k - 1, End(img.section[RINGS]), dd, phase)
         IN  r.rc \in {"MATCH", "EXHAUST_MATCH"} =>
                r.at \in Blocks(img, RINGS) /\ r.next \in Blocks(img, RINGS) \cup {0}
<1> DEFINE c == Contents(img, RINGS)
           n == img.section[RINGS].size
           o == img.section[RINGS].offset
           start == o + k - 1
           end == End(img.section[RINGS])
           cells == [i \in 1 .. end - start |-> img.mem[start + i - 1]]
           S == {j \in 1 .. n - k + 1 : k + j - 1 \in Starts(c)}
           r == Search(img, start, end, dd, phase)
<1>1. /\ o \in Nat /\ n \in Nat /\ end = o + n /\ end <= BufferSize /\ BufferSize \in Nat
  <2>1. RINGS \in Sections /\ img \in Image /\ img.size <= BufferSize /\ WithinImage(img, RINGS) /\ BufferSize \in Nat
    BY RingAssumption, XipAssumption DEF Ready, LaidOut, DisjointIn
  <2>2. img.size \in Nat
    BY <2>1, ImageType
  <2> QED BY <2>1, <2>2, SectionType DEF WithinImage
<1>2. c \in Seq(Cells) /\ Len(c) = n
  BY ContentsType, RingAssumption DEF Ready
<1>3. Starts(c) \subseteq 1 .. n /\ Closed(c, Starts(c))
  BY <1>2, StartsLeast
<1>4. \A j \in 1 .. n : c[j] = img.mem[o + j - 1]
  BY <1>1 DEF Contents
<1>5. k \in 1 .. n /\ start \in Nat /\ end - start = n - k + 1
  <2>1. k \in 1 .. n
    BY <1>3
  <2> HIDE DEF o, n, end
  <2> QED BY <1>1, <2>1
<1>6. \A j \in Starts(c) : c[j].size \in Nat \ {0} /\ j + c[j].size \in Starts(c) \cup {n + 1}
  BY <1>2 DEF Tiled
<1>7. Blocks(img, RINGS) = {o + j - 1 : j \in Starts(c)}
  BY DEF Blocks
<1> HIDE DEF c, n, o, end
<1>8. cells \in Seq(Cells) /\ Len(cells) = n - k + 1 /\ \A j \in 1 .. n - k + 1 : cells[j] = c[k + j - 1]
  <2>1. \A j \in 1 .. n - k + 1 : k + j - 1 \in 1 .. n /\ start + j - 1 = o + (k + j - 1) - 1
    BY <1>1, <1>5
  <2>2. \A j \in 1 .. n - k + 1 : img.mem[start + j - 1] = c[k + j - 1]
    BY <1>4, <2>1
  <2>3. \A j \in 1 .. n : c[j] \in Cells
    BY <1>2
  <2>4. \A j \in 1 .. n - k + 1 : img.mem[start + j - 1] \in Cells
    BY <2>1, <2>2, <2>3
  <2>5. n - k + 1 \in Nat
    BY <1>1, <1>5
  <2>6. cells = [i \in 1 .. n - k + 1 |-> img.mem[start + i - 1]]
    BY <1>5
  <2> HIDE DEF start, cells
  <2>7. cells \in Seq(Cells) /\ Len(cells) = n - k + 1
    <3> DEFINE q == n - k + 1
    <3>1. q \in Nat /\ cells = [i \in 1 .. q |-> img.mem[start + i - 1]]
          /\ \A j \in 1 .. q : img.mem[start + j - 1] \in Cells
      BY <2>4, <2>5, <2>6
    <3> HIDE DEF q
    <3>2. cells \in Seq(Cells) /\ Len(cells) = q
      BY <3>1
    <3> QED BY <3>2 DEF q
  <2> QED BY <2>2, <2>6, <2>7
<1>9. Starts(cells) \subseteq S
  <2>1. S \in SUBSET (1 .. Len(cells)) /\ 1 \in S
    <3>1. 1 \in 1 .. n - k + 1 /\ k + 1 - 1 = k
      BY <1>1, <1>5
    <3> QED BY <1>8, <3>1 DEF c
  <2>2. ASSUME NEW j \in S, NextOf(cells, j) \in j + 1 .. Len(cells)
        PROVE  NextOf(cells, j) \in S
    <3> DEFINE m == k + j - 1
               z == c[m].size
    <3>1. j \in 1 .. n - k + 1 /\ m \in Starts(c) /\ cells[j] = c[m]
      BY <1>8
    <3>2. z \in Nat
      BY <1>6, <3>1
    <3>3. NextOf(cells, j) = j + z
      BY <3>1 DEF NextOf
    <3>4. NextOf(c, m) = m + z
      BY DEF NextOf
    <3>5. j + z \in j + 1 .. n - k + 1
      BY <1>8, <2>2, <3>3
    <3> HIDE DEF z, S, cells
    <3>6. m + z \in m + 1 .. n /\ k + (j + z) - 1 = m + z /\ j + z \in 1 .. n - k + 1
      BY <1>1, <1>5, <3>1, <3>2, <3>5
    <3>7. m + z \in Starts(c)
      <4> HIDE DEF m
      <4> QED BY <1>2, <1>3, <3>1, <3>4, <3>6 DEF Closed
    <3> QED BY <3>3, <3>6, <3>7 DEF S
  <2>3. Closed(cells, S)
    BY <2>2 DEF Closed
  <2> HIDE DEF S, cells
  <2> QED BY <1>8, <2>1, <2>3, StartsLeast
<1> DEFINE hits == {at \in {start + j - 1 : j \in Starts(cells)} : Matches(img.mem[at], dd, phase)}
           first == CHOOSE at \in hits : \A b \in hits : at <= b
           next == first + img.mem[first].size
<1>10. r = IF hits = {} THEN [rc |-> "NO_MATCH", at |-> 0, next |-> 0]
           ELSE IF next >= end THEN [rc |-> "EXHAUST_MATCH", at |-> first, next |-> 0]
           ELSE [rc |-> "MATCH", at |-> first, next |-> next]
  BY DEF Search
<1>11. \A at \in hits : \E m \in Starts(c) : at = o + m - 1
  <2> SUFFICES ASSUME NEW j \in Starts(cells) PROVE \E m \in Starts(c) : start + j - 1 = o + m - 1
    OBVIOUS
  <2>1. j \in 1 .. n - k + 1 /\ k + j - 1 \in Starts(c)
    BY <1>9
  <2>2. start + j - 1 = o + (k + j - 1) - 1
    BY <1>1, <1>5, <2>1
  <2> QED BY <2>1, <2>2
<1> HIDE DEF hits, r, start, cells, S
<1>12. hits # {} => first \in hits
  <2>1. \A m \in Starts(c) : o + m - 1 \in Nat
    BY <1>1, <1>3
  <2>2. hits \subseteq Nat
    BY <1>11, <2>1
  <2> QED BY <2>2, LeastNatural
<1> HIDE DEF first
<1>13. ASSUME hits # {} PROVE first \in Blocks(img, RINGS) /\ (next < end => next \in Blocks(img, RINGS))
  <2>1. PICK m \in Starts(c) : first = o + m - 1
    BY <1>11, <1>12, <1>13
  <2>2. m \in 1 .. n /\ img.mem[first] = c[m]
    BY <1>3, <1>4, <2>1
  <2> DEFINE z == c[m].size
  <2>3. z \in Nat \ {0} /\ m + z \in Starts(c) \cup {n + 1}
    BY <1>6
  <2>4. next = first + z
    BY <2>2
  <2> HIDE DEF z, next
  <2>5. next = o + (m + z) - 1
    BY <1>1, <2>1, <2>2, <2>3, <2>4
  <2>6. next < end => m + z # n + 1
    BY <1>1, <2>2, <2>3, <2>5
  <2> QED BY <1>7, <2>1, <2>3, <2>5, <2>6
<1>14. hits # {} => \/ next >= end
                    \/ next < end
  <2>1. ASSUME hits # {} PROVE next \in Int
    <3>1. PICK m \in Starts(c) : first = o + m - 1
      BY <1>11, <1>12, <2>1
    <3>2. img.mem[first] = c[m] /\ m \in Nat
      BY <1>3, <1>4, <3>1
    <3> QED BY <1>1, <1>6, <3>1, <3>2
  <2> HIDE DEF next
  <2> QED BY <1>1, <2>1
<1> HIDE DEF next
<1>15. r.rc = "MATCH" => hits # {} /\ next < end /\ r.next = next /\ r.at = first
  BY <1>10, <1>14
<1>16. r.rc = "EXHAUST_MATCH" => hits # {} /\ r.next = 0 /\ r.at = first
  BY <1>10
<1> QED BY <1>13, <1>15, <1>16 DEF r, o, end, start

(* A reference image that the rings of requests have been added to.        *)
Readable(from) == Ready(from) /\ \E rings \in Seq(Accepted) : Reflects(from, rings)
RingData(from, at) == [k \in 1 .. from.mem[at].size - 1 |-> from.mem[at + k].data]

(* A block holds the data of a request, and points back to its slot.       *)
LEMMA BlockData ==
  ASSUME NEW from, Readable(from), NEW at \in Blocks(from, RINGS)
  PROVE  /\ \E name \in RingName : \E idx \in 0 .. Elements(name) - 1 : from.mem[at].back = SlotOf[name] + idx
         /\ RingData(from, at) \in DOMAIN Program
<1>1. PICK rings \in Seq(Accepted) : Reflects(from, rings)
  BY DEF Readable
<1>2. PICK pos \in [DOMAIN rings -> Nat \ {0}] : Placed(Contents(from, RINGS), RINGS, rings, pos)
  BY <1>1 DEF Reflects, RingSections
<1>3. PICK k \in Goes(RINGS, rings) : at = PlaceIn(from, RINGS, pos, k)
  BY <1>2, BlocksPlaced
<1> DEFINE req == rings[k]
           b == RingOf(req)
<1>4. /\ req \in Accepted /\ \A i \in 1 .. Len(b) : from.mem[at + i - 1] = b[i]
      /\ from.mem[at] = Header(SlotFor(req), Len(b), DdOf(req.dd), req.phase, req.override)
  BY <1>2, <1>3, BlockInImage, SMTT(30) DEF Readable, RingSections
<1> HIDE DEF req
<1>5. /\ req \in Requests /\ req.name \in RingName /\ req.data \in Seq(Nat)
      /\ SlotFor(req) = SlotOf[req.name] + SlotIndex(req) /\ SlotIndex(req) \in 0 .. Elements(req.name) - 1
      /\ Len(b) = 1 + Len(req.data) /\ \A j \in DOMAIN req.data : b[j + 1] = Body(req.data[j])
  BY <1>4, AcceptedFacts
<1>6. from.mem[at].back = SlotFor(req) /\ from.mem[at].size = Len(b)
  BY <1>4 DEF Header
<1>7. RingData(from, at) = req.data
  <2> DEFINE n == Len(req.data)
  <2>1. n \in Nat /\ DOMAIN req.data = 1 .. n
    BY <1>5
  <2>2. at \in Nat
    BY <1>2, <1>3, BlockInImage DEF Readable, RingSections
  <2>3. \A j \in 1 .. n : from.mem[at + j] = b[j + 1]
    <3>1. \A j \in 1 .. n : j + 1 \in 1 .. Len(b) /\ at + (j + 1) - 1 = at + j
      BY <1>5, <2>1, <2>2, SMTT(30)
    <3> HIDE DEF b, n
    <3> QED BY <1>4, <3>1 DEF b
  <2>4. \A j \in 1 .. n : from.mem[at + j].data = req.data[j]
    <3> HIDE DEF n, b
    <3>1. \A j \in 1 .. n : b[j + 1] = Body(req.data[j])
      BY <1>5, <2>1
    <3>2. \A x : Body(x).data = x
      BY DEF Body
    <3> QED BY <2>3, <3>1, <3>2
  <2>5. from.mem[at].size - 1 = n
    BY <1>5, <1>6, <2>1
  <2>6. req.data \in [1 .. n -> Nat]
    BY <1>5
  <2> HIDE DEF n, b
  <2>7. RingData(from, at) = [j \in 1 .. n |-> req.data[j]]
    BY <2>4, <2>5 DEF RingData
  <2> QED BY <2>6, <2>7
<1> QED BY <1>5, <1>6, <1>7, BuildAssumption

(* A search finds a block of a ring that has been accepted.                *)
LEMMA RingFound ==
  ASSUME NEW from, Readable(from), NEW next \in Blocks(from, RINGS) \cup {0}, NEW dd, NEW phase
  PROVE  LET found == GetRingLayout2(from, dd, phase, next, RINGS)
         IN  found.rc \in {"MATCH", "EXHAUST_MATCH"} =>
                found.at \in Blocks(from, RINGS) /\ found.next \in Blocks(from, RINGS) \cup {0}
<1> DEFINE found == GetRingLayout2(from, dd, phase, next, RINGS)
           c == Contents(from, RINGS)
           at == IF next = 0 THEN from.section[RINGS].offset ELSE next
           end == End(from.section[RINGS])
<1>1. Tiled(c) /\ c \in Seq(Cells) /\ (RINGS \in Present(from) => c # << >>) /\ (RINGS \notin Present(from) => c = << >>)
  BY ContentsType, RingAssumption DEF Readable, Ready, Reflects, Placed, RingSections
<1>2. CASE RINGS \notin Present(from)
  <2>1. from.section[RINGS].offset = 0
    BY <1>2 DEF Readable, Ready, Extensible, RingSections
  <2>2. found.rc \in {"KEYWORD_NOT_FOUND", "NO_MATCH"}
    BY <2>1 DEF GetRingLayout2
  <2> HIDE DEF found
  <2> QED BY <2>2 DEF found
<1>3. CASE RINGS \in Present(from)
  <2>1. \E k \in Starts(c) : at = from.section[RINGS].offset + k - 1
    <3>1. 1 \in Starts(c)
      BY <1>1, <1>3, StartsLeast
    <3>2. from.section[RINGS].offset \in Nat
      BY RingAssumption, SectionType DEF Readable, Ready, LaidOut
    <3>3. from.section[RINGS].offset = from.section[RINGS].offset + 1 - 1
      BY <3>2
    <3> HIDE DEF c
    <3>4. CASE next = 0
      BY <3>1, <3>3, <3>4
    <3>5. CASE next # 0
      BY <3>5 DEF Blocks, c
    <3> QED BY <3>4, <3>5
  <2>2. PICK k \in Starts(c) : at = from.section[RINGS].offset + k - 1
    BY <2>1
  <2> DEFINE r == Search(from, from.section[RINGS].offset + k - 1, end, dd, phase)
  <2>3. r.rc \in {"MATCH", "EXHAUST_MATCH"} =>
           r.at \in Blocks(from, RINGS) /\ r.next \in Blocks(from, RINGS) \cup {0}
    BY <1>1, <1>3, SearchFinds DEF Readable
  <2>4. r = Search(from, at, end, dd, phase)
    BY <2>2
  <2>5. \/ found = r \/ found.rc \in {"KEYWORD_NOT_FOUND", "NO_MATCH"}
    BY <2>4 DEF GetRingLayout2
  <2> HIDE DEF found, r
  <2> QED BY <2>3, <2>5 DEF found
<1> QED BY <1>2, <1>3

(* One turn of the loop.                                                   *)
Turn(a, from, dd, phase) == ProgramTurn(a, from, dd, phase, FixedSize)
Turning(a, from) ==
    /\ a = [rc |-> a.rc, image |-> a.image, next |-> a.next, done |-> a.done]
    /\ SlwReady(a.image) /\ a.next \in Blocks(from, RINGS) \cup {0}

LEMMA TurnKeeps ==
  ASSUME NEW from, Readable(from), NEW a, Turning(a, from), NEW dd, NEW phase
  PROVE  Turning(Turn(a, from, dd, phase), from)
<1> DEFINE found == GetRingLayout2(from, dd, phase, a.next, RINGS)
           more == ProgramRing(a.image, from, found.at, FixedSize)
           b == Turn(a, from, dd, phase)
<1>1. \/ b = a
      \/ b = [a EXCEPT !.done = TRUE]
      \/ b = [a EXCEPT !.rc = "INCOMPLETE_IMG_BUILD"]
      \/ /\ found.rc \in {"MATCH", "EXHAUST_MATCH"}
         /\ b = [rc |-> more.rc, image |-> more.image, next |-> found.next, done |-> found.rc # "MATCH"]
  <2> HIDE DEF found
  <2> QED BY Zenon DEF Turn, ProgramTurn, NextRing, found
<1>2. CASE b = a
  BY <1>2
<1>3. CASE b = [a EXCEPT !.done = TRUE]
  <2> HIDE DEF b
  <2> QED BY <1>3 DEF Turning, b
<1>4. CASE b = [a EXCEPT !.rc = "INCOMPLETE_IMG_BUILD"]
  <2> HIDE DEF b
  <2> QED BY <1>4 DEF Turning, b
<1>5. CASE /\ found.rc \in {"MATCH", "EXHAUST_MATCH"}
           /\ b = [rc |-> more.rc, image |-> more.image, next |-> found.next, done |-> found.rc # "MATCH"]
  <2>1. found.at \in Blocks(from, RINGS) /\ found.next \in Blocks(from, RINGS) \cup {0}
    BY <1>5, RingFound DEF Turning
  <2> HIDE DEF found
  <2> PICK name \in RingName : \E idx \in 0 .. Elements(name) - 1 : from.mem[found.at].back = SlotOf[name] + idx
    BY <2>1, BlockData
  <2>2. PICK idx \in 0 .. Elements(name) - 1 : from.mem[found.at].back = SlotOf[name] + idx
    OBVIOUS
  <2>3. RingData(from, found.at) \in DOMAIN Program
    BY <2>1, BlockData
  <2>4. Program[RingData(from, found.at)] \in Seq(Nat)
    BY <2>3, BuildAssumption
  <2>5. more = WriteWiggleFlip(a.image, FixedSize, [back |-> from.mem[found.at].back],
                               Program[RingData(from, found.at)], MaxAlign)
    BY DEF ProgramRing, RingData
  <2>6. SlwReady(a.image) /\ [back |-> from.mem[found.at].back].back = SlotOf[name] + idx
    BY <2>2 DEF Turning
  <2>7. SlwReady(more.image)
    <3> DEFINE layout == [back |-> from.mem[found.at].back]
               program == Program[RingData(from, found.at)]
    <3>1. more = WriteWiggleFlip(a.image, FixedSize, layout, program, MaxAlign)
      BY <2>5
    <3>2. layout.back = SlotOf[name] + idx /\ program \in Seq(Nat)
      BY <2>4, <2>6
    <3> HIDE DEF layout, program, more
    <3> QED BY <2>6, <3>1, <3>2, ProgramKeepsReady
  <2> HIDE DEF more, b
  <2> QED BY <1>5, <2>1, <2>7 DEF Turning, b
<1> QED BY <1>1, <1>2, <1>3, <1>4, <1>5

(* The states of the loop, turn by turn: there is such a function, and all *)
(* of its states are of an image that is ready.                            *)
Turns(f, n, img, from, dd, phase) ==
    f = [k \in 0 .. n |-> IF k = 0 THEN AtFirst(img) ELSE Turn(f[k - 1], from, dd, phase)]

LEMMA TurnsExist ==
  ASSUME NEW img, NEW from, NEW dd, NEW phase, NEW N \in Nat
  PROVE  \E f : Turns(f, N, img, from, dd, phase)
<1> DEFINE Is(f, n) == Turns(f, n, img, from, dd, phase)
           T == {n \in 0 .. N : ~ \E f : Is(f, n)}
<1> SUFFICES ASSUME T # {} PROVE FALSE
  OBVIOUS
<1>1. PICK m \in T : \A x \in T : m <= x
  <2>1. T \subseteq Nat
    OBVIOUS
  <2> HIDE DEF T
  <2> QED BY <2>1, LeastNatural
<1>2. m # 0
  <2> DEFINE g == [k \in 0 .. 0 |-> AtFirst(img)]
  <2>1. g = [k \in 0 .. 0 |-> IF k = 0 THEN AtFirst(img) ELSE Turn(g[k - 1], from, dd, phase)]
    OBVIOUS
  <2> HIDE DEF g
  <2>2. Is(g, 0)
    BY <2>1 DEF Turns
  <2> QED BY <1>1, <2>2
<1>3. m \in Nat \ {0} /\ m - 1 \in 0 .. N /\ ~ (m <= m - 1)
  BY <1>1, <1>2
<1>4. m - 1 \notin T
  <2> HIDE DEF T
  <2> QED BY <1>1, <1>3
<1>5. PICK g : Is(g, m - 1)
  <2> HIDE DEF Is
  <2> QED BY <1>3, <1>4
<1> DEFINE h == [k \in 0 .. m |-> IF k = 0 THEN AtFirst(img) ELSE Turn(g[k - 1], from, dd, phase)]
<1>6. \A j \in 0 .. m - 1 : h[j] = g[j]
  <2>1. g = [k \in 0 .. m - 1 |-> IF k = 0 THEN AtFirst(img) ELSE Turn(g[k - 1], from, dd, phase)]
    BY <1>5 DEF Turns
  <2>2. \A j \in 0 .. m - 1 : g[j] = IF j = 0 THEN AtFirst(img) ELSE Turn(g[j - 1], from, dd, phase)
    BY <2>1
  <2>3. \A j \in 0 .. m - 1 : j \in 0 .. m
    BY <1>3
  <2> QED BY <2>2, <2>3
<1>7. \A k \in 0 .. m : k # 0 => k - 1 \in 0 .. m - 1
  BY <1>3
<1>8. h = [k \in 0 .. m |-> IF k = 0 THEN AtFirst(img) ELSE Turn(h[k - 1], from, dd, phase)]
  <2>1. \A k \in 0 .. m : (IF k = 0 THEN AtFirst(img) ELSE Turn(g[k - 1], from, dd, phase))
                        = (IF k = 0 THEN AtFirst(img) ELSE Turn(h[k - 1], from, dd, phase))
    <3> HIDE DEF h
    <3> QED BY <1>6, <1>7
  <2> QED BY <2>1
<1> HIDE DEF h
<1>9. Is(h, m)
  BY <1>8 DEF Turns
<1> QED BY <1>1, <1>9

(* Nor does any number of turns disturb what the tables need.              *)
LEMMA TurnsKeep ==
  ASSUME NEW from, Readable(from), NEW img, SlwReady(img), NEW dd, NEW phase, NEW N \in Nat,
         NEW f, Turns(f, N, img, from, dd, phase)
  PROVE  \A k \in 0 .. N : Turning(f[k], from)
<1> DEFINE T == {n \in 0 .. N : ~ Turning(f[n], from)}
<1> SUFFICES ASSUME T # {} PROVE FALSE
  OBVIOUS
<1>1. PICK m \in T : \A x \in T : m <= x
  <2>1. T \subseteq Nat
    OBVIOUS
  <2> HIDE DEF T
  <2> QED BY <2>1, LeastNatural
<1>2. \A k \in 0 .. N : f[k] = IF k = 0 THEN AtFirst(img) ELSE Turn(f[k - 1], from, dd, phase)
  <2>1. f = [k \in 0 .. N |-> IF k = 0 THEN AtFirst(img) ELSE Turn(f[k - 1], from, dd, phase)]
    BY DEF Turns
  <2> QED BY <2>1
<1>3. m # 0
  <2>1. Turning(AtFirst(img), from)
    BY DEF Turning, AtFirst
  <2>2. 0 \in 0 .. N
    OBVIOUS
  <2> QED BY <1>1, <1>2, <2>1, <2>2
<1>4. m \in 0 .. N /\ m - 1 \in 0 .. N /\ ~ (m <= m - 1)
  BY <1>1, <1>3
<1>5. Turning(f[m - 1], from)
  <2>1. m - 1 \notin T
    <3> HIDE DEF T
    <3> QED BY <1>1, <1>4
  <2> QED BY <1>4, <2>1
<1>6. Turning(f[m], from)
  BY <1>2, <1>3, <1>4, <1>5, TurnKeeps
<1> QED BY <1>1, <1>6

(* The programs of a level leave an SLW image ready for its tables.        *)
LEMMA ProgramsKeepReady ==
  ASSUME NEW from, Readable(from), NEW img, SlwReady(img), NEW dd, NEW phase
  PROVE  LET r == Programs(img, from, dd, phase, FixedSize)
         IN  SlwReady(r.image)
<1> DEFINE N == BufferSize
           f == CHOOSE g : g = [k \in 0 .. N |->
                    IF k = 0 THEN AtFirst(img) ELSE ProgramTurn(g[k - 1], from, dd, phase, FixedSize)]
           r == Programs(img, from, dd, phase, FixedSize)
<1>1. N \in Nat
  BY XipAssumption
<1>2. r = Answer(f[N].rc, f[N].image)
  BY DEF Programs
<1>3. Turns(f, N, img, from, dd, phase)
  <2>1. PICK g : Turns(g, N, img, from, dd, phase)
    BY <1>1, TurnsExist
  <2>2. f = CHOOSE h : Turns(h, N, img, from, dd, phase)
    BY DEF Turns, Turn
  <2> HIDE DEF f
  <2> QED BY <2>1, <2>2
<1> HIDE DEF f, N
<1>4. SlwReady(f[N].image)
  <2>1. N \in 0 .. N
    BY <1>1
  <2>2. \A k \in 0 .. N : Turning(f[k], from)
    BY <1>1, <1>3, TurnsKeep
  <2> QED BY <2>1, <2>2 DEF Turning
<1> HIDE DEF r
<1>5. r.image = f[N].image
  BY <1>2, AnswerFields
<1> QED BY <1>4, <1>5 DEF r

(***************************************************************************)
(* Both sections of rings are taken off the reference image before.        *)
(***************************************************************************)
LEMMA SectionDeleted ==
  ASSUME NEW img, Ready(img), NEW s \in RingSections, Delete(img, s).rc = "OK"
  PROVE  LET r == Delete(img, s)
         IN  Ready(r.image) /\ LeftAlone(img, r.image) /\ Present(r.image) = Present(img) \ {s}
<1> DEFINE d == DoDelete(img, s)
           r == Delete(img, s)
           v == Then(d, Validated)
<1>1. \/ r = v /\ v.rc = "OK"
      \/ v.rc # "OK" /\ r = [v EXCEPT !.rc = "SECTION_DELETE"]
  BY DEF Delete, Mapped
<1>2. d = [rc |-> d.rc, image |-> d.image]
  BY DEF DoDelete
<1>3. v = IF d.rc = "OK" THEN Answer(IF LayoutCheck(d.image, d.image.size, FALSE) = "OK" THEN "OK" ELSE "XIP_MISC", d.image)
          ELSE d
  BY DEF Then, Validated
<1> HIDE DEF d, r, v
<1>4. DOMAIN v = {"rc", "image"} /\ v.image = d.image
  BY <1>2, <1>3, AnswerFields
<1>5. v.rc = "OK" /\ r = v
  BY <1>1, <1>4 DEF r
<1>6. d.rc = "OK" /\ r.image = d.image
  BY <1>3, <1>4, <1>5
<1>7. CASE s \in Present(img)
  BY <1>6, <1>7, DeleteShrinks DEF Shrunk, d, r
<1>8. CASE s \notin Present(img)
  <2>1. d = Answer("OK", img) \/ d = Answer(QuickCheck(img, TRUE), img)
    BY <1>8 DEF DoDelete, d, Final, Answer
  <2>2. \E rc : d = Answer(rc, img)
    BY <2>1, Zenon
  <2>3. d.image = img
    BY <2>2, AnswerFields
  <2>4. LeftAlone(img, img)
    BY DEF LeftAlone, KeptFrom, SlotsStay
  <2> QED BY <1>6, <1>8, <2>3, <2>4 DEF r
<1> QED BY <1>7, <1>8

(* p8_slw_build makes an image that is ready for its tables.               *)
LEMMA SlwBuildReady ==
  ASSUME NEW from, Readable(from), NEW base \in Images, KeptFrom(base, from), NEW dd, SlwBuild(from, dd).rc = "OK"
  PROVE  SlwReady(SlwBuild(from, dd).image)
<1> DEFINE one == Delete(from, DCRINGS)
           two == Then(one, LAMBDA i : Delete(i, RINGS))
           r == SlwBuild(from, dd)
<1>1. r = Then(two, LAMBDA i : Programs(i, from, dd, 1, FixedSize))
  BY DEF SlwBuild
<1>2. two.rc = "OK" /\ r = Programs(two.image, from, dd, 1, FixedSize)
  <2> HIDE DEF two
  <2> QED BY <1>1 DEF Then
<1>3. one.rc = "OK" /\ two = Delete(one.image, RINGS)
  <2> HIDE DEF one
  <2> QED BY <1>2 DEF Then
<1>4. Ready(one.image) /\ LeftAlone(from, one.image) /\ Present(one.image) = Present(from) \ {DCRINGS}
  BY <1>3, SectionDeleted DEF Readable, RingSections
<1> HIDE DEF one, two
<1>5. Ready(two.image) /\ LeftAlone(one.image, two.image) /\ Present(two.image) = Present(one.image) \ {RINGS}
  BY <1>2, <1>3, <1>4, SectionDeleted DEF RingSections
<1>6. DCRINGS \notin Present(two.image)
  BY <1>4, <1>5
<1>7. KeptFrom(base, two.image)
  BY <1>4, <1>5, KeptThrough DEF LeftAlone
<1>8. SlwReady(two.image)
  BY <1>5, <1>6, <1>7, LaidOutIsShaped DEF SlwReady, Ready
<1>9. SlwReady(Programs(two.image, from, dd, 1, FixedSize).image)
  BY <1>8, ProgramsKeepReady
<1> QED BY <1>2, <1>9

-----------------------------------------------------------------------------
(***************************************************************************)
(* The sections of the tables, and the pointers to them.                   *)
(***************************************************************************)
Pointers == TablePointers \cup {RuntimeScom[1]}

LEMMA PointerTypes ==
  /\ \A core \in CoreIds : core \in Nat /\ RamVector + core \in TablePointers /\ RamVector + core \in Nat
  /\ \A core \in CoreIds, part \in Parts : ScomVectors[part] + core \in TablePointers /\ ScomVectors[part] + core \in Nat
  /\ \A p \in Pointers : p \in Nat
<1>1. \A core \in CoreIds : core \in Nat
  BY SpaceTypes DEF CoreIds
<1>2. RamVector \in Nat /\ \A part \in Parts : ScomVectors[part] \in Nat
  BY SlwAssumption
<1>3. RuntimeScom[1] \in Nat
  BY BuildAssumption
<1> QED BY <1>1, <1>2, <1>3 DEF Pointers, TablePointers

(* A ready image has the pointers below its end, in sections of their own, *)
(* those of the RAM tables still zero, and none of the tables' sections.   *)
LEMMA ReadyPointers ==
  ASSUME NEW img, SlwReady(img)
  PROVE  /\ {SLW, FIT, FFDC} \cap Present(img) = {}
         /\ \A p \in Pointers : Cell(p) \in 0 .. img.size - 1 /\ \E t \in Present(img) : Cell(p) < End(img.section[t])
         /\ \A core \in CoreIds : img.mem[Cell(RamVector + core)] = Word(0)
<1>1. PICK base \in Images : KeptFrom(base, img)
  BY DEF SlwReady
<1>2. {SLW, FIT, FFDC} \subseteq Sections \ RingSections
  BY SlwAssumption DEF SLW, FIT, FFDC, RingSections, RINGS, DCRINGS
<1>3. {SLW, FIT, FFDC} \cap Present(img) = {}
  BY <1>1, <1>2, BuildAssumption DEF KeptFrom, Present
<1>4. ASSUME NEW p \in Pointers
      PROVE  \E t \in Present(img) \ RingSections : /\ img.section[t] = base.section[t]
                                                     /\ InSection(base, t, Cell(p))
  <2>1. PICK t \in Present(base) \ RingSections : InSection(base, t, Cell(p))
    BY BuildAssumption DEF Pointers
  <2>2. t \in Sections \ RingSections /\ img.section[t] = base.section[t]
    BY <1>1, <2>1 DEF KeptFrom, Present
  <2> QED BY <2>1, <2>2 DEF Present
<1>5. ASSUME NEW p \in Pointers
      PROVE  Cell(p) \in 0 .. img.size - 1 /\ \E t \in Present(img) : Cell(p) < End(img.section[t])
  <2>1. PICK t \in Present(img) \ RingSections : /\ img.section[t] = base.section[t]
                                                  /\ InSection(base, t, Cell(p))
    BY <1>4
  <2>2. Cell(p) \in img.section[t].offset .. End(img.section[t]) - 1
    BY <2>1 DEF InSection
  <2>3. /\ img.section[t].offset \in Nat /\ End(img.section[t]) \in Nat /\ img.size \in Nat
        /\ End(img.section[t]) <= img.size
    BY <2>1, ShapedTypes DEF SlwReady, Present
  <2>4. Cell(p) \in 0 .. img.size - 1 /\ Cell(p) < End(img.section[t])
    BY <2>2, <2>3
  <2> QED BY <2>1, <2>4
<1>6. ASSUME NEW core \in CoreIds
      PROVE  img.mem[Cell(RamVector + core)] = Word(0)
  <2> DEFINE p == RamVector + core
  <2>1. p \in TablePointers /\ p \in Nat /\ p \in Pointers
    BY PointerTypes DEF Pointers
  <2>2. PICK t \in Present(img) \ RingSections : /\ img.section[t] = base.section[t]
                                                  /\ InSection(base, t, Cell(p))
    BY <1>4, <2>1
  <2>3. ~ IsSlot(Cell(p))
    <3> SUFFICES ASSUME NEW name \in RingName, NEW i \in 0 .. Elements(name) - 1,
                        Cell(p) = (SlotOf[name] + i) - LinkAddress
                 PROVE  FALSE
      BY DEF IsSlot
    <3>1. SlotOf[name] + i \notin TablePointers
      BY BuildAssumption
    <3>2. SlotOf[name] + i \in Nat
      BY AddressOfSlot
    <3>3. SlotOf[name] + i = p
      <4> DEFINE z == SlotOf[name] + i
      <4>1. Cell(p) = z - LinkAddress /\ z \in Nat
        BY <3>2
      <4> HIDE DEF p, z
      <4> QED BY <2>1, <4>1, XipAssumption DEF Cell, z
    <3> HIDE DEF p
    <3> QED BY <2>1, <3>1, <3>3
  <2> HIDE DEF p
  <2>4. img.mem[Cell(p)] = base.mem[Cell(p)]
    BY <1>1, <2>2, <2>3 DEF KeptFrom, InSection, Present
  <2>5. base.mem[Cell(p)] = Word(0)
    BY BuildAssumption DEF p
  <2> QED BY <2>4, <2>5 DEF p
<1> QED BY <1>3, <1>5, <1>6

(* A vector of addresses laid over memory.                                 *)
VectorIn(mem, m, vector, first, space) ==
    /\ MemoryOf(m)
    /\ \A core \in CoreIds : Cell(vector + core) \in 0 .. BufferSize - 1 =>
          m[Cell(vector + core)] = Word(first + space * core)
    /\ \A a \in 0 .. BufferSize - 1 : (\A core \in CoreIds : a # Cell(vector + core)) => m[a] = mem[a]

LEMMA VectorLaid ==
  ASSUME NEW mem, MemoryOf(mem), NEW vector \in Nat, NEW first \in Nat, NEW space \in Nat,
         NEW m, m = Laid(mem, VectorCells(vector, first, space))
  PROVE  VectorIn(mem, m, vector, first, space)
<1> DEFINE low == vector - LinkAddress
           cells == VectorCells(vector, first, space)
<1>1. DOMAIN mem = 0 .. BufferSize - 1 /\ BufferSize \in Nat /\ LinkAddress \in Nat /\ Cores \in Nat
  BY XipAssumption, SpaceTypes DEF MemoryOf
<1>2. cells = [a \in low .. low + Cores - 1 |-> Word(first + space * (a + LinkAddress - vector))]
  BY DEF VectorCells
<1>3. m = [a \in 0 .. BufferSize - 1 |-> IF a \in DOMAIN cells THEN cells[a] ELSE mem[a]]
  BY <1>1 DEF Laid
<1>4. MemoryOf(m)
  <2> HIDE DEF cells
  <2> QED BY <1>3 DEF MemoryOf
<1>5. ASSUME NEW core \in CoreIds, Cell(vector + core) \in 0 .. BufferSize - 1
      PROVE  m[Cell(vector + core)] = Word(first + space * core)
  <2> DEFINE a == Cell(vector + core)
  <2>1. core \in Nat /\ core < Cores
    BY <1>1 DEF CoreIds
  <2>2. a = low + core /\ a \in low .. low + Cores - 1 /\ a + LinkAddress - vector = core
    BY <1>1, <2>1 DEF Cell
  <2> HIDE DEF a, low, cells
  <2>3. cells[a] = Word(first + space * core) /\ DOMAIN cells = low .. low + Cores - 1
    BY <1>2, <2>2
  <2>4. a \in 0 .. BufferSize - 1
    BY <1>5 DEF a
  <2>5. m[a] = cells[a]
    BY <1>3, <2>2, <2>3, <2>4
  <2> QED BY <2>3, <2>5 DEF a
<1>6. ASSUME NEW a \in 0 .. BufferSize - 1, \A core \in CoreIds : a # Cell(vector + core)
      PROVE  m[a] = mem[a]
  <2>1. a \notin low .. low + Cores - 1
    <3> SUFFICES ASSUME a \in low .. low + Cores - 1 PROVE FALSE
      OBVIOUS
    <3>1. a - low \in CoreIds /\ a = Cell(vector + (a - low))
      BY <1>1 DEF CoreIds, Cell
    <3> QED BY <1>6, <3>1
  <2>2. DOMAIN cells = low .. low + Cores - 1
    BY <1>2
  <2> HIDE DEF cells
  <2> QED BY <1>3, <2>1, <2>2
<1> QED BY <1>4, <1>5, <1>6 DEF VectorIn

-----------------------------------------------------------------------------
(***************************************************************************)
(* The sections of the tables are appended empty, and zero.                *)
(***************************************************************************)
SpaceAdded(img, s, size, r) ==
    /\ Shaped(r)
    /\ \A t \in Sections \ {s} : r.section[t] = img.section[t]
    /\ \A t \in Present(img) : \A a \in 0 .. BufferSize - 1 :
          a < End(img.section[t]) => r.mem[a] = img.mem[a]
    /\ r.section[s].size = size
    /\ size = 0 => r = img
    /\ size # 0 => /\ r.section[s].offset >= img.size /\ r.size = r.section[s].offset + size
                   /\ \A k \in 0 .. size - 1 : r.mem[r.section[s].offset + k] = Zero

(* An append that succeeds has appended the section, at the end of the     *)
(* image when this is of fixed size.                                       *)
LEMMA EmptyAppended ==
  ASSUME NEW img, Shaped(img), NEW s \in Sections, s \notin Present(img), NEW size \in Nat,
         NEW max \in 0 .. BufferSize, NEW fixed \in BOOLEAN, AppendSized(img, max, s, size, fixed).rc = "OK"
  PROVE  /\ SpaceAdded(img, s, size, AppendSized(img, max, s, size, fixed).image)
         /\ fixed => AppendSized(img, max, s, size, fixed).image.size = img.size + size
<1> DEFINE e == AppendEmpty(img, max, s, size, fixed)
           r == AppendSized(img, max, s, size, fixed)
           data == [i \in 1 .. size |-> Zero]
           estimate == img.size + size + (IF fixed THEN 0 ELSE SlwAlignment)
           d == DoAppend(img, s, data, estimate)
<1>1. e.rc = "OK" /\ r = Sized(e.image, s, size)
  <2>1. r = Then(e, LAMBDA i : Sized(i, s, size))
    BY Zenon DEF AppendSized
  <2> HIDE DEF e
  <2>2. r = IF e.rc = "OK" THEN Sized(e.image, s, size) ELSE e
    BY <2>1, Zenon DEF Then
  <2>3. r.rc = "OK"
    OBVIOUS
  <2> HIDE DEF r
  <2> QED BY <2>2, <2>3
<1>2. r.image = e.image /\ e.image.section[s].size = size
  <2>1. \A x : Answer(IF x = size THEN "OK" ELSE "SECTION_SIZING", e.image).rc = "OK" => x = size
    BY AnswerFields
  <2> HIDE DEF e
  <2>2. r.rc = "OK"
    OBVIOUS
  <2>3. r = Answer(IF e.image.section[s].size = size THEN "OK" ELSE "SECTION_SIZING", e.image)
    BY <1>1, Zenon DEF Sized
  <2> HIDE DEF r
  <2> QED BY <2>1, <2>2, <2>3, AnswerFields
<1>3. \/ size = 0 /\ e = Answer("OK", img)
      \/ size # 0 /\ e = Answer("IMAGE_TOO_LARGE", img)
      \/ size # 0 /\ e = Answer("IMAGE_ERROR", d.image)
      \/ size # 0 /\ estimate <= max /\ d.rc = "OK" /\ e = Validated(d.image)
  <2>1. e = IF size = 0 THEN Answer("OK", img)
            ELSE IF estimate > max THEN Answer("IMAGE_TOO_LARGE", img)
            ELSE IF d.rc # "OK" THEN Answer("IMAGE_ERROR", d.image)
            ELSE Validated(d.image)
    BY Zenon DEF AppendEmpty
  <2>2. estimate \in Nat /\ max \in Nat
    BY ShapedTypes, SlwAssumption
  <2> HIDE DEF estimate, d, e
  <2> QED BY <2>1, <2>2
<1>4. /\ size # 0 => estimate <= max /\ d.rc = "OK" /\ e.image = d.image
      /\ size = 0 => e.image = img
  <2>1. \A i : Validated(i).image = i
    BY AnswerFields DEF Validated
  <2> HIDE DEF e, d, estimate
  <2> QED BY <1>1, <1>3, <2>1, AnswerFields
<1>5. img.section[s].size = 0 /\ img.size \in Nat
  BY ShapedTypes
<1>6. CASE size = 0
  <2>1. r.image = img
    BY <1>2, <1>4, <1>6
  <2> HIDE DEF r
  <2> QED BY <1>5, <1>6, <2>1 DEF SpaceAdded, r
<1>7. CASE size # 0
  <2>1. data \in Seq({Zero}) /\ Len(data) = size /\ data # << >> /\ \A k \in 1 .. size : data[k] = Zero
    BY <1>7
  <2>2. estimate \in 0 .. BufferSize /\ (fixed => estimate = img.size + size)
    BY <1>4, <1>5, <1>7, SlwAssumption, XipAssumption
  <2> HIDE DEF data, estimate
  <2>3. Appends(img, s, data, estimate, d)
    BY <2>1, <2>2, AppendOutcome
  <2>4. d.rc = "OK" /\ r.image = d.image
    BY <1>2, <1>4, <1>7
  <2> HIDE DEF d, e, r
  <2>5. /\ Shaped(d.image)
        /\ \A t \in Sections \ {s} : d.image.section[t] = img.section[t]
        /\ \A t \in Present(img) : \A a \in 0 .. BufferSize - 1 :
              a < End(img.section[t]) => d.image.mem[a] = img.mem[a]
        /\ d.image.size = AppendStart(img, s) + size /\ d.image.size <= estimate
        /\ d.image.section[s].size = size
        /\ d.image.section[s].offset + img.section[s].size = AppendStart(img, s)
        /\ \A k \in 1 .. size : d.image.mem[AppendStart(img, s) + k - 1] = Zero
    <3>1. /\ Shaped(d.image)
          /\ \A t \in Sections \ {s} : d.image.section[t] = img.section[t]
          /\ \A t \in Present(img) : \A a \in 0 .. BufferSize - 1 :
                a < End(img.section[t]) => d.image.mem[a] = img.mem[a]
      BY <2>3 DEF Appends
    <3>2. /\ d.image.size = AppendStart(img, s) + Len(data) /\ d.image.size <= estimate
          /\ d.image.section[s].size = img.section[s].size + Len(data)
          /\ d.image.section[s].offset + img.section[s].size = AppendStart(img, s)
          /\ \A k \in 1 .. Len(data) : d.image.mem[AppendStart(img, s) + k - 1] = data[k]
      BY <2>1, <2>3, <2>4 DEF Appends
    <3>3. d.image.section[s].size = size
      BY <1>5, <2>1, <3>2
    <3> QED BY <2>1, <3>1, <3>2, <3>3
  <2>6. AppendStart(img, s) \in Nat /\ AppendStart(img, s) >= img.size
    BY <1>5, ShapedStart
  <2>7. d.image.section[s].offset \in Nat
    BY <2>5, ShapedTypes
  <2>8. d.image.section[s].offset = AppendStart(img, s)
    BY <1>5, <2>5, <2>6, <2>7
  <2>9. \A k \in 0 .. size - 1 : d.image.mem[d.image.section[s].offset + k] = Zero
    <3>1. ASSUME NEW k \in 0 .. size - 1 PROVE d.image.mem[d.image.section[s].offset + k] = Zero
      <4>1. k + 1 \in 1 .. size /\ AppendStart(img, s) + (k + 1) - 1 = AppendStart(img, s) + k
        BY <2>6
      <4> QED BY <2>5, <2>8, <4>1
    <3> QED BY <3>1
  <2>10. fixed => d.image.size = img.size + size
    BY <1>5, <2>2, <2>5, <2>6
  <2> QED BY <1>7, <2>4, <2>5, <2>6, <2>8, <2>9, <2>10 DEF SpaceAdded, r
<1> QED BY <1>6, <1>7

-----------------------------------------------------------------------------
(***************************************************************************)
(* The tables are emptied and the vectors set.                             *)
(***************************************************************************)
Framed(img) == img = Fields(img, img.mem) /\ MemoryOf(img.mem)

(* Memory that is replaced keeps an image's other fields.                  *)
LEMMA FramedMemory ==
  ASSUME NEW img, Framed(img), NEW mem, MemoryOf(mem), NEW r, r = [img EXCEPT !.mem = mem]
  PROVE  Framed(r) /\ r.mem = mem /\ r.size = img.size /\ r.section = img.section
<1>1. r = Fields(img, mem)
  BY DEF Framed, Fields
<1>2. r.mem = mem /\ r.size = img.size /\ r.section = img.section
      /\ r.magic = img.magic /\ r.normalized = img.normalized /\ r.tocSorted = img.tocSorted
  BY <1>1 DEF Fields
<1>3. r = Fields(r, r.mem)
  BY <1>1, <1>2 DEF Fields
<1> QED BY <1>2, <1>3 DEF Framed

(* A cell of an address is the cell of no other.                           *)
LEMMA CellsApart ==
  /\ \A p, q \in Nat : Cell(p) = Cell(q) => p = q
  /\ \A part \in Parts, c, d \in CoreIds :
        /\ Cell(RamVector + c) # Cell(ScomVectors[part] + d)
        /\ \A p \in Parts \ {part} : Cell(ScomVectors[p] + c) # Cell(ScomVectors[part] + d)
        /\ c # d => /\ Cell(RamVector + c) # Cell(RamVector + d)
                    /\ Cell(ScomVectors[part] + c) # Cell(ScomVectors[part] + d)
<1>1. \A p, q \in Nat : Cell(p) = Cell(q) => p = q
  BY XipAssumption DEF Cell
<1>2. ASSUME NEW part \in Parts, NEW c \in CoreIds, NEW d \in CoreIds
      PROVE  /\ Cell(RamVector + c) # Cell(ScomVectors[part] + d)
             /\ \A p \in Parts \ {part} : Cell(ScomVectors[p] + c) # Cell(ScomVectors[part] + d)
             /\ c # d => /\ Cell(RamVector + c) # Cell(RamVector + d)
                         /\ Cell(ScomVectors[part] + c) # Cell(ScomVectors[part] + d)
  <2>1. c \in Nat /\ d \in Nat /\ RamVector \in Nat /\ \A p \in Parts : ScomVectors[p] \in Nat
    BY PointerTypes, SlwAssumption
  <2>2. /\ RamVector + c # ScomVectors[part] + d
        /\ \A p \in Parts \ {part} : ScomVectors[p] + c # ScomVectors[part] + d
    BY SlwAssumption
  <2>3. c # d => RamVector + c # RamVector + d /\ ScomVectors[part] + c # ScomVectors[part] + d
    BY <2>1
  <2>4. /\ RamVector + c \in Nat /\ RamVector + d \in Nat
        /\ \A p \in Parts : ScomVectors[p] + c \in Nat /\ ScomVectors[p] + d \in Nat
    BY <2>1
  <2> QED BY <1>1, <2>2, <2>3, <2>4
<1> QED BY <1>1, <1>2

(* The vector of one part's SCOM tables.                                   *)
VectorSet(mem, m, p, start) ==
    /\ MemoryOf(m)
    /\ \A core \in CoreIds : m[Cell(ScomVectors[p] + core)] = Word(start + ScomTable(core, p))
    /\ \A a \in 0 .. BufferSize - 1 : (\A core \in CoreIds : a # Cell(ScomVectors[p] + core)) => m[a] = mem[a]

LEMMA VectorIsSet ==
  ASSUME NEW mem, MemoryOf(mem), NEW start \in Nat, NEW p \in Parts,
         \A core \in CoreIds : Cell(ScomVectors[p] + core) \in 0 .. BufferSize - 1,
         NEW m, m = Laid(mem, VectorCells(ScomVectors[p], start + PartStart(p), ScomSpace(p)))
  PROVE  VectorSet(mem, m, p, start)
<1> DEFINE first == start + PartStart(p)
<1>1. ScomVectors[p] \in Nat /\ first \in Nat /\ ScomSpace(p) \in Nat /\ PartStart(p) \in Nat
  BY SlwAssumption, SpaceTypes, PartStarts DEF Parts
<1>2. m = Laid(mem, VectorCells(ScomVectors[p], first, ScomSpace(p)))
  OBVIOUS
<1> HIDE DEF first
<1>3. /\ MemoryOf(m)
      /\ \A core \in CoreIds : Cell(ScomVectors[p] + core) \in 0 .. BufferSize - 1 =>
            m[Cell(ScomVectors[p] + core)] = Word(first + ScomSpace(p) * core)
      /\ \A a \in 0 .. BufferSize - 1 : (\A core \in CoreIds : a # Cell(ScomVectors[p] + core)) => m[a] = mem[a]
  <2>1. VectorIn(mem, m, ScomVectors[p], first, ScomSpace(p))
    BY <1>1, <1>2, VectorLaid
  <2> QED BY <2>1 DEF VectorIn
<1>4. ASSUME NEW core \in CoreIds PROVE first + ScomSpace(p) * core = start + ScomTable(core, p)
  <2>1. core \in Nat
    BY PointerTypes
  <2>2. ScomSpace(p) * core \in Nat
    BY <1>1, <2>1
  <2> QED BY <1>1, <2>2 DEF ScomTable, first
<1> QED BY <1>3, <1>4 DEF VectorSet

(* The vectors of the SCOM tables, set one after the other.                *)
AllVectorsSet(mem, m, start) ==
    /\ MemoryOf(m)
    /\ \A core \in CoreIds, part \in Parts :
          m[Cell(ScomVectors[part] + core)] = Word(start + ScomTable(core, part))
    /\ \A a \in 0 .. BufferSize - 1 :
          (\A core \in CoreIds, part \in Parts : a # Cell(ScomVectors[part] + core)) => m[a] = mem[a]

LEMMA VectorsLaid ==
  ASSUME NEW mem, NEW start \in Nat, NEW m1, NEW m2, NEW r,
         \A core \in CoreIds, part \in Parts : Cell(ScomVectors[part] + core) \in 0 .. BufferSize - 1,
         VectorSet(mem, m1, 1, start), VectorSet(m1, m2, 2, start), VectorSet(m2, r, 3, start)
  PROVE  AllVectorsSet(mem, r, start)
<1>2. 1 \in Parts /\ 2 \in Parts /\ 3 \in Parts /\ \A part \in Parts : part = 1 \/ part = 2 \/ part = 3
  BY DEF Parts
<1>7. /\ \A core \in CoreIds : m1[Cell(ScomVectors[1] + core)] = Word(start + ScomTable(core, 1))
      /\ \A a \in 0 .. BufferSize - 1 : (\A core \in CoreIds : a # Cell(ScomVectors[1] + core)) => m1[a] = mem[a]
  BY Zenon DEF VectorSet
<1>8. /\ \A core \in CoreIds : m2[Cell(ScomVectors[2] + core)] = Word(start + ScomTable(core, 2))
      /\ \A a \in 0 .. BufferSize - 1 : (\A core \in CoreIds : a # Cell(ScomVectors[2] + core)) => m2[a] = m1[a]
  BY Zenon DEF VectorSet
<1>9. /\ \A core \in CoreIds : r[Cell(ScomVectors[3] + core)] = Word(start + ScomTable(core, 3))
      /\ \A a \in 0 .. BufferSize - 1 : (\A core \in CoreIds : a # Cell(ScomVectors[3] + core)) => r[a] = m2[a]
  BY Zenon DEF VectorSet
<1>4. ASSUME NEW core \in CoreIds, NEW part \in Parts
      PROVE  r[Cell(ScomVectors[part] + core)] = Word(start + ScomTable(core, part))
  <2> DEFINE a == Cell(ScomVectors[part] + core)
  <2>1. a \in 0 .. BufferSize - 1 /\ \A p \in Parts \ {part} : \A c \in CoreIds : a # Cell(ScomVectors[p] + c)
    BY CellsApart
  <2>2. CASE part = 3
    BY <1>9, <2>2
  <2>3. CASE part = 2
    <3>1. m2[a] = Word(start + ScomTable(core, part))
      BY <1>8, <2>3
    <3>2. r[a] = m2[a]
      <4>1. \A c \in CoreIds : a # Cell(ScomVectors[3] + c)
        BY <1>2, <2>1, <2>3
      <4> HIDE DEF a
      <4> QED BY <1>9, <2>1, <4>1
    <3> QED BY <3>1, <3>2
  <2>4. CASE part = 1
    <3>1. m1[a] = Word(start + ScomTable(core, part))
      BY <1>7, <2>4
    <3>2. r[a] = m2[a]
      <4>1. \A c \in CoreIds : a # Cell(ScomVectors[3] + c)
        BY <1>2, <2>1, <2>4
      <4> HIDE DEF a
      <4> QED BY <1>9, <2>1, <4>1
    <3>3. m2[a] = m1[a]
      <4>1. \A c \in CoreIds : a # Cell(ScomVectors[2] + c)
        BY <1>2, <2>1, <2>4
      <4> HIDE DEF a
      <4> QED BY <1>8, <2>1, <4>1
    <3> QED BY <3>1, <3>2, <3>3
  <2> QED BY <1>2, <2>2, <2>3, <2>4
<1>5. ASSUME NEW a \in 0 .. BufferSize - 1, \A core \in CoreIds, part \in Parts : a # Cell(ScomVectors[part] + core)
      PROVE  r[a] = mem[a]
  <2>1. \A core \in CoreIds : /\ a # Cell(ScomVectors[1] + core) /\ a # Cell(ScomVectors[2] + core)
                               /\ a # Cell(ScomVectors[3] + core)
    BY <1>2, <1>5
  <2> QED BY <1>7, <1>8, <1>9, <2>1
<1> QED BY <1>4, <1>5 DEF VectorSet, AllVectorsSet

(* Where the tables of an image are, after the pointers to them.           *)
SlwStart(img) == img.section[SLW].offset
SlwPlaced(img) ==
    /\ Framed(img)
    /\ SlwStart(img) \in Nat /\ img.section[SLW].size = SlwSize /\ SlwStart(img) + SlwSize <= BufferSize
    /\ \A p \in Pointers : Cell(p) \in 0 .. SlwStart(img) - 1
RamAt(img, core) == SlwStart(img) + RamTable(core)
ScomPlace(img, core, part) == SlwStart(img) + ScomTable(core, part)
ScomsLead(img) == \A core \in CoreIds, part \in Parts :
    img.mem[Cell(ScomVectors[part] + core)] = Word(LinkAddress + ScomPlace(img, core, part))

(* The places of the tables' entries: after all pointers, and in memory.   *)
LEMMA TablePlaces ==
  ASSUME NEW img, SlwPlaced(img)
  PROVE  /\ BufferSize \in Nat /\ DOMAIN img.mem = 0 .. BufferSize - 1
         /\ \A core \in CoreIds, k \in 0 .. RamOps - 1 :
               /\ RamAt(img, core) \in Nat /\ SlwStart(img) <= RamAt(img, core)
               /\ RamAt(img, core) + k \in 0 .. BufferSize - 1
               /\ RamAt(img, core) + k < SlwStart(img) + PartStart(1)
         /\ \A core \in CoreIds, part \in Parts : \A k \in 0 .. ScomOps[part] :
               /\ ScomPlace(img, core, part) \in Nat
               /\ SlwStart(img) + PartStart(1) <= ScomPlace(img, core, part)
               /\ ScomPlace(img, core, part) + k \in 0 .. BufferSize - 1
               /\ ScomPlace(img, core, part) + k < SlwStart(img) + TableSize
         /\ PartStart(1) \in Nat /\ TableSize \in Nat /\ SlwStart(img) + TableSize <= BufferSize
<1>1. /\ BufferSize \in Nat /\ SlwStart(img) \in Nat /\ SlwStart(img) + SlwSize <= BufferSize
      /\ SlwSize \in Nat /\ TableSize <= SlwSize /\ TableSize \in Nat /\ PartStart(1) \in Nat
      /\ DOMAIN img.mem = 0 .. BufferSize - 1
  BY SlwSizeBounds, PartStarts, XipAssumption DEF SlwPlaced, Framed, MemoryOf
<1>2. SlwStart(img) + TableSize <= BufferSize
  BY <1>1
<1>3. ASSUME NEW core \in CoreIds, NEW k \in 0 .. RamOps - 1
      PROVE  /\ RamAt(img, core) \in Nat /\ SlwStart(img) <= RamAt(img, core)
             /\ RamAt(img, core) + k \in 0 .. BufferSize - 1
             /\ RamAt(img, core) + k < SlwStart(img) + PartStart(1)
  <2>1. RamTable(core) \in Nat /\ RamTable(core) + RamOps <= PartStart(1) /\ PartStart(1) <= TableSize
    BY TableBounds
  <2>2. RamOps \in Nat
    BY SpaceTypes
  <2> QED BY <1>1, <1>2, <2>1, <2>2 DEF RamAt
<1>4. ASSUME NEW core \in CoreIds, NEW part \in Parts, NEW k \in 0 .. ScomOps[part]
      PROVE  /\ ScomPlace(img, core, part) \in Nat
             /\ SlwStart(img) + PartStart(1) <= ScomPlace(img, core, part)
             /\ ScomPlace(img, core, part) + k \in 0 .. BufferSize - 1
             /\ ScomPlace(img, core, part) + k < SlwStart(img) + TableSize
  <2>1. /\ ScomTable(core, part) \in Nat /\ PartStart(1) <= ScomTable(core, part)
        /\ ScomTable(core, part) + ScomSpace(part) <= TableSize
    BY TableBounds
  <2> DEFINE n == ScomOps[part]
  <2>2. n \in Nat /\ ScomSpace(part) = n + 1 /\ k \in 0 .. n
    BY SpaceTypes
  <2> HIDE DEF n
  <2> QED BY <1>1, <1>2, <2>1, <2>2 DEF ScomPlace
<1> QED BY <1>1, <1>2, <1>3, <1>4

(* Blank tables: no entry in the RAM tables, only RNNN in the others.      *)
TablesBlank(img) ==
    /\ \A core \in CoreIds, k \in 0 .. RamOps - 1 : img.mem[RamAt(img, core) + k] = Zero
    /\ \A core \in CoreIds, part \in Parts : \A k \in 0 .. ScomOps[part] :
          img.mem[ScomPlace(img, core, part) + k] = RNNN

LEMMA TablesInitialized ==
  ASSUME NEW img, SlwPlaced(img), \A k \in 0 .. SlwSize - 1 : img.mem[SlwStart(img) + k] = Zero,
         NEW r, r = SetVectors(FillTables(img))
  PROVE  /\ SlwPlaced(r) /\ TablesBlank(r) /\ ScomsLead(r)
         /\ r.section = img.section /\ r.size = img.size
         /\ \A core \in CoreIds : r.mem[Cell(RamVector + core)] = img.mem[Cell(RamVector + core)]
<1> DEFINE start == SlwStart(img)
           mem0 == [a \in DOMAIN img.mem |->
                       IF a \in (start + PartStart(1)) .. (start + TableSize - 1) THEN RNNN ELSE img.mem[a]]
           f == FillTables(img)
           first == LinkAddress + start
           m1 == Laid(mem0, VectorCells(ScomVectors[1], first + PartStart(1), ScomSpace(1)))
           m2 == Laid(m1, VectorCells(ScomVectors[2], first + PartStart(2), ScomSpace(2)))
           m3 == Laid(m2, VectorCells(ScomVectors[3], first + PartStart(3), ScomSpace(3)))
<1>1. /\ BufferSize \in Nat /\ DOMAIN img.mem = 0 .. BufferSize - 1 /\ start \in Nat /\ Framed(img)
      /\ first \in Nat /\ LinkAddress \in Nat
  BY TablePlaces, XipAssumption DEF SlwPlaced
<1>2. f = [img EXCEPT !.mem = mem0]
  BY <1>1 DEF FillTables, SlwStart, Framed, Fields
<1>3. MemoryOf(mem0)
  BY <1>1 DEF MemoryOf
<1>4. \A a \in 0 .. BufferSize - 1 : mem0[a] =
         IF a \in (start + PartStart(1)) .. (start + TableSize - 1) THEN RNNN ELSE img.mem[a]
  BY <1>1
<1> HIDE DEF f, mem0
<1>5. Framed(f) /\ f.mem = mem0 /\ f.size = img.size /\ f.section = img.section
  BY <1>1, <1>2, <1>3, FramedMemory
<1>6. r = [f EXCEPT !.mem = m3]
  <2>1. f.section[SLW].offset = start
    BY <1>5 DEF SlwStart
  <2>2. r = SetVectors(f)
    BY DEF f
  <2> QED BY <1>5, <2>1, <2>2 DEF SetVectors, Framed, Fields
<1>7. ASSUME NEW p \in Pointers PROVE Cell(p) \in 0 .. BufferSize - 1 /\ Cell(p) < start
  <2>1. Cell(p) \in 0 .. SlwStart(img) - 1
    BY DEF SlwPlaced
  <2>2. SlwStart(img) <= BufferSize
    BY <1>1, TablePlaces
  <2> QED BY <1>1, <2>1, <2>2
<1>8. /\ \A core \in CoreIds, part \in Parts : Cell(ScomVectors[part] + core) \in 0 .. BufferSize - 1
      /\ \A core \in CoreIds, part \in Parts : Cell(ScomVectors[part] + core) < start
      /\ \A core \in CoreIds : Cell(RamVector + core) \in 0 .. BufferSize - 1 /\ Cell(RamVector + core) < start
  BY <1>7, PointerTypes DEF Pointers
<1>9. VectorSet(mem0, m1, 1, first) /\ VectorSet(m1, m2, 2, first) /\ VectorSet(m2, m3, 3, first)
  <2>1. 1 \in Parts /\ 2 \in Parts /\ 3 \in Parts
    BY DEF Parts
  <2> HIDE DEF first
  <2>2. VectorSet(mem0, m1, 1, first)
    BY <1>1, <1>3, <1>8, <2>1, VectorIsSet
  <2> HIDE DEF m1
  <2>3. VectorSet(m1, m2, 2, first)
    <3>1. MemoryOf(m1)
      BY <2>2 DEF VectorSet
    <3> QED BY <1>1, <1>8, <2>1, <3>1, VectorIsSet
  <2> HIDE DEF m2
  <2>4. VectorSet(m2, m3, 3, first)
    <3>1. MemoryOf(m2)
      BY <2>3 DEF VectorSet
    <3> QED BY <1>1, <1>8, <2>1, <3>1, VectorIsSet
  <2> QED BY <2>2, <2>3, <2>4
<1> HIDE DEF m1, m2, m3
<1>10. /\ MemoryOf(m3)
       /\ \A core \in CoreIds, part \in Parts :
             m3[Cell(ScomVectors[part] + core)] = Word(first + ScomTable(core, part))
       /\ \A a \in 0 .. BufferSize - 1 :
             (\A core \in CoreIds, part \in Parts : a # Cell(ScomVectors[part] + core)) => m3[a] = mem0[a]
  <2> HIDE DEF first
  <2>1. AllVectorsSet(mem0, m3, first)
    BY <1>1, <1>8, <1>9, VectorsLaid
  <2> QED BY <2>1 DEF AllVectorsSet
<1>11. Framed(r) /\ r.mem = m3 /\ r.size = img.size /\ r.section = img.section
  BY <1>5, <1>6, <1>10, FramedMemory
<1>12. SlwStart(r) = start /\ SlwPlaced(r)
  BY <1>11 DEF SlwPlaced, SlwStart
<1>13. ASSUME NEW a \in 0 .. BufferSize - 1, a >= start PROVE r.mem[a] = mem0[a]
  <2>1. \A core \in CoreIds, part \in Parts : a # Cell(ScomVectors[part] + core)
    BY <1>1, <1>8, <1>13
  <2> QED BY <1>10, <1>11, <2>1
<1>14. ASSUME NEW core \in CoreIds, NEW k \in 0 .. RamOps - 1 PROVE r.mem[RamAt(r, core) + k] = Zero
  <2> DEFINE a == RamAt(img, core) + k
  <2>1. a \in 0 .. BufferSize - 1 /\ start <= a /\ a < start + PartStart(1) /\ PartStart(1) <= TableSize
        /\ PartStart(1) \in Nat /\ TableSize <= SlwSize /\ SlwSize \in Nat /\ TableSize \in Nat
    BY <1>1, TablePlaces, TableBounds, SlwSizeBounds
  <2>2. RamAt(r, core) + k = a
    BY <1>12 DEF RamAt
  <2> HIDE DEF a
  <2>3. a - start \in 0 .. SlwSize - 1 /\ start + (a - start) = a
    BY <1>1, <2>1
  <2>4. img.mem[a] = Zero
    BY <2>3
  <2>5. mem0[a] = img.mem[a]
    BY <1>1, <1>4, <2>1
  <2>6. r.mem[a] = mem0[a]
    BY <1>13, <2>1
  <2> QED BY <2>2, <2>4, <2>5, <2>6
<1>15. ASSUME NEW core \in CoreIds, NEW part \in Parts, NEW k \in 0 .. ScomOps[part]
       PROVE  r.mem[ScomPlace(r, core, part) + k] = RNNN
  <2> DEFINE a == ScomPlace(img, core, part) + k
  <2>1. /\ a \in 0 .. BufferSize - 1 /\ a < start + TableSize /\ ScomPlace(img, core, part) \in Nat
        /\ start + PartStart(1) <= ScomPlace(img, core, part) /\ PartStart(1) \in Nat /\ TableSize \in Nat
    BY TablePlaces
  <2>2. ScomPlace(r, core, part) + k = a
    BY <1>12 DEF ScomPlace
  <2>3. a \in (start + PartStart(1)) .. (start + TableSize - 1) /\ a >= start
    BY <1>1, <2>1
  <2> HIDE DEF a
  <2>4. mem0[a] = RNNN
    BY <1>4, <2>1, <2>3
  <2>5. r.mem[a] = mem0[a]
    BY <1>13, <2>1, <2>3
  <2> QED BY <2>2, <2>4, <2>5
<1>16. ScomsLead(r)
  <2>1. ASSUME NEW core \in CoreIds, NEW part \in Parts
        PROVE  first + ScomTable(core, part) = LinkAddress + ScomPlace(r, core, part)
    <3>1. ScomTable(core, part) \in Nat
      BY TableBounds
    <3> QED BY <1>1, <1>12, <3>1 DEF ScomPlace
  <2> HIDE DEF first
  <2> QED BY <1>10, <1>11, <2>1 DEF ScomsLead
<1>17. ASSUME NEW core \in CoreIds PROVE r.mem[Cell(RamVector + core)] = img.mem[Cell(RamVector + core)]
  <2> DEFINE a == Cell(RamVector + core)
  <2>1. a \in 0 .. BufferSize - 1 /\ a < start
    BY <1>8
  <2>2. \A c \in CoreIds, part \in Parts : a # Cell(ScomVectors[part] + c)
    BY CellsApart
  <2> HIDE DEF a
  <2>3. r.mem[a] = mem0[a]
    BY <1>10, <1>11, <2>1, <2>2
  <2>4. mem0[a] = img.mem[a]
    <3>1. a \notin (start + PartStart(1)) .. (start + TableSize - 1)
      BY <1>1, <2>1, PartStarts
    <3> QED BY <1>4, <2>1, <3>1
  <2> QED BY <2>3, <2>4 DEF a
<1> QED BY <1>11, <1>12, <1>14, <1>15, <1>16, <1>17 DEF TablesBlank

-----------------------------------------------------------------------------
(***************************************************************************)
(* The images that the two calls make of an SLW image.                     *)
(***************************************************************************)
PointersBelow(img) == \A p \in Pointers :
    Cell(p) \in 0 .. img.size - 1 /\ \E t \in Present(img) : Cell(p) < End(img.section[t])
RamsUnset(img) == \A core \in CoreIds : img.mem[Cell(RamVector + core)] = Word(0)

(* What has been below a section that is appended stays.                   *)
LEMMA PointersStay ==
  ASSUME NEW img, Shaped(img), PointersBelow(img), RamsUnset(img), NEW s \in Sections, s \notin Present(img),
         NEW size \in Nat, NEW r, SpaceAdded(img, s, size, r)
  PROVE  Shaped(r) /\ PointersBelow(r) /\ RamsUnset(r) /\ img.size <= r.size
<1>1. Shaped(r)
  BY DEF SpaceAdded
<1>2. img.size \in Nat /\ img.size <= BufferSize /\ BufferSize \in Nat /\ r.size \in Nat
      /\ r.section[s].offset \in Nat
  BY <1>1, ShapedTypes
<1>3. img.size <= r.size
  BY <1>2 DEF SpaceAdded
<1>4. ASSUME NEW t \in Present(img) PROVE t \in Present(r) /\ r.section[t] = img.section[t]
  <2>1. t \in Sections \ {s}
    BY DEF Present
  <2> QED BY <2>1 DEF Present, SpaceAdded
<1>5. PointersBelow(r)
  <2>1. ASSUME NEW p \in Pointers
        PROVE  Cell(p) \in 0 .. r.size - 1 /\ \E t \in Present(r) : Cell(p) < End(r.section[t])
    <3>1. PICK t \in Present(img) : Cell(p) \in 0 .. img.size - 1 /\ Cell(p) < End(img.section[t])
      BY DEF PointersBelow
    <3>2. Cell(p) \in 0 .. r.size - 1
      BY <1>2, <1>3, <3>1
    <3> QED BY <1>4, <3>1, <3>2
  <2> QED BY <2>1 DEF PointersBelow
<1>6. RamsUnset(r)
  <2>1. ASSUME NEW core \in CoreIds PROVE r.mem[Cell(RamVector + core)] = Word(0)
    <3> DEFINE a == Cell(RamVector + core)
    <3>1. RamVector + core \in Pointers
      BY PointerTypes DEF Pointers
    <3>2. PICK t \in Present(img) : a \in 0 .. img.size - 1 /\ a < End(img.section[t])
      BY <3>1 DEF PointersBelow
    <3>3. a \in 0 .. BufferSize - 1
      BY <1>2, <3>2
    <3> HIDE DEF a
    <3>4. r.mem[a] = img.mem[a]
      BY <3>2, <3>3 DEF SpaceAdded
    <3> QED BY <3>4 DEF RamsUnset, a
  <2> QED BY <2>1 DEF RamsUnset
<1> QED BY <1>1, <1>3, <1>5, <1>6

(* .slw is never empty.                                                    *)
LEMMA SlwNotEmpty == SlwSize \in Nat \ {0}
<1>1. 0 \in CoreIds
  BY SpaceTypes DEF CoreIds
<1>2. RamTable(0) \in Nat /\ RamTable(0) + RamOps <= PartStart(1) /\ PartStart(1) <= TableSize
  BY <1>1, TableBounds
<1> QED BY <1>2, SpaceTypes, SlwSizeBounds, PartStarts

(* A section for the tables is all zero.                                   *)
LEMMA SlwAdded ==
  ASSUME NEW img, Shaped(img), PointersBelow(img), SLW \notin Present(img), NEW r, SpaceAdded(img, SLW, SlwSize, r)
  PROVE  /\ SlwPlaced(r) /\ r.size = SlwStart(r) + SlwSize /\ SLW \in Present(r) /\ img.size <= SlwStart(r)
         /\ \A k \in 0 .. SlwSize - 1 : r.mem[SlwStart(r) + k] = Zero
<1>1. SLW \in Sections /\ SlwSize \in Nat \ {0}
  BY SlwNotEmpty, SlwAssumption
<1>2. /\ Shaped(r) /\ r.section[SLW].size = SlwSize
      /\ SlwStart(r) >= img.size /\ r.size = SlwStart(r) + SlwSize
      /\ \A k \in 0 .. SlwSize - 1 : r.mem[SlwStart(r) + k] = Zero
  BY <1>1 DEF SpaceAdded, SlwStart
<1>3. r.size \in Nat /\ r.size <= BufferSize /\ BufferSize \in Nat /\ SlwStart(r) \in Nat /\ img.size \in Nat
  BY <1>1, <1>2, ShapedTypes DEF SlwStart
<1>4. \A p \in Pointers : Cell(p) \in 0 .. SlwStart(r) - 1
  <2>1. \A p \in Pointers : Cell(p) \in 0 .. img.size - 1
    BY DEF PointersBelow
  <2> QED BY <1>2, <1>3, <2>1
<1> QED BY <1>1, <1>2, <1>3, <1>4 DEF SlwPlaced, Shaped, Framed, Present

(* Tables: where the calls that fill them, and the firmware, find them.    *)
RamsLead(img, kind) == \A core \in CoreIds :
    img.mem[Cell(RamVector + core)] =
        Word(IF kind = "sram" /\ img.mem[RamAt(img, core)] = Zero THEN 0 ELSE LinkAddress + RamAt(img, core))
TablesFound(img, kind) ==
    /\ SlwPlaced(img) /\ ScomsLead(img) /\ RamsLead(img, kind)
    /\ kind = "fixed" => img.size = FixedSize /\ SlwStart(img) = FixedSlw

(* What initialize_slw_section makes of an image.                          *)
SlwZero(img) == \A k \in 0 .. SlwSize - 1 : img.mem[SlwStart(img) + k] = Zero
SramMade(img, i, r) ==
    SpaceAdded(img, SLW, SlwSize, i) /\ SlwPlaced(i) /\ SlwZero(i) /\ RamsUnset(i) /\ r = SetVectors(FillTables(i))

LEMMA SramSteps ==
  ASSUME NEW img, SlwReady(img), InitializeSlw(img, FixedSize).rc = "OK"
  PROVE  \E i : SramMade(img, i, InitializeSlw(img, FixedSize).image)
<1> DEFINE a == AppendSized(img, FixedSize, SLW, SlwSize, FALSE)
           i == a.image
           r == InitializeSlw(img, FixedSize)
<1>1. a.rc = "OK" /\ r = Initialized(i)
  <2>1. r = Then(a, LAMBDA x : Initialized(x))
    BY Zenon DEF InitializeSlw
  <2> HIDE DEF a
  <2>2. r = IF a.rc = "OK" THEN Initialized(i) ELSE a
    BY <2>1, Zenon DEF Then
  <2>3. r.rc = "OK"
    OBVIOUS
  <2> HIDE DEF r
  <2> QED BY <2>2, <2>3
<1>2. r.image = SetVectors(FillTables(i))
  <2>1. r.rc = "OK"
    OBVIOUS
  <2> HIDE DEF r, a
  <2>2. r = Answer("OK", SetVectors(FillTables(i))) \/ r = Answer("KEYWORD_NOT_FOUND", FillTables(i))
    BY <1>1 DEF Initialized
  <2> QED BY <2>1, <2>2, AnswerFields
<1>3. Shaped(img) /\ PointersBelow(img) /\ RamsUnset(img) /\ SLW \notin Present(img)
  BY ReadyPointers DEF SlwReady, PointersBelow, RamsUnset
<1>4. SpaceAdded(img, SLW, SlwSize, i)
  <2>1. SLW \in Sections /\ SlwSize \in Nat /\ FixedSize \in 0 .. BufferSize /\ FALSE \in BOOLEAN
    BY SlwNotEmpty, SlwAssumption
  <2> QED BY <1>1, <1>3, <2>1, EmptyAppended
<1> HIDE DEF a, i, r
<1>5. SlwPlaced(i) /\ \A k \in 0 .. SlwSize - 1 : i.mem[SlwStart(i) + k] = Zero
  BY <1>3, <1>4, SlwAdded
<1>6. RamsUnset(i)
  BY <1>3, <1>4, PointersStay, SlwNotEmpty, SlwAssumption
<1>7. SramMade(img, i, r.image)
  BY <1>2, <1>4, <1>5, <1>6 DEF SramMade, SlwZero
<1> QED BY <1>7 DEF r

(* initialize_slw_section leaves the vector of the RAM tables unset.       *)
LEMMA SramTables ==
  ASSUME NEW img, SlwReady(img), InitializeSlw(img, FixedSize).rc = "OK"
  PROVE  TablesFound(InitializeSlw(img, FixedSize).image, "sram") /\ TablesBlank(InitializeSlw(img, FixedSize).image)
<1> DEFINE r == InitializeSlw(img, FixedSize)
<1>1. PICK i : SramMade(img, i, r.image)
  BY SramSteps
<1> HIDE DEF r
<1>2. r.image = SetVectors(FillTables(i)) /\ SlwPlaced(i) /\ RamsUnset(i) /\ \A k \in 0 .. SlwSize - 1 : i.mem[SlwStart(i) + k] = Zero
  BY <1>1 DEF SramMade, SlwZero
<1>7. /\ SlwPlaced(r.image) /\ TablesBlank(r.image) /\ ScomsLead(r.image)
      /\ \A core \in CoreIds : r.image.mem[Cell(RamVector + core)] = i.mem[Cell(RamVector + core)]
  BY <1>2, TablesInitialized
<1>8. RamsLead(r.image, "sram")
  <2>1. ASSUME NEW core \in CoreIds
        PROVE  r.image.mem[Cell(RamVector + core)] = Word(0) /\ r.image.mem[RamAt(r.image, core)] = Zero
    <3>1. RamAt(r.image, core) \in Nat /\ 0 \in 0 .. RamOps - 1
      BY <1>7, TablePlaces, SpaceTypes
    <3>2. r.image.mem[RamAt(r.image, core) + 0] = Zero
      BY <1>7, <3>1 DEF TablesBlank
    <3>3. RamAt(r.image, core) + 0 = RamAt(r.image, core)
      BY <3>1
    <3> QED BY <1>2, <1>7, <3>2, <3>3 DEF RamsUnset
  <2> QED BY <2>1 DEF RamsLead
<1> QED BY <1>7, <1>8 DEF TablesFound, r

(* The vector of the RAM tables.                                           *)
LEMMA RamVectorSet ==
  ASSUME NEW img, SlwPlaced(img), NEW r, r = SetRamVector(img)
  PROVE  /\ SlwPlaced(r) /\ r.section = img.section /\ r.size = img.size
         /\ \A core \in CoreIds : r.mem[Cell(RamVector + core)] = Word(LinkAddress + RamAt(img, core))
         /\ \A a \in 0 .. BufferSize - 1 : a >= SlwStart(img) => r.mem[a] = img.mem[a]
<1> DEFINE start == SlwStart(img)
           first == LinkAddress + start
           mem == Laid(img.mem, VectorCells(RamVector, first, RamSpace))
<1>1. /\ Framed(img) /\ MemoryOf(img.mem) /\ BufferSize \in Nat /\ start \in Nat /\ LinkAddress \in Nat
      /\ first \in Nat /\ start <= BufferSize
  BY TablePlaces, XipAssumption DEF SlwPlaced, Framed
<1>2. r = [img EXCEPT !.mem = mem]
  BY <1>1 DEF SetRamVector, SlwStart, Framed, Fields
<1> HIDE DEF mem
<1>3. VectorIn(img.mem, mem, RamVector, first, RamSpace)
  <2> HIDE DEF first
  <2> QED BY <1>1, VectorLaid, SpaceTypes, SlwAssumption DEF mem
<1>4. /\ MemoryOf(mem)
      /\ \A core \in CoreIds : Cell(RamVector + core) \in 0 .. BufferSize - 1 =>
            mem[Cell(RamVector + core)] = Word(first + RamSpace * core)
      /\ \A a \in 0 .. BufferSize - 1 : (\A core \in CoreIds : a # Cell(RamVector + core)) => mem[a] = img.mem[a]
  BY <1>3, Zenon DEF VectorIn
<1>5. Framed(r) /\ r.mem = mem /\ r.size = img.size /\ r.section = img.section
  BY <1>1, <1>2, <1>4, FramedMemory
<1>6. \A core \in CoreIds : Cell(RamVector + core) \in 0 .. BufferSize - 1 /\ Cell(RamVector + core) < start
  <2>1. \A core \in CoreIds : RamVector + core \in Pointers
    BY PointerTypes DEF Pointers
  <2>2. \A p \in Pointers : Cell(p) \in 0 .. start - 1
    BY DEF SlwPlaced
  <2> QED BY <1>1, <2>1, <2>2
<1>7. ASSUME NEW core \in CoreIds PROVE r.mem[Cell(RamVector + core)] = Word(LinkAddress + RamAt(img, core))
  <2>1. first + RamSpace * core = LinkAddress + RamAt(img, core)
    <3>1. RamTable(core) \in Nat /\ RamTable(core) = RamSpace * core
      BY TableBounds DEF RamTable
    <3> HIDE DEF start
    <3>2. RamAt(img, core) = start + RamTable(core)
      BY DEF RamAt, start
    <3> QED BY <1>1, <3>1, <3>2
  <2> HIDE DEF first
  <2> QED BY <1>4, <1>5, <1>6, <2>1
<1>8. ASSUME NEW a \in 0 .. BufferSize - 1, a >= start PROVE r.mem[a] = img.mem[a]
  <2>1. \A core \in CoreIds : a # Cell(RamVector + core)
    BY <1>1, <1>6, <1>8
  <2> QED BY <1>4, <1>5, <2>1
<1>9. SlwPlaced(r)
  BY <1>5 DEF SlwPlaced, SlwStart
<1> QED BY <1>5, <1>7, <1>8, <1>9

(* What create_and_initialize_fixed_image makes of an image: .slw is at    *)
(* the fixed place, however much of the image .fit fills up.               *)
FixedMade(img, i1, i2, i3, r) ==
    /\ SpaceAdded(img, FIT, FitSize(img), i1) /\ SLW \notin Present(i1) /\ FFDC \notin Present(i1)
    /\ SpaceAdded(i1, SLW, SlwSize, i2) /\ FFDC \notin Present(i2)
    /\ SpaceAdded(i2, FFDC, FfdcSize, i3)
    /\ SlwPlaced(i3) /\ SlwStart(i3) = FixedSlw /\ SlwZero(i3) /\ i3.size = FixedSize
    /\ r = SetVectors(FillTables(SetRamVector(i3)))

LEMMA FixedSteps ==
  ASSUME NEW img, SlwReady(img), CreateFixed(img).rc = "OK"
  PROVE  \E i1, i2, i3 : FixedMade(img, i1, i2, i3, CreateFixed(img).image)
<1> DEFINE a1 == AppendSized(img, FixedSize, FIT, FitSize(img), TRUE)
           i1 == a1.image
           a2 == AppendSized(i1, FixedSize, SLW, SlwSize, TRUE)
           i2 == a2.image
           a3 == AppendSized(i2, FixedSize, FFDC, FfdcSize, TRUE)
           i3 == a3.image
           i4 == SetRamVector(i3)
           t1 == Then(a1, LAMBDA i : AppendSized(i, FixedSize, SLW, SlwSize, TRUE))
           t2 == Then(t1, LAMBDA i : AppendSized(i, FixedSize, FFDC, FfdcSize, TRUE))
           t3 == Then(t2, LAMBDA i : Answer(IF Symbols(i) THEN "OK" ELSE "KEYWORD_NOT_FOUND", i))
           t4 == Then(t3, LAMBDA i : Answer("OK", SetRamVector(i)))
           r == CreateFixed(img)
<1>1. ~ FitSize(img) < 0 /\ r = Then(t4, LAMBDA i : Initialized(i))
  <2>1. r = IF FitSize(img) < 0 THEN Answer("SECTION_SIZING", img)
            ELSE Then(t4, LAMBDA i : Initialized(i))
    BY Zenon DEF CreateFixed
  <2>2. r.rc = "OK"
    OBVIOUS
  <2> HIDE DEF r, t4
  <2> QED BY <2>1, <2>2, AnswerFields
<1>2. t4.rc = "OK" /\ r = Initialized(t4.image)
  <2>2. r.rc = "OK"
    OBVIOUS
  <2> HIDE DEF r, t4
  <2> QED BY <1>1, <2>2 DEF Then
<1>3. t3.rc = "OK" /\ t4.image = SetRamVector(t3.image)
  <2> HIDE DEF t3
  <2> QED BY <1>2, AnswerFields DEF Then
<1>4. t2.rc = "OK" /\ t3.image = t2.image
  <2> HIDE DEF t2
  <2> QED BY <1>3, AnswerFields DEF Then
<1>5. t1.rc = "OK" /\ t2 = AppendSized(t1.image, FixedSize, FFDC, FfdcSize, TRUE)
  <2> HIDE DEF t1
  <2> QED BY <1>4 DEF Then
<1>6. a1.rc = "OK" /\ t1 = a2
  <2> HIDE DEF a1
  <2> QED BY <1>5 DEF Then
<1>7. /\ a1.rc = "OK" /\ a2.rc = "OK" /\ a3.rc = "OK" /\ r = Initialized(i4)
  <2>1. t2 = a3
    <3> HIDE DEF t2, t1
    <3> QED BY <1>5, <1>6
  <2>2. t4.image = i4
    <3> HIDE DEF t4, t3, t2, t1
    <3> QED BY <1>3, <1>4, <2>1
  <2> HIDE DEF t1, t2, t3, t4, a1, i4, r, i1, i2
  <2> QED BY <1>2, <1>4, <1>5, <1>6, <2>1, <2>2
<1>8. r.image = SetVectors(FillTables(i4))
  <2>1. r.rc = "OK"
    OBVIOUS
  <2> HIDE DEF r, i4
  <2>2. r = Answer("OK", SetVectors(FillTables(i4))) \/ r = Answer("KEYWORD_NOT_FOUND", FillTables(i4))
    BY <1>7 DEF Initialized
  <2> QED BY <2>1, <2>2, AnswerFields
<1>9. /\ Shaped(img) /\ PointersBelow(img) /\ RamsUnset(img)
      /\ SLW \notin Present(img) /\ FIT \notin Present(img) /\ FFDC \notin Present(img)
  BY ReadyPointers DEF SlwReady, PointersBelow, RamsUnset
<1>10. /\ SLW \in Sections /\ FIT \in Sections /\ FFDC \in Sections /\ SlwSize \in Nat \ {0}
       /\ FixedSize \in 0 .. BufferSize /\ FixedSize \in Nat /\ FfdcSize \in Nat
       /\ SLW # FIT /\ SLW # FFDC /\ FIT # FFDC /\ TRUE \in BOOLEAN
       /\ FitSize(img) = ((FixedSize - img.size) - SlwSize) - FfdcSize /\ img.size \in Nat /\ FitSize(img) \in Nat
  <2> HIDE DEF a1, a2, a3, i1, i2, i3, i4, t1, t2, t3, t4, r
  <2>1. /\ SLW \in Sections /\ FIT \in Sections /\ FFDC \in Sections /\ SlwSize \in Nat \ {0}
        /\ FixedSize \in 0 .. BufferSize /\ BufferSize \in Nat /\ FfdcSize \in Nat
    BY SlwNotEmpty, SlwAssumption, XipAssumption
  <2>2. SLW # FIT /\ SLW # FFDC /\ FIT # FFDC /\ TRUE \in BOOLEAN
    BY DEF SLW, FIT, FFDC
  <2>3. FitSize(img) = ((FixedSize - img.size) - SlwSize) - FfdcSize /\ img.size \in Nat
    BY <1>9, ShapedTypes DEF FitSize
  <2>4. FixedSize \in Nat /\ FitSize(img) \in Nat
    BY <1>1, <2>1, <2>3
  <2> QED BY <2>1, <2>2, <2>3, <2>4
<1> DEFINE fit == FitSize(img)
<1>11. SpaceAdded(img, FIT, fit, i1) /\ i1.size = img.size + fit
  <2>1. fit \in Nat
    BY <1>10
  <2>2. AppendSized(img, FixedSize, FIT, fit, TRUE).rc = "OK"
    BY <1>7
  <2> HIDE DEF fit
  <2> QED BY <1>9, <1>10, <2>1, <2>2, EmptyAppended DEF fit
<1> HIDE DEF fit, a1, i1, r
<1>12. /\ Shaped(i1) /\ PointersBelow(i1) /\ RamsUnset(i1) /\ SLW \notin Present(i1) /\ FFDC \notin Present(i1)
  <2>1. Shaped(i1) /\ PointersBelow(i1) /\ RamsUnset(i1)
    BY <1>9, <1>10, <1>11, PointersStay DEF fit
  <2>2. i1.section[SLW] = img.section[SLW] /\ i1.section[FFDC] = img.section[FFDC]
    BY <1>10, <1>11 DEF SpaceAdded
  <2> QED BY <1>9, <1>10, <2>1, <2>2 DEF Present
<1>13. SpaceAdded(i1, SLW, SlwSize, i2) /\ i2.size = i1.size + SlwSize
  BY <1>7, <1>10, <1>12, EmptyAppended
<1> HIDE DEF a2, i2
<1>14. /\ Shaped(i2) /\ PointersBelow(i2) /\ RamsUnset(i2) /\ FFDC \notin Present(i2)
       /\ SlwPlaced(i2) /\ i2.size = SlwStart(i2) + SlwSize /\ SLW \in Present(i2)
       /\ \A k \in 0 .. SlwSize - 1 : i2.mem[SlwStart(i2) + k] = Zero
  <2>1. Shaped(i2) /\ PointersBelow(i2) /\ RamsUnset(i2)
    BY <1>10, <1>12, <1>13, PointersStay
  <2>2. i2.section[FFDC] = i1.section[FFDC]
    BY <1>10, <1>13 DEF SpaceAdded
  <2>3. FFDC \notin Present(i2)
    BY <1>10, <1>12, <2>2 DEF Present
  <2> QED BY <1>12, <1>13, <2>1, <2>3, SlwAdded
<1>15. SlwStart(i2) = FixedSlw
  <2>1. i1.size \in Nat /\ SlwStart(i2) \in Nat
    BY <1>12, <1>14, ShapedTypes DEF SlwPlaced
  <2> QED BY <1>10, <1>11, <1>13, <1>14, <2>1 DEF FixedSlw, fit
<1>16. SpaceAdded(i2, FFDC, FfdcSize, i3) /\ i3.size = i2.size + FfdcSize
  BY <1>7, <1>10, <1>14, EmptyAppended
<1> HIDE DEF a3, i3
<1>17. i3.size = FixedSize
  <2>1. i1.size \in Nat /\ i2.size \in Nat
    BY <1>12, <1>14, ShapedTypes
  <2> QED BY <1>10, <1>11, <1>13, <1>16, <2>1 DEF fit
<1>18. /\ SlwPlaced(i3) /\ SlwStart(i3) = FixedSlw
       /\ \A k \in 0 .. SlwSize - 1 : i3.mem[SlwStart(i3) + k] = Zero
  <2>1. i3.section[SLW] = i2.section[SLW] /\ Shaped(i3)
    BY <1>10, <1>16 DEF SpaceAdded
  <2>2. SlwStart(i3) = SlwStart(i2)
    BY <2>1 DEF SlwStart
  <2>3. SlwPlaced(i3)
    BY <1>14, <2>1, <2>2 DEF SlwPlaced, Framed, Shaped
  <2>4. ASSUME NEW k \in 0 .. SlwSize - 1 PROVE i3.mem[SlwStart(i3) + k] = Zero
    <3> DEFINE a == SlwStart(i2) + k
    <3>1. SlwStart(i2) \in Nat /\ SlwStart(i2) + SlwSize <= BufferSize /\ BufferSize \in Nat
          /\ i2.section[SLW].size = SlwSize
      BY <1>14, XipAssumption DEF SlwPlaced
    <3>2. End(i2.section[SLW]) = SlwStart(i2) + SlwSize
      BY <3>1 DEF End, SlwStart
    <3>3. a \in 0 .. BufferSize - 1 /\ a < End(i2.section[SLW])
      BY <1>10, <3>1, <3>2
    <3>4. i2.mem[a] = Zero
      BY <1>14
    <3> HIDE DEF a
    <3>5. i3.mem[a] = i2.mem[a]
      BY <1>14, <1>16, <3>3 DEF SpaceAdded
    <3> QED BY <2>2, <3>4, <3>5 DEF a
  <2> QED BY <1>15, <2>2, <2>3, <2>4
<1>19. FixedMade(img, i1, i2, i3, r.image)
  BY <1>8, <1>11, <1>12, <1>13, <1>14, <1>16, <1>17, <1>18 DEF FixedMade, SlwZero, fit
<1> QED BY <1>19 DEF r

(* create_and_initialize_fixed_image: the tables and their vectors.        *)
LEMMA FixedTables ==
  ASSUME NEW img, SlwReady(img), CreateFixed(img).rc = "OK"
  PROVE  TablesFound(CreateFixed(img).image, "fixed") /\ TablesBlank(CreateFixed(img).image)
<1> DEFINE r == CreateFixed(img)
<1>1. PICK i1, i2, i3 : FixedMade(img, i1, i2, i3, r.image)
  BY FixedSteps
<1> HIDE DEF r
<1> DEFINE i4 == SetRamVector(i3)
<1>2. r.image = SetVectors(FillTables(i4))
  BY <1>1 DEF FixedMade
<1>3. SlwSize \in Nat \ {0}
  BY SlwNotEmpty
<1>4. i3.size = FixedSize
  BY <1>1 DEF FixedMade
<1>5. /\ SlwPlaced(i3) /\ SlwStart(i3) = FixedSlw
      /\ \A k \in 0 .. SlwSize - 1 : i3.mem[SlwStart(i3) + k] = Zero
  BY <1>1 DEF FixedMade, SlwZero
<1>6. /\ SlwPlaced(i4) /\ i4.section = i3.section /\ i4.size = i3.size
      /\ \A core \in CoreIds : i4.mem[Cell(RamVector + core)] = Word(LinkAddress + RamAt(i3, core))
      /\ \A a \in 0 .. BufferSize - 1 : a >= SlwStart(i3) => i4.mem[a] = i3.mem[a]
  BY <1>5, RamVectorSet
<1> HIDE DEF i4
<1>7. SlwStart(i4) = SlwStart(i3) /\ SlwStart(i3) \in Nat
  BY <1>5, <1>6 DEF SlwStart, SlwPlaced
<1>8. \A k \in 0 .. SlwSize - 1 : i4.mem[SlwStart(i4) + k] = Zero
  <2>1. ASSUME NEW k \in 0 .. SlwSize - 1 PROVE i4.mem[SlwStart(i4) + k] = Zero
    <3> DEFINE a == SlwStart(i3) + k
    <3>1. SlwStart(i3) + SlwSize <= BufferSize /\ BufferSize \in Nat
      BY <1>5, XipAssumption DEF SlwPlaced
    <3>2. a \in 0 .. BufferSize - 1 /\ a >= SlwStart(i3)
      BY <1>3, <1>7, <3>1
    <3>3. i3.mem[a] = Zero
      BY <1>5
    <3> HIDE DEF a
    <3>4. i4.mem[a] = i3.mem[a]
      BY <1>6, <3>2
    <3> QED BY <1>7, <3>3, <3>4 DEF a
  <2> QED BY <2>1
<1>9. /\ SlwPlaced(r.image) /\ TablesBlank(r.image) /\ ScomsLead(r.image)
      /\ r.image.section = i4.section /\ r.image.size = i4.size
      /\ \A core \in CoreIds : r.image.mem[Cell(RamVector + core)] = i4.mem[Cell(RamVector + core)]
  BY <1>2, <1>6, <1>8, TablesInitialized
<1>10. SlwStart(r.image) = SlwStart(i3)
  BY <1>7, <1>9 DEF SlwStart
<1>11. RamsLead(r.image, "fixed")
  <2>1. \A core \in CoreIds : RamAt(r.image, core) = RamAt(i3, core)
    BY <1>10 DEF RamAt
  <2> QED BY <1>6, <1>9, <2>1 DEF RamsLead
<1> QED BY <1>4, <1>5, <1>6, <1>9, <1>10, <1>11 DEF TablesFound, r

-----------------------------------------------------------------------------
(***************************************************************************)
(* The entries of the RAM tables.                                          *)
(***************************************************************************)
EndSet(c, x) == [c EXCEPT !.end = x]
Ending(c) == EndSet(c, TRUE)
Going(c) == EndSet(c, FALSE)
EndAs(c, d) == EndSet(c, d.end)
EntryFor(c, reg, thread, data) == \E e \in BOOLEAN : c = RamEntry(reg, thread, e, data)
Fresh(reg, thread, data) == RamEntry(reg, thread, FALSE, data)

(* An entry says what it is for, and keeps it when its end bit changes.    *)
LEMMA EndReplaced ==
  ASSUME NEW reg, NEW thread, NEW data, NEW e, NEW x
  PROVE  /\ EndSet(RamEntry(reg, thread, e, data), x) = RamEntry(reg, thread, x, data)
         /\ RamEntry(reg, thread, e, data).end = e /\ RamEntry(reg, thread, e, data).kind = "ram"
<1>1. [RamEntry(reg, thread, e, data) EXCEPT !.end = x] = RamEntry(reg, thread, x, data)
  BY DEF RamEntry
<1>2. RamEntry(reg, thread, e, data).end = e /\ RamEntry(reg, thread, e, data).kind = "ram"
  BY DEF RamEntry
<1> QED BY <1>1, <1>2, Zenon DEF EndSet

(* What an entry of a RAM table is for.                                    *)
LEMMA EntryFields ==
  ASSUME NEW c, NEW reg, NEW thread, NEW data, EntryFor(c, reg, thread, data)
  PROVE  /\ c # Zero /\ c.reg = reg /\ c.thread = thread /\ c.data = data
         /\ EntryFor(Ending(c), reg, thread, data) /\ Ends(Ending(c))
         /\ EntryFor(Going(c), reg, thread, data) /\ ~ Ends(Going(c))
         /\ IsFor(c, reg, thread)
         /\ \A r, t : IsFor(c, r, t) => r = reg /\ t = thread
<1>1. PICK e \in BOOLEAN : c = [kind |-> "ram", reg |-> reg, thread |-> thread, end |-> e, data |-> data]
  BY Zenon DEF EntryFor, RamEntry
<1>2. Zero = [kind |-> "word", value |-> 0]
  BY SlwAssumption DEF Word
<1>3. c.kind = "ram" /\ Zero.kind = "word" /\ c.reg = reg /\ c.thread = thread /\ c.data = data
  BY <1>1, <1>2, Zenon
<1>4. c # Zero
  BY <1>3
<1>5. Ending(c) = RamEntry(reg, thread, TRUE, data) /\ Going(c) = RamEntry(reg, thread, FALSE, data)
  <2>1. c = RamEntry(reg, thread, e, data)
    BY <1>1, Zenon DEF RamEntry
  <2>2. Ending(c) = RamEntry(reg, thread, TRUE, data)
    BY <2>1, EndReplaced, Zenon DEF Ending
  <2>3. Going(c) = RamEntry(reg, thread, FALSE, data)
    BY <2>1, EndReplaced, Zenon DEF Going
  <2> QED BY <2>2, <2>3, Zenon
<1>6. Ending(c).end = TRUE /\ Going(c).end = FALSE /\ Ending(c).kind = "ram"
  <2>1. RamEntry(reg, thread, TRUE, data).end = TRUE /\ RamEntry(reg, thread, TRUE, data).kind = "ram"
    BY Zenon DEF RamEntry
  <2>2. RamEntry(reg, thread, FALSE, data).end = FALSE
    BY Zenon DEF RamEntry
  <2> QED BY <1>5, <2>1, <2>2, Zenon
<1>7. Ending(c) # Zero
  BY <1>3, <1>6
<1>8. Ends(Ending(c)) /\ ~ Ends(Going(c))
  BY <1>6, <1>7, Zenon DEF Ends
<1>9. EntryFor(Ending(c), reg, thread, data) /\ EntryFor(Going(c), reg, thread, data)
  BY <1>5, Zenon DEF EntryFor
<1> QED BY <1>3, <1>4, <1>8, <1>9, Zenon DEF IsFor

(* An entry that takes over the end bit of another.                        *)
LEMMA EndKept ==
  ASSUME NEW c, NEW reg, NEW thread, NEW data, EntryFor(c, reg, thread, data),
         NEW d, NEW r, NEW t, NEW x, EntryFor(d, r, t, x)
  PROVE  EntryFor(EndAs(c, d), reg, thread, data) /\ (Ends(EndAs(c, d)) <=> Ends(d))
<1>1. PICK e \in BOOLEAN : d = RamEntry(r, t, e, x)
  BY Zenon DEF EntryFor
<1>2. d.end = e
  BY <1>1, Zenon DEF RamEntry
<1>3. EndAs(c, d) = IF e THEN Ending(c) ELSE Going(c)
  BY <1>2, Zenon DEF EndAs, Ending, Going
<1>4. /\ EntryFor(Ending(c), reg, thread, data) /\ Ends(Ending(c))
      /\ EntryFor(Going(c), reg, thread, data) /\ ~ Ends(Going(c)) /\ d # Zero
  BY EntryFields
<1>5. Ends(d) <=> e
  BY <1>2, <1>4, Zenon DEF Ends
<1> QED BY <1>3, <1>4, <1>5, Zenon

(* A new entry, and one that is not there.                                 *)
LEMMA FreshEntry ==
  ASSUME NEW reg, NEW thread, NEW data
  PROVE  /\ EntryFor(Fresh(reg, thread, data), reg, thread, data)
         /\ Fresh(reg, thread, data).reg = reg /\ Fresh(reg, thread, data).thread = thread
         /\ ~ Ends(Zero) /\ \A r, t : ~ IsFor(Zero, r, t)
<1>1. EntryFor(Fresh(reg, thread, data), reg, thread, data)
  BY Zenon DEF EntryFor, Fresh
<1>2. ~ Ends(Zero) /\ \A r, t : ~ IsFor(Zero, r, t)
  BY Zenon DEF Ends, IsFor
<1> QED BY <1>1, <1>2, EntryFields

(* What a core's RAM table holds: each register and thread asked for once. *)
AskedOf(rs, core) == {k \in DOMAIN rs : k[1] = core}
RamsListed(img, rs, core, n, key) ==
    /\ key \in [0 .. n - 1 -> AskedOf(rs, core)]
    /\ \A j, k \in 0 .. n - 1 : key[j] = key[k] => j = k
    /\ \A a \in AskedOf(rs, core) : \E k \in 0 .. n - 1 : key[k] = a
    /\ \A k \in 0 .. n - 1 : EntryFor(img.mem[RamAt(img, core) + k], key[k][2], key[k][3], rs[key[k]])
RamHolds(img, rs, core, n) ==
    /\ n \in 0 .. RamOps
    /\ \E key : RamsListed(img, rs, core, n, key)
    /\ \A k \in 0 .. RamOps - 1 : Ends(img.mem[RamAt(img, core) + k]) <=> k = n - 1
    /\ \A k \in n .. RamOps - 1 : img.mem[RamAt(img, core) + k] = Zero
RamKeys == CoreIds \X STRING \X Nat

LEMMA KeyOfCore ==
  ASSUME NEW rs, DOMAIN rs \subseteq RamKeys, NEW core, NEW k \in AskedOf(rs, core)
  PROVE  k = <<core, k[2], k[3]>> /\ k \in DOMAIN rs
BY DEF AskedOf, RamKeys

(* Entries that stay hold what they did.                                   *)
LEMMA RamsStay ==
  ASSUME NEW img, NEW r, NEW rs, NEW new, NEW core, NEW n, RamHolds(img, rs, core, n), RamAt(r, core) = RamAt(img, core),
         AskedOf(new, core) = AskedOf(rs, core), \A a \in AskedOf(rs, core) : new[a] = rs[a],
         \A k \in 0 .. RamOps - 1 : r.mem[RamAt(img, core) + k] = img.mem[RamAt(img, core) + k]
  PROVE  RamHolds(r, new, core, n)
<1>1. PICK key : RamsListed(img, rs, core, n, key)
  BY DEF RamHolds
<1>2. n \in 0 .. RamOps /\ RamOps \in Nat
  BY SpaceTypes DEF RamHolds
<1>3. RamsListed(r, new, core, n, key)
  <2>1. ASSUME NEW k \in 0 .. n - 1
        PROVE  EntryFor(r.mem[RamAt(r, core) + k], key[k][2], key[k][3], new[key[k]])
    <3>1. k \in 0 .. RamOps - 1 /\ key[k] \in AskedOf(rs, core)
      BY <1>1, <1>2 DEF RamsListed
    <3> QED BY <1>1, <3>1 DEF RamsListed
  <2> QED BY <1>1, <2>1 DEF RamsListed
<1>4. \A k \in n .. RamOps - 1 : k \in 0 .. RamOps - 1
  BY <1>2
<1> QED BY <1>2, <1>3, <1>4 DEF RamHolds

(* A register that is in the table is replaced.                            *)
LEMMA RamsReplaced ==
  ASSUME NEW img, NEW r, NEW rs, NEW core \in CoreIds, NEW n, RamHolds(img, rs, core, n), DOMAIN rs \subseteq RamKeys,
         NEW reg, NEW thread, NEW data, NEW new, new = With(rs, <<core, reg, thread>>, data),
         NEW h \in 0 .. n - 1, IsFor(img.mem[RamAt(img, core) + h], reg, thread),
         RamAt(r, core) = RamAt(img, core),
         EntryFor(r.mem[RamAt(img, core) + h], reg, thread, data),
         Ends(r.mem[RamAt(img, core) + h]) <=> Ends(img.mem[RamAt(img, core) + h]),
         \A k \in 0 .. RamOps - 1 : k # h => r.mem[RamAt(img, core) + k] = img.mem[RamAt(img, core) + k]
  PROVE  RamHolds(r, new, core, n) /\ DOMAIN new = DOMAIN rs
<1> DEFINE kk == <<core, reg, thread>>
<1>1. PICK key : RamsListed(img, rs, core, n, key)
  BY DEF RamHolds
<1>2. n \in 0 .. RamOps /\ RamOps \in Nat
  BY SpaceTypes DEF RamHolds
<1>3. key[h] = kk /\ key[h] \in AskedOf(rs, core)
  <2>1. key[h] \in AskedOf(rs, core)
    BY <1>1 DEF RamsListed
  <2>2. EntryFor(img.mem[RamAt(img, core) + h], key[h][2], key[h][3], rs[key[h]])
    BY <1>1 DEF RamsListed
  <2>3. reg = key[h][2] /\ thread = key[h][3]
    <3> DEFINE c == img.mem[RamAt(img, core) + h]
               x == key[h][2]
               y == key[h][3]
               z == rs[key[h]]
    <3>1. EntryFor(c, x, y, z) /\ IsFor(c, reg, thread)
      BY <2>2
    <3> HIDE DEF c, x, y, z
    <3>2. reg = x /\ thread = y
      BY <3>1, EntryFields
    <3> QED BY <3>2 DEF x, y
  <2>4. key[h] = <<core, key[h][2], key[h][3]>>
    BY <2>1, KeyOfCore
  <2> QED BY <2>1, <2>3, <2>4
<1>4. kk \in DOMAIN rs
  BY <1>3 DEF AskedOf
<1> HIDE DEF kk
<1>5. new = With(rs, kk, data)
  BY DEF kk
<1>6. DOMAIN new = DOMAIN rs /\ new[kk] = data /\ \A j \in DOMAIN rs : j # kk => new[j] = rs[j]
  <2>1. DOMAIN new = DOMAIN rs \cup {kk} /\ new[kk] = data /\ \A j \in DOMAIN rs : j # kk => new[j] = rs[j]
    BY <1>5 DEF With
  <2> QED BY <1>4, <2>1
<1>7. AskedOf(new, core) = AskedOf(rs, core)
  BY <1>6 DEF AskedOf
<1>8. RamsListed(r, new, core, n, key)
  <2>1. ASSUME NEW k \in 0 .. n - 1
        PROVE  EntryFor(r.mem[RamAt(r, core) + k], key[k][2], key[k][3], new[key[k]])
    <3>1. CASE k = h
      <4>1. key[k][2] = reg /\ key[k][3] = thread /\ new[key[k]] = data
        BY <1>3, <1>6, <3>1 DEF kk
      <4> QED BY <3>1, <4>1
    <3>2. CASE k # h
      <4>1. k \in 0 .. RamOps - 1 /\ key[k] \in DOMAIN rs
        BY <1>1, <1>2 DEF RamsListed, AskedOf
      <4>2. key[k] # kk
        BY <1>1, <1>3, <3>2 DEF RamsListed
      <4>3. new[key[k]] = rs[key[k]]
        BY <1>6, <4>1, <4>2
      <4>4. r.mem[RamAt(img, core) + k] = img.mem[RamAt(img, core) + k]
        BY <3>2, <4>1
      <4> QED BY <1>1, <4>3, <4>4 DEF RamsListed
    <3> QED BY <3>1, <3>2
  <2> QED BY <1>1, <1>7, <2>1 DEF RamsListed
<1>9. ASSUME NEW k \in 0 .. RamOps - 1 PROVE Ends(r.mem[RamAt(r, core) + k]) <=> k = n - 1
  <2>1. Ends(img.mem[RamAt(img, core) + k]) <=> k = n - 1
    BY DEF RamHolds
  <2>2. CASE k = h
    BY <2>1, <2>2
  <2>3. CASE k # h
    BY <2>1, <2>3
  <2> QED BY <2>2, <2>3
<1>10. ASSUME NEW k \in n .. RamOps - 1 PROVE r.mem[RamAt(r, core) + k] = Zero
  <2>1. k \in 0 .. RamOps - 1 /\ k # h
    BY <1>2
  <2> QED BY <2>1 DEF RamHolds
<1> QED BY <1>2, <1>6, <1>8, <1>9, <1>10 DEF RamHolds

(* Any other is appended, and the end bit moves to it.                     *)
LEMMA RamsAppended ==
  ASSUME NEW img, NEW r, NEW rs, NEW core \in CoreIds, NEW n, RamHolds(img, rs, core, n), DOMAIN rs \subseteq RamKeys,
         n < RamOps, NEW reg, NEW thread, NEW data, <<core, reg, thread>> \notin DOMAIN rs,
         NEW new, new = With(rs, <<core, reg, thread>>, data),
         RamAt(r, core) = RamAt(img, core),
         EntryFor(r.mem[RamAt(img, core) + n], reg, thread, data), Ends(r.mem[RamAt(img, core) + n]),
         n > 0 => r.mem[RamAt(img, core) + (n - 1)] = Going(img.mem[RamAt(img, core) + (n - 1)]),
         \A k \in 0 .. RamOps - 1 : k # n /\ k # n - 1 => r.mem[RamAt(img, core) + k] = img.mem[RamAt(img, core) + k]
  PROVE  RamHolds(r, new, core, n + 1)
<1> DEFINE kk == <<core, reg, thread>>
<1>1. PICK key : RamsListed(img, rs, core, n, key)
  BY DEF RamHolds
<1>2. n \in 0 .. RamOps /\ RamOps \in Nat /\ n \in Nat
  BY SpaceTypes DEF RamHolds
<1>3. kk[1] = core /\ kk[2] = reg /\ kk[3] = thread
  OBVIOUS
<1> DEFINE more == [k \in 0 .. (n + 1) - 1 |-> IF k = n THEN kk ELSE key[k]]
<1> HIDE DEF kk
<1>4. DOMAIN new = DOMAIN rs \cup {kk} /\ new[kk] = data /\ (\A j \in DOMAIN rs : j # kk => new[j] = rs[j]) /\ kk \notin DOMAIN rs
  <2>1. new = With(rs, kk, data) /\ kk \notin DOMAIN rs
    BY DEF kk
  <2> QED BY <2>1 DEF With
<1>5. AskedOf(new, core) = AskedOf(rs, core) \cup {kk}
  BY <1>3, <1>4 DEF AskedOf
<1>6. /\ \A k \in 0 .. n - 1 : k \in 0 .. (n + 1) - 1 /\ k # n /\ more[k] = key[k] /\ key[k] \in AskedOf(rs, core)
                               /\ key[k] # kk /\ key[k] \in DOMAIN rs
      /\ n \in 0 .. (n + 1) - 1 /\ more[n] = kk
      /\ \A k \in 0 .. (n + 1) - 1 : k = n \/ k \in 0 .. n - 1
  <2>1. \A k \in 0 .. n - 1 : key[k] \in AskedOf(rs, core)
    BY <1>1 DEF RamsListed
  <2>2. \A k \in 0 .. n - 1 : key[k] # kk /\ key[k] \in DOMAIN rs
    BY <1>4, <2>1 DEF AskedOf
  <2> QED BY <1>2, <2>1, <2>2
<1>7. more \in [0 .. (n + 1) - 1 -> AskedOf(new, core)]
  BY <1>5, <1>6
<1> HIDE DEF more
<1>8. RamsListed(r, new, core, n + 1, more)
  <2>1. ASSUME NEW k \in 0 .. (n + 1) - 1
        PROVE  EntryFor(r.mem[RamAt(r, core) + k], more[k][2], more[k][3], new[more[k]])
    <3>1. CASE k = n
      <4>1. more[k][2] = reg /\ more[k][3] = thread /\ new[more[k]] = data
        BY <1>3, <1>4, <1>6, <3>1
      <4> QED BY <3>1, <4>1
    <3>2. CASE k \in 0 .. n - 1
      <4>1. more[k] = key[k] /\ key[k] # kk /\ key[k] \in DOMAIN rs /\ new[key[k]] = rs[key[k]]
        BY <1>4, <1>6, <3>2
      <4>2. EntryFor(img.mem[RamAt(img, core) + k], key[k][2], key[k][3], rs[key[k]])
        BY <1>1, <3>2 DEF RamsListed
      <4>3. CASE k = n - 1
        <5>1. r.mem[RamAt(img, core) + k] = Going(img.mem[RamAt(img, core) + k])
          BY <1>2, <3>2, <4>3
        <5> QED BY <4>1, <4>2, <5>1, EntryFields
      <4>4. CASE k # n - 1
        <5>1. k \in 0 .. RamOps - 1 /\ k # n
          BY <1>2, <3>2
        <5>2. r.mem[RamAt(img, core) + k] = img.mem[RamAt(img, core) + k]
          BY <4>4, <5>1
        <5> QED BY <4>1, <4>2, <5>2
      <4> QED BY <4>3, <4>4
    <3> QED BY <1>6, <3>1, <3>2
  <2>2. \A j, k \in 0 .. (n + 1) - 1 : more[j] = more[k] => j = k
    BY <1>1, <1>6 DEF RamsListed
  <2>3. ASSUME NEW a \in AskedOf(new, core) PROVE \E k \in 0 .. (n + 1) - 1 : more[k] = a
    <3>1. CASE a = kk
      BY <1>6, <3>1
    <3>2. CASE a \in AskedOf(rs, core)
      <4>1. PICK k \in 0 .. n - 1 : key[k] = a
        BY <1>1, <3>2 DEF RamsListed
      <4> QED BY <1>6, <4>1
    <3> QED BY <1>5, <3>1, <3>2
  <2> QED BY <1>7, <2>1, <2>2, <2>3 DEF RamsListed
<1>9. ASSUME NEW k \in 0 .. RamOps - 1 PROVE Ends(r.mem[RamAt(r, core) + k]) <=> k = (n + 1) - 1
  <2>1. Ends(img.mem[RamAt(img, core) + k]) <=> k = n - 1
    BY DEF RamHolds
  <2>2. CASE k = n
    BY <1>2, <2>2
  <2>3. CASE k = n - 1
    <3>1. k \in 0 .. n - 1 /\ n > 0
      BY <1>2, <2>3
    <3>2. EntryFor(img.mem[RamAt(img, core) + k], key[k][2], key[k][3], rs[key[k]])
      BY <1>1, <3>1 DEF RamsListed
    <3>3. r.mem[RamAt(img, core) + k] = Going(img.mem[RamAt(img, core) + k])
      BY <2>3, <3>1
    <3>4. ~ Ends(r.mem[RamAt(img, core) + k])
      <4> DEFINE c == img.mem[RamAt(img, core) + k]
                 x == key[k][2]
                 y == key[k][3]
                 z == rs[key[k]]
      <4>1. EntryFor(c, x, y, z) /\ r.mem[RamAt(img, core) + k] = Going(c)
        BY <3>2, <3>3
      <4> HIDE DEF c, x, y, z
      <4>2. ~ Ends(Going(c))
        BY <4>1, EntryFields
      <4> QED BY <4>1, <4>2
    <3> QED BY <1>2, <2>3, <3>4
  <2>4. CASE k # n /\ k # n - 1
    <3>1. r.mem[RamAt(img, core) + k] = img.mem[RamAt(img, core) + k]
      BY <2>4
    <3> QED BY <1>2, <2>1, <2>4, <3>1
  <2> QED BY <2>2, <2>3, <2>4
<1>10. ASSUME NEW k \in n + 1 .. RamOps - 1 PROVE r.mem[RamAt(r, core) + k] = Zero
  <2>1. k \in 0 .. RamOps - 1 /\ k # n /\ k # n - 1 /\ k \in n .. RamOps - 1
    BY <1>2
  <2> QED BY <2>1 DEF RamHolds
<1>11. n + 1 \in 0 .. RamOps
  BY <1>2
<1> QED BY <1>8, <1>9, <1>10, <1>11 DEF RamHolds

-----------------------------------------------------------------------------
(* A cell of an image is written.                                          *)
CellSet(img, a, cell, r) ==
    /\ Framed(r) /\ r.size = img.size /\ r.section = img.section
    /\ r.mem[a] = cell /\ \A b \in 0 .. BufferSize - 1 : b # a => r.mem[b] = img.mem[b]

LEMMA CellPut ==
  ASSUME NEW img, Framed(img), NEW a \in 0 .. BufferSize - 1, NEW cell, NEW r, r = Put(img, a, cell)
  PROVE  CellSet(img, a, cell, r)
<1> DEFINE mem == [img.mem EXCEPT ![a] = cell]
<1>1. img.mem = [b \in 0 .. BufferSize - 1 |-> img.mem[b]]
  BY DEF Framed, MemoryOf
<1>2. mem = [b \in 0 .. BufferSize - 1 |-> IF b = a THEN cell ELSE img.mem[b]]
  BY <1>1
<1>3. r = [img EXCEPT !.mem = mem]
  BY DEF Put, Framed, Fields
<1> HIDE DEF mem
<1>4. MemoryOf(mem)
  BY <1>2 DEF MemoryOf
<1>5. Framed(r) /\ r.mem = mem /\ r.size = img.size /\ r.section = img.section
  BY <1>3, <1>4, FramedMemory
<1> QED BY <1>2, <1>5 DEF CellSet

(* A call on the RAM table of a core changes no cell but its entries and   *)
(* the pointer to it.                                                      *)
RamOnly(img, r, core) ==
    /\ Framed(r) /\ r.size = img.size /\ r.section = img.section
    /\ \A b \in 0 .. BufferSize - 1 :
          b # Cell(RamVector + core) /\ (\A k \in 0 .. RamOps - 1 : b # RamAt(img, core) + k) => r.mem[b] = img.mem[b]
Lead(img, kind, core) ==
    img.mem[Cell(RamVector + core)] =
        Word(IF kind = "sram" /\ img.mem[RamAt(img, core)] = Zero THEN 0 ELSE LinkAddress + RamAt(img, core))

(* The other tables and pointers are as before.                            *)
RestStays(img, r, kind, core) ==
    /\ TablesFound(r, kind)
    /\ \A c \in CoreIds : RamAt(r, c) = RamAt(img, c)
    /\ \A c \in CoreIds \ {core}, k \in 0 .. RamOps - 1 : r.mem[RamAt(img, c) + k] = img.mem[RamAt(img, c) + k]
    /\ \A c \in CoreIds, part \in Parts : ScomPlace(r, c, part) = ScomPlace(img, c, part)
    /\ \A c \in CoreIds, part \in Parts : \A k \in 0 .. ScomOps[part] :
          r.mem[ScomPlace(img, c, part) + k] = img.mem[ScomPlace(img, c, part) + k]

LEMMA OtherTablesStay ==
  ASSUME NEW img, NEW kind, TablesFound(img, kind), NEW core \in CoreIds, NEW r, RamOnly(img, r, core), Lead(r, kind, core)
  PROVE  RestStays(img, r, kind, core)
<1> DEFINE start == SlwStart(img)
<1>1. /\ SlwPlaced(img) /\ BufferSize \in Nat /\ start \in Nat /\ start <= BufferSize /\ PartStart(1) \in Nat
  BY TablePlaces, SlwSizeBounds DEF TablesFound, SlwPlaced
<1>2. SlwStart(r) = start /\ r.section = img.section /\ r.size = img.size /\ Framed(r)
  BY DEF RamOnly, SlwStart
<1>3. /\ \A c \in CoreIds : RamAt(r, c) = RamAt(img, c)
      /\ \A c \in CoreIds, part \in Parts : ScomPlace(r, c, part) = ScomPlace(img, c, part)
  BY <1>2 DEF RamAt, ScomPlace
<1>4. SlwPlaced(r)
  BY <1>1, <1>2 DEF SlwPlaced, SlwStart
<1>5. \A k \in 0 .. RamOps - 1 : start <= RamAt(img, core) + k /\ RamAt(img, core) + k < start + PartStart(1)
  BY <1>1, TablePlaces
<1>6. \A p \in Pointers : Cell(p) \in 0 .. BufferSize - 1 /\ Cell(p) < start
  BY <1>1 DEF SlwPlaced
<1>7. ASSUME NEW p \in Pointers, Cell(p) # Cell(RamVector + core) PROVE r.mem[Cell(p)] = img.mem[Cell(p)]
  <2> DEFINE b == Cell(p)
  <2>1. b \in 0 .. BufferSize - 1 /\ b < start /\ b # Cell(RamVector + core)
    BY <1>6, <1>7
  <2> HIDE DEF b
  <2>2. \A k \in 0 .. RamOps - 1 : b # RamAt(img, core) + k
    <3>1. ASSUME NEW k \in 0 .. RamOps - 1 PROVE b # RamAt(img, core) + k
      <4>1. start <= RamAt(img, core) + k /\ RamAt(img, core) \in Nat /\ k \in Int
        BY <1>1, <1>5, TablePlaces
      <4> QED BY <1>1, <2>1, <4>1
    <3> QED BY <3>1
  <2>3. r.mem[b] = img.mem[b]
    BY <2>1, <2>2 DEF RamOnly
  <2> QED BY <2>3 DEF b
<1>8. ScomsLead(r)
  <2>1. ASSUME NEW c \in CoreIds, NEW part \in Parts
        PROVE  r.mem[Cell(ScomVectors[part] + c)] = Word(LinkAddress + ScomPlace(r, c, part))
    <3>1. ScomVectors[part] + c \in Pointers
      BY PointerTypes DEF Pointers
    <3>2. Cell(ScomVectors[part] + c) # Cell(RamVector + core)
      BY CellsApart
    <3> QED BY <1>3, <1>7, <3>1, <3>2 DEF TablesFound, ScomsLead
  <2> QED BY <2>1 DEF ScomsLead
<1>9. ASSUME NEW c \in CoreIds \ {core}, NEW k \in 0 .. RamOps - 1
      PROVE  r.mem[RamAt(img, c) + k] = img.mem[RamAt(img, c) + k]
  <2> DEFINE b == RamAt(img, c) + k
  <2>1. b \in 0 .. BufferSize - 1 /\ start <= b
    <3>1. RamAt(img, c) \in Nat /\ b \in 0 .. BufferSize - 1 /\ SlwStart(img) <= RamAt(img, c)
      BY <1>1, TablePlaces
    <3> QED BY <1>1, <3>1
  <2>2. b # Cell(RamVector + core)
    <3>1. RamVector + core \in Pointers
      BY PointerTypes DEF Pointers
    <3>2. Cell(RamVector + core) < start /\ Cell(RamVector + core) \in Int
      BY <1>6, <3>1
    <3> HIDE DEF b
    <3> QED BY <1>1, <2>1, <3>2
  <2>3. ASSUME NEW j \in 0 .. RamOps - 1 PROVE b # RamAt(img, core) + j
    <3>1. RamTable(c) + RamOps <= RamTable(core) \/ RamTable(core) + RamOps <= RamTable(c)
      BY RamTablesApart
    <3>2. RamTable(c) \in Nat /\ RamTable(core) \in Nat /\ RamOps \in Nat
      BY TableBounds, SpaceTypes
    <3> QED BY <1>1, <3>1, <3>2 DEF RamAt
  <2> HIDE DEF b
  <2>4. r.mem[b] = img.mem[b]
    BY <2>1, <2>2, <2>3 DEF RamOnly
  <2> QED BY <2>4 DEF b
<1>10. ASSUME NEW c \in CoreIds, NEW part \in Parts, NEW k \in 0 .. ScomOps[part]
       PROVE  r.mem[ScomPlace(img, c, part) + k] = img.mem[ScomPlace(img, c, part) + k]
  <2> DEFINE b == ScomPlace(img, c, part) + k
  <2>1. b \in 0 .. BufferSize - 1 /\ start + PartStart(1) <= b
    <3>1. /\ ScomPlace(img, c, part) \in Nat /\ b \in 0 .. BufferSize - 1
          /\ SlwStart(img) + PartStart(1) <= ScomPlace(img, c, part)
      BY <1>1, TablePlaces
    <3>2. k \in Nat
      BY SpaceTypes
    <3> QED BY <1>1, <3>1, <3>2
  <2>2. b # Cell(RamVector + core)
    <3>1. RamVector + core \in Pointers
      BY PointerTypes DEF Pointers
    <3>2. Cell(RamVector + core) < start /\ Cell(RamVector + core) \in Int
      BY <1>6, <3>1
    <3> HIDE DEF b
    <3> QED BY <1>1, <2>1, <3>2
  <2> HIDE DEF b
  <2>3. ASSUME NEW j \in 0 .. RamOps - 1 PROVE b # RamAt(img, core) + j
    <3>1. RamAt(img, core) + j < start + PartStart(1) /\ RamAt(img, core) \in Nat
      BY <1>1, <1>5, TablePlaces
    <3> QED BY <1>1, <2>1, <3>1
  <2>4. r.mem[b] = img.mem[b]
    BY <2>1, <2>2, <2>3 DEF RamOnly
  <2> QED BY <2>4 DEF b
<1>11. RamsLead(r, kind)
  <2>1. ASSUME NEW c \in CoreIds PROVE Lead(r, kind, c)
    <3>1. CASE c = core
      BY <3>1
    <3>2. CASE c # core
      <4>1. RamVector + c \in Pointers /\ Cell(RamVector + c) # Cell(RamVector + core)
        BY <3>2, PointerTypes, CellsApart DEF Pointers, Parts
      <4>2. r.mem[Cell(RamVector + c)] = img.mem[Cell(RamVector + c)]
        BY <1>7, <4>1
      <4>3. r.mem[RamAt(img, c)] = img.mem[RamAt(img, c)]
        <5>1. 0 \in 0 .. RamOps - 1 /\ RamAt(img, c) + 0 = RamAt(img, c)
          BY <1>1, TablePlaces, SpaceTypes
        <5>2. r.mem[RamAt(img, c) + 0] = img.mem[RamAt(img, c) + 0]
          BY <1>9, <3>2, <5>1
        <5> QED BY <5>1, <5>2
      <4>4. Lead(img, kind, c)
        BY Zenon DEF TablesFound, RamsLead, Lead
      <4> QED BY <1>3, <4>2, <4>3, <4>4, Zenon DEF Lead
    <3> QED BY <3>1, <3>2
  <2> QED BY <2>1, Zenon DEF RamsLead, Lead
<1>12. TablesFound(r, kind)
  BY <1>2, <1>4, <1>8, <1>11 DEF TablesFound
<1> QED BY <1>3, <1>9, <1>10, <1>12 DEF RestStays

(* A table that holds an entry is not blank at its first cell, and one     *)
(* that holds none is.                                                     *)
LEMMA FirstEntry ==
  ASSUME NEW img, SlwPlaced(img), NEW rs, NEW core \in CoreIds, NEW n, RamHolds(img, rs, core, n)
  PROVE  n \in Nat /\ (img.mem[RamAt(img, core)] = Zero <=> n = 0)
<1>1. n \in 0 .. RamOps /\ RamOps \in Nat \ {0} /\ n \in Nat /\ RamAt(img, core) + 0 = RamAt(img, core)
  <2>1. RamOps \in Nat \ {0} /\ 0 \in 0 .. RamOps - 1
    BY SpaceTypes
  <2>2. RamAt(img, core) \in Nat
    BY <2>1, TablePlaces
  <2> QED BY <2>1, <2>2 DEF RamHolds
<1>2. CASE n = 0
  <2>1. 0 \in n .. RamOps - 1
    BY <1>1, <1>2
  <2>2. img.mem[RamAt(img, core) + 0] = Zero
    BY <2>1 DEF RamHolds
  <2> QED BY <1>1, <1>2, <2>2
<1>3. CASE n # 0
  <2>1. PICK key : RamsListed(img, rs, core, n, key)
    BY DEF RamHolds
  <2>2. 0 \in 0 .. n - 1
    BY <1>1, <1>3
  <2> DEFINE c == img.mem[RamAt(img, core) + 0]
             x == key[0][2]
             y == key[0][3]
             z == rs[key[0]]
  <2>3. EntryFor(c, x, y, z)
    BY <2>1, <2>2 DEF RamsListed
  <2> HIDE DEF x, y, z, c
  <2>4. c # Zero
    BY <2>3, EntryFields
  <2> QED BY <1>1, <1>3, <2>4 DEF c
<1> QED BY <1>2, <1>3

(* The entries for a register and thread: one when it has been asked for,  *)
(* which a search finds, and none otherwise.                               *)
FoundOnce(img, rs, core, n, reg, thread, hit) ==
    \/ hit = {} /\ <<core, reg, thread>> \notin DOMAIN rs
    \/ \E h \in 0 .. n - 1 : hit = {h} /\ IsFor(img.mem[RamAt(img, core) + h], reg, thread)

LEMMA EntriesFound ==
  ASSUME NEW img, NEW rs, DOMAIN rs \subseteq RamKeys, NEW core \in CoreIds, NEW n, RamHolds(img, rs, core, n),
         NEW reg, NEW thread, NEW hit, hit = Replaced(img, RamAt(img, core), reg, thread)
  PROVE  FoundOnce(img, rs, core, n, reg, thread, hit)
<1> DEFINE at == RamAt(img, core)
<1>1. PICK key : RamsListed(img, rs, core, n, key)
  BY DEF RamHolds
<1>2. n \in 0 .. RamOps /\ RamOps \in Nat
  BY SpaceTypes DEF RamHolds
<1>3. hit = {k \in 0 .. RamOps - 1 : /\ \A j \in 0 .. k - 1 : ~ Ends(img.mem[at + j])
                                     /\ k < RamOps - 1 \/ Ends(img.mem[at + k])
                                     /\ IsFor(img.mem[at + k], reg, thread)}
  BY DEF Replaced
<1>4. \A k \in 0 .. RamOps - 1 : Ends(img.mem[at + k]) <=> k = n - 1
  BY DEF RamHolds
<1>5. \A k \in 0 .. RamOps - 1 : IsFor(img.mem[at + k], reg, thread) => k \in 0 .. n - 1
  <2>1. ASSUME NEW k \in 0 .. RamOps - 1, k \notin 0 .. n - 1 PROVE ~ IsFor(img.mem[at + k], reg, thread)
    <3>1. k \in n .. RamOps - 1
      BY <1>2, <2>1
    <3>2. img.mem[at + k] = Zero
      BY <3>1 DEF RamHolds
    <3> HIDE DEF at
    <3> QED BY <3>2, FreshEntry
  <2> QED BY <2>1
<1>6. \A k \in 0 .. n - 1 : k \in 0 .. RamOps - 1 /\ key[k] \in AskedOf(rs, core)
                            /\ (IsFor(img.mem[at + k], reg, thread) <=> key[k] = <<core, reg, thread>>)
  <2>1. ASSUME NEW k \in 0 .. n - 1
        PROVE  k \in 0 .. RamOps - 1 /\ key[k] \in AskedOf(rs, core)
               /\ (IsFor(img.mem[at + k], reg, thread) <=> key[k] = <<core, reg, thread>>)
    <3> DEFINE c == img.mem[at + k]
               x == key[k][2]
               y == key[k][3]
               z == rs[key[k]]
    <3>1. EntryFor(c, x, y, z) /\ key[k] \in AskedOf(rs, core)
      BY <1>1 DEF RamsListed
    <3>2. key[k] = <<core, x, y>>
      BY <3>1, KeyOfCore
    <3> HIDE DEF c, x, y, z
    <3>3. IsFor(c, x, y) /\ \A r, t : IsFor(c, r, t) => r = x /\ t = y
      BY <3>1, EntryFields
    <3>4. IsFor(c, reg, thread) <=> reg = x /\ thread = y
      BY <3>3
    <3>5. key[k] = <<core, reg, thread>> <=> reg = x /\ thread = y
      BY <3>2
    <3>6. k \in 0 .. RamOps - 1
      BY <1>2
    <3> QED BY <3>1, <3>4, <3>5, <3>6 DEF c
  <2> QED BY <2>1
<1> HIDE DEF at
<1>7. \A k \in 0 .. n - 1 : key[k] = <<core, reg, thread>> => k \in hit
  <2>1. ASSUME NEW k \in 0 .. n - 1, key[k] = <<core, reg, thread>> PROVE k \in hit
    <3>1. k \in 0 .. RamOps - 1 /\ IsFor(img.mem[at + k], reg, thread)
      BY <1>6, <2>1
    <3>2. \A j \in 0 .. k - 1 : ~ Ends(img.mem[at + j])
      <4>1. \A j \in 0 .. k - 1 : j \in 0 .. RamOps - 1 /\ j # n - 1
        BY <1>2
      <4> QED BY <1>4, <4>1
    <3>3. k < RamOps - 1 \/ Ends(img.mem[at + k])
      <4>1. k < RamOps - 1 \/ k = n - 1
        BY <1>2
      <4> QED BY <1>4, <3>1, <4>1
    <3> QED BY <1>3, <3>1, <3>2, <3>3
  <2> QED BY <2>1
<1>8. \A k \in hit : k \in 0 .. n - 1 /\ key[k] = <<core, reg, thread>> /\ IsFor(img.mem[at + k], reg, thread)
  BY <1>3, <1>5, <1>6
<1>9. CASE hit = {}
  <2>1. <<core, reg, thread>> \notin AskedOf(rs, core)
    BY <1>1, <1>7, <1>9 DEF RamsListed
  <2> QED BY <1>9, <2>1 DEF AskedOf, FoundOnce
<1>10. CASE hit # {}
  <2>1. PICK h \in hit : h \in 0 .. n - 1
    BY <1>8, <1>10
  <2>2. \A k \in hit : k = h
    BY <1>1, <1>8, <2>1 DEF RamsListed
  <2>3. hit = {h}
    BY <2>1, <2>2
  <2> QED BY <1>8, <2>1, <2>3 DEF at, FoundOnce
<1> QED BY <1>9, <1>10

(* What a call on a RAM table leaves: the image as it was, or a table that *)
(* holds what has been asked for.                                          *)
RamDone(img, g, kind, rs, core, key, data) ==
    /\ g.rc = "OK" /\ RestStays(img, g.image, kind, core)
    /\ \E n : RamHolds(g.image, With(rs, key, data), core, n)
RamNotDone(img, g) == g.image = img /\ g.rc \in {"INVALID_PARM", "TABLE_END_NOT_FOUND", "TABLE_FULL"}

(* A pointer that stays leads to a table that stays, or to a new entry.    *)
LEMMA LeadKept ==
  ASSUME NEW img, NEW kind, TablesFound(img, kind), NEW core \in CoreIds, NEW r, RamOnly(img, r, core),
         r.mem[Cell(RamVector + core)] = img.mem[Cell(RamVector + core)],
         img.mem[RamAt(img, core)] # Zero, r.mem[RamAt(img, core)] # Zero
  PROVE  Lead(r, kind, core)
<1>1. RamAt(r, core) = RamAt(img, core)
  BY DEF RamOnly, RamAt, SlwStart
<1>2. Lead(img, kind, core)
  BY Zenon DEF TablesFound, RamsLead, Lead
<1> QED BY <1>1, <1>2, Zenon DEF Lead

(* The cells of a core's table, and the pointer to it, are not one.        *)
LEMMA RamCells ==
  ASSUME NEW img, SlwPlaced(img), NEW core \in CoreIds
  PROVE  /\ Cell(RamVector + core) \in 0 .. BufferSize - 1
         /\ \A k \in 0 .. RamOps - 1 : /\ RamAt(img, core) + k \in 0 .. BufferSize - 1
                                       /\ RamAt(img, core) + k # Cell(RamVector + core)
         /\ \A j, k \in 0 .. RamOps - 1 : RamAt(img, core) + j = RamAt(img, core) + k => j = k
         /\ RamAt(img, core) \in Nat /\ RamAt(img, core) # 0
<1>1. RamVector + core \in Pointers
  BY PointerTypes DEF Pointers
<1>2. Cell(RamVector + core) \in 0 .. SlwStart(img) - 1 /\ SlwStart(img) \in Nat
  BY <1>1 DEF SlwPlaced
<1>3. /\ BufferSize \in Nat /\ SlwStart(img) <= BufferSize /\ RamOps \in Nat \ {0}
      /\ \A k \in 0 .. RamOps - 1 : /\ RamAt(img, core) \in Nat /\ SlwStart(img) <= RamAt(img, core)
                                    /\ RamAt(img, core) + k \in 0 .. BufferSize - 1
  BY TablePlaces, SpaceTypes, SlwSizeBounds DEF SlwPlaced
<1>4. 0 \in 0 .. RamOps - 1
  BY <1>3
<1>5. RamAt(img, core) \in Nat /\ SlwStart(img) <= RamAt(img, core)
  BY <1>3, <1>4
<1>6. \A k \in 0 .. RamOps - 1 : RamAt(img, core) + k # Cell(RamVector + core)
  BY <1>2, <1>5
<1>7. \A j, k \in 0 .. RamOps - 1 : RamAt(img, core) + j = RamAt(img, core) + k => j = k
  BY <1>5
<1> QED BY <1>2, <1>3, <1>5, <1>6, <1>7

(* An entry that is written to the table of a core.                        *)
LEMMA EntryWritten ==
  ASSUME NEW img, SlwPlaced(img), NEW core \in CoreIds, NEW k \in 0 .. RamOps - 1, NEW cell,
         NEW r, r = Put(img, RamAt(img, core) + k, cell)
  PROVE  /\ RamOnly(img, r, core) /\ RamAt(r, core) = RamAt(img, core)
         /\ r.mem[RamAt(img, core) + k] = cell
         /\ \A j \in 0 .. RamOps - 1 : j # k => r.mem[RamAt(img, core) + j] = img.mem[RamAt(img, core) + j]
         /\ r.mem[Cell(RamVector + core)] = img.mem[Cell(RamVector + core)]
<1>1. /\ Cell(RamVector + core) \in 0 .. BufferSize - 1
      /\ \A j \in 0 .. RamOps - 1 : /\ RamAt(img, core) + j \in 0 .. BufferSize - 1
                                    /\ RamAt(img, core) + j # Cell(RamVector + core)
      /\ \A i, j \in 0 .. RamOps - 1 : RamAt(img, core) + i = RamAt(img, core) + j => i = j
  BY RamCells
<1>2. CellSet(img, RamAt(img, core) + k, cell, r)
  <2> DEFINE a == RamAt(img, core) + k
  <2>1. a \in 0 .. BufferSize - 1 /\ Framed(img) /\ r = Put(img, a, cell)
    BY <1>1 DEF SlwPlaced
  <2> HIDE DEF a
  <2>2. CellSet(img, a, cell, r)
    BY <2>1, CellPut
  <2> QED BY <2>2 DEF a
<1>3. RamAt(r, core) = RamAt(img, core)
  BY <1>2 DEF CellSet, RamAt, SlwStart
<1> QED BY <1>1, <1>2, <1>3 DEF CellSet, RamOnly

(* p8_pore_gen_cpureg_fixed on a table that has been begun.                *)
LEMMA OldTableKeeps ==
  ASSUME NEW img, NEW kind, TablesFound(img, kind), NEW rs, DOMAIN rs \subseteq RamKeys, NEW core \in CoreIds,
         NEW n, RamHolds(img, rs, core, n), NEW reg, NEW thread, NEW data,
         NEW g, g = OldTable(img, RamAt(img, core), Fresh(reg, thread, data))
  PROVE  RamNotDone(img, g) \/ RamDone(img, g, kind, rs, core, <<core, reg, thread>>, data)
<1> DEFINE at == RamAt(img, core)
           entry == Fresh(reg, thread, data)
           hit == Replaced(img, at, reg, thread)
           first == CHOOSE j \in hit : \A i \in hit : j <= i
           last == LastEntry(img, at)
           kk == <<core, reg, thread>>
           new == With(rs, kk, data)
<1>1. /\ EntryFor(entry, reg, thread, data) /\ entry.reg = reg /\ entry.thread = thread
  BY FreshEntry
<1>2. /\ hit # {} => g = Answer("OK", Put(img, at + first, EndAs(entry, img.mem[at + first])))
      /\ hit = {} =>
            /\ Ended(img, at) = {} => g = Answer("TABLE_END_NOT_FOUND", img)
            /\ Ended(img, at) # {} =>
                  /\ last + 1 >= RamOps => g = Answer("TABLE_FULL", img)
                  /\ ~ (last + 1 >= RamOps) =>
                        g = Answer("OK", Put(Put(img, at + last, Going(img.mem[at + last])), at + last + 1, Ending(entry)))
  <2> HIDE DEF entry
  <2>1. g = OldTable(img, at, entry) /\ hit = Replaced(img, at, entry.reg, entry.thread)
    BY <1>1, Zenon DEF entry
  <2> HIDE DEF at
  <2> QED BY <2>1, Zenon DEF OldTable, EndAs, EndSet, Going, Ending
<1>3. SlwPlaced(img) /\ n \in 0 .. RamOps /\ RamOps \in Nat \ {0} /\ n \in Nat /\ (img.mem[at] = Zero <=> n = 0)
      /\ at \in Nat /\ at + 0 = at /\ 0 \in 0 .. RamOps - 1
  BY FirstEntry, SpaceTypes, RamCells DEF TablesFound, RamHolds
<1>4. \A k \in 0 .. RamOps - 1 : Ends(img.mem[at + k]) <=> k = n - 1
  BY DEF RamHolds
<1>5. Ended(img, at) = {k \in 0 .. RamOps - 1 : k = n - 1}
  BY <1>4 DEF Ended
<1>6. CASE hit # {}
  <2>1. PICK h \in 0 .. n - 1 : hit = {h} /\ IsFor(img.mem[at + h], reg, thread)
    <3> HIDE DEF hit
    <3>1. FoundOnce(img, rs, core, n, reg, thread, hit)
      BY EntriesFound DEF hit
    <3> QED BY <1>6, <3>1 DEF FoundOnce
  <2>2. first = h
    BY <1>3, <2>1
  <2> DEFINE cell == EndAs(entry, img.mem[at + h])
             r == Put(img, at + h, cell)
  <2>3. g = Answer("OK", r)
    BY <1>2, <1>6, <2>2
  <2>4. EntryFor(cell, reg, thread, data) /\ (Ends(cell) <=> Ends(img.mem[at + h]))
    <3>1. PICK key : RamsListed(img, rs, core, n, key)
      BY DEF RamHolds
    <3> DEFINE c == img.mem[at + h]
               x == key[h][2]
               y == key[h][3]
               z == rs[key[h]]
    <3>2. EntryFor(c, x, y, z)
      BY <3>1 DEF RamsListed
    <3> HIDE DEF c, x, y, z, entry
    <3>3. EntryFor(EndAs(entry, c), reg, thread, data) /\ (Ends(EndAs(entry, c)) <=> Ends(c))
      BY <1>1, <3>2, EndKept
    <3> QED BY <3>3 DEF c
  <2>5. h \in 0 .. RamOps - 1
    BY <1>3
  <2> HIDE DEF cell, entry, first, hit, last
  <2>6. r = Put(img, RamAt(img, core) + h, cell)
    OBVIOUS
  <2> HIDE DEF r
  <2>7. /\ RamOnly(img, r, core) /\ RamAt(r, core) = RamAt(img, core)
        /\ r.mem[RamAt(img, core) + h] = cell
        /\ \A j \in 0 .. RamOps - 1 : j # h => r.mem[RamAt(img, core) + j] = img.mem[RamAt(img, core) + j]
        /\ r.mem[Cell(RamVector + core)] = img.mem[Cell(RamVector + core)]
    BY <1>3, <2>5, <2>6, EntryWritten
  <2>8. RamHolds(r, new, core, n)
    <3>1. new = With(rs, <<core, reg, thread>>, data)
      OBVIOUS
    <3> HIDE DEF new
    <3>2. EntryFor(r.mem[RamAt(img, core) + h], reg, thread, data)
      BY <2>4, <2>7
    <3>3. Ends(r.mem[RamAt(img, core) + h]) <=> Ends(img.mem[RamAt(img, core) + h])
      BY <2>4, <2>7
    <3> QED BY <2>1, <2>7, <3>1, <3>2, <3>3, RamsReplaced
  <2>9. Lead(r, kind, core)
    <3>1. SlwPlaced(r)
      BY <1>3, <2>7 DEF RamOnly, SlwPlaced, SlwStart
    <3>2. r.mem[RamAt(r, core)] # Zero
      BY <1>3, <2>8, <3>1, FirstEntry
    <3>3. img.mem[RamAt(img, core)] # Zero
      BY <1>3
    <3> QED BY <2>7, <3>2, <3>3, LeadKept
  <2>10. RestStays(img, r, kind, core)
    BY <2>7, <2>9, OtherTablesStay
  <2> QED BY <2>3, <2>8, <2>10, AnswerFields DEF RamDone
<1>7. CASE hit = {}
  <2>1. kk \notin DOMAIN rs
    <3> HIDE DEF hit
    <3>1. FoundOnce(img, rs, core, n, reg, thread, hit)
      BY EntriesFound DEF hit
    <3> QED BY <1>7, <3>1 DEF FoundOnce
  <2>2. CASE Ended(img, at) = {}
    BY <1>2, <1>7, <2>2, AnswerFields DEF RamNotDone
  <2>3. CASE Ended(img, at) # {}
    <3>1. n - 1 \in 0 .. RamOps - 1 /\ Ended(img, at) = {n - 1}
      BY <1>3, <1>5, <2>3
    <3>2. last = n - 1 /\ last + 1 = n /\ at + last + 1 = at + n
      BY <1>3, <3>1 DEF LastEntry
    <3>3. CASE last + 1 >= RamOps
      BY <1>2, <1>7, <2>3, <3>3, AnswerFields DEF RamNotDone
    <3>4. CASE ~ (last + 1 >= RamOps)
      <4> DEFINE l == n - 1
                 r1 == Put(img, at + l, Going(img.mem[at + l]))
                 r == Put(r1, at + n, Ending(entry))
      <4>1. n < RamOps /\ n \in 0 .. RamOps - 1 /\ l \in 0 .. RamOps - 1 /\ n # l /\ n > 0
        BY <1>3, <3>1, <3>2, <3>4
      <4>2. g = Answer("OK", r)
        BY <1>2, <1>7, <2>3, <3>2, <3>4
      <4>3. EntryFor(Ending(entry), reg, thread, data) /\ Ends(Ending(entry))
        <5> HIDE DEF entry
        <5> QED BY <1>1, EntryFields
      <4> HIDE DEF entry, hit, first, last
      <4>4. r1 = Put(img, RamAt(img, core) + l, Going(img.mem[RamAt(img, core) + l]))
        OBVIOUS
      <4> HIDE DEF r1
      <4>5. /\ RamOnly(img, r1, core) /\ RamAt(r1, core) = RamAt(img, core)
            /\ r1.mem[RamAt(img, core) + l] = Going(img.mem[RamAt(img, core) + l])
            /\ \A j \in 0 .. RamOps - 1 : j # l => r1.mem[RamAt(img, core) + j] = img.mem[RamAt(img, core) + j]
            /\ r1.mem[Cell(RamVector + core)] = img.mem[Cell(RamVector + core)]
        BY <1>3, <4>1, <4>4, EntryWritten
      <4>6. SlwPlaced(r1)
        BY <1>3, <4>5 DEF RamOnly, SlwPlaced, SlwStart
      <4>7. r = Put(r1, RamAt(r1, core) + n, Ending(entry))
        BY <4>5
      <4> HIDE DEF r
      <4>8. /\ RamOnly(r1, r, core) /\ RamAt(r, core) = RamAt(r1, core)
            /\ r.mem[RamAt(r1, core) + n] = Ending(entry)
            /\ \A j \in 0 .. RamOps - 1 : j # n => r.mem[RamAt(r1, core) + j] = r1.mem[RamAt(r1, core) + j]
            /\ r.mem[Cell(RamVector + core)] = r1.mem[Cell(RamVector + core)]
        BY <4>1, <4>6, <4>7, EntryWritten
      <4>9. RamOnly(img, r, core)
        BY <4>5, <4>8 DEF RamOnly
      <4>10. RamHolds(r, new, core, n + 1)
        <5>1. new = With(rs, <<core, reg, thread>>, data)
          OBVIOUS
        <5> HIDE DEF new
        <5>2. EntryFor(r.mem[RamAt(img, core) + n], reg, thread, data) /\ Ends(r.mem[RamAt(img, core) + n])
          BY <4>3, <4>5, <4>8
        <5>3. r.mem[RamAt(img, core) + (n - 1)] = Going(img.mem[RamAt(img, core) + (n - 1)])
          BY <4>1, <4>5, <4>8
        <5>4. \A k \in 0 .. RamOps - 1 : k # n /\ k # n - 1 => r.mem[RamAt(img, core) + k] = img.mem[RamAt(img, core) + k]
          BY <4>5, <4>8
        <5>5. <<core, reg, thread>> \notin DOMAIN rs
          BY <2>1
        <5>6. RamAt(r, core) = RamAt(img, core)
          BY <4>5, <4>8
        <5> QED BY <4>1, <5>1, <5>2, <5>3, <5>4, <5>5, <5>6, RamsAppended
      <4>11. Lead(r, kind, core)
        <5>1. SlwPlaced(r)
          BY <1>3, <4>9 DEF RamOnly, SlwPlaced, SlwStart
        <5>2. r.mem[RamAt(r, core)] # Zero
          BY <1>3, <4>10, <5>1, FirstEntry
        <5>3. img.mem[RamAt(img, core)] # Zero
          BY <1>3, <4>1
        <5> QED BY <4>5, <4>8, <4>9, <5>2, <5>3, LeadKept
      <4>12. RestStays(img, r, kind, core)
        BY <4>9, <4>11, OtherTablesStay
      <4> QED BY <4>2, <4>10, <4>12, AnswerFields DEF RamDone
    <3> QED BY <3>3, <3>4
  <2> QED BY <2>2, <2>3
<1> QED BY <1>6, <1>7

(* The first entry of a table.  In mode SRAM, that sets the pointer to it. *)
LEMMA NewTableKeeps ==
  ASSUME NEW img, NEW kind, TablesFound(img, kind), NEW rs, DOMAIN rs \subseteq RamKeys, NEW core \in CoreIds,
         RamHolds(img, rs, core, 0), NEW reg, NEW thread, NEW data, NEW mode,
         mode = "SRAM" => kind = "sram", mode # "SRAM" => kind = "fixed",
         TableAt(img, mode, core) = RamAt(img, core),
         NEW g, g = NewTable(img, mode, core, Fresh(reg, thread, data))
  PROVE  RamDone(img, g, kind, rs, core, <<core, reg, thread>>, data)
<1> DEFINE at == RamAt(img, core)
           entry == Fresh(reg, thread, data)
           kk == <<core, reg, thread>>
           new == With(rs, kk, data)
           a == RamVector - LinkAddress + core
           word == Word(LinkAddress + at)
           v == IF mode = "SRAM" THEN Put(img, a, word) ELSE img
           r == Put(v, at, Ending(entry))
<1>1. SlwPlaced(img) /\ img.mem[at] = Zero /\ RamOps \in Nat \ {0} /\ at \in Nat /\ at + 0 = at /\ 0 \in 0 .. RamOps - 1
  BY FirstEntry, SpaceTypes, RamCells DEF TablesFound
<1>2. g = Answer("OK", r)
  <2> HIDE DEF entry
  <2>1. g = NewTable(img, mode, core, entry) /\ TableAt(img, mode, core) = at
    BY Zenon DEF entry
  <2> HIDE DEF at
  <2> QED BY <1>1, <2>1, Zenon DEF NewTable, Ending, EndSet
<1>3. EntryFor(Ending(entry), reg, thread, data) /\ Ends(Ending(entry)) /\ Ending(entry) # Zero
  <2>1. EntryFor(entry, reg, thread, data)
    BY FreshEntry
  <2> HIDE DEF entry
  <2>2. EntryFor(Ending(entry), reg, thread, data) /\ Ends(Ending(entry))
    BY <2>1, EntryFields
  <2> DEFINE c == Ending(entry)
  <2> HIDE DEF c
  <2>3. EntryFor(c, reg, thread, data)
    BY <2>2 DEF c
  <2>4. c # Zero
    BY <2>3, EntryFields
  <2> QED BY <2>2, <2>4 DEF c
<1>4. a = Cell(RamVector + core) /\ a \in 0 .. BufferSize - 1
  <2>1. RamVector \in Nat /\ core \in Nat /\ LinkAddress \in Nat
    BY SlwAssumption, PointerTypes, XipAssumption
  <2>2. Cell(RamVector + core) \in 0 .. BufferSize - 1
    BY <1>1, RamCells
  <2> QED BY <2>1, <2>2 DEF Cell
<1> HIDE DEF entry, word, a, v
<1>5. /\ Framed(v) /\ v.size = img.size /\ v.section = img.section
      /\ \A b \in 0 .. BufferSize - 1 : b # Cell(RamVector + core) => v.mem[b] = img.mem[b]
      /\ mode = "SRAM" => v.mem[Cell(RamVector + core)] = word
      /\ mode # "SRAM" => v = img
  <2>1. CASE mode = "SRAM"
    <3>1. v = Put(img, a, word) /\ Framed(img)
      BY <1>1, <2>1 DEF v, SlwPlaced
    <3>2. CellSet(img, a, word, v)
      BY <1>4, <3>1, CellPut
    <3> QED BY <1>4, <2>1, <3>2 DEF CellSet
  <2>2. CASE mode # "SRAM"
    BY <1>1, <2>2 DEF v, SlwPlaced
  <2> QED BY <2>1, <2>2
<1>6. SlwPlaced(v) /\ RamAt(v, core) = at
  BY <1>1, <1>5 DEF SlwPlaced, SlwStart, RamAt
<1>7. r = Put(v, RamAt(v, core) + 0, Ending(entry))
  BY <1>1, <1>6
<1> HIDE DEF r
<1>8. /\ RamOnly(v, r, core) /\ RamAt(r, core) = RamAt(v, core)
      /\ r.mem[RamAt(v, core) + 0] = Ending(entry)
      /\ \A j \in 0 .. RamOps - 1 : j # 0 => r.mem[RamAt(v, core) + j] = v.mem[RamAt(v, core) + j]
      /\ r.mem[Cell(RamVector + core)] = v.mem[Cell(RamVector + core)]
  BY <1>1, <1>6, <1>7, EntryWritten
<1>9. RamOnly(img, r, core)
  BY <1>5, <1>6, <1>8 DEF RamOnly
<1>10. RamHolds(r, new, core, 0 + 1)
  <2>1. new = With(rs, <<core, reg, thread>>, data)
    OBVIOUS
  <2> HIDE DEF new
  <2>2. EntryFor(r.mem[RamAt(img, core) + 0], reg, thread, data) /\ Ends(r.mem[RamAt(img, core) + 0])
    BY <1>3, <1>6, <1>8
  <2>3. RamAt(r, core) = RamAt(img, core)
    BY <1>6, <1>8
  <2>4. <<core, reg, thread>> \notin DOMAIN rs
    <3>1. PICK key : RamsListed(img, rs, core, 0, key)
      BY DEF RamHolds
    <3>2. AskedOf(rs, core) = {}
      BY <3>1 DEF RamsListed
    <3> QED BY <3>2 DEF AskedOf
  <2>5. \A k \in 0 .. RamOps - 1 : k # 0 /\ k # 0 - 1 => r.mem[RamAt(img, core) + k] = img.mem[RamAt(img, core) + k]
    <3>1. ASSUME NEW k \in 0 .. RamOps - 1, k # 0 PROVE r.mem[RamAt(img, core) + k] = img.mem[RamAt(img, core) + k]
      <4>1. RamAt(img, core) + k \in 0 .. BufferSize - 1 /\ RamAt(img, core) + k # Cell(RamVector + core)
        BY <1>1, RamCells
      <4>2. v.mem[RamAt(img, core) + k] = img.mem[RamAt(img, core) + k]
        BY <1>5, <4>1
      <4> QED BY <1>6, <1>8, <3>1, <4>2
    <3> QED BY <3>1
  <2>6. 0 < RamOps /\ ~ (0 > 0) /\ 0 \in Nat
    BY <1>1
  <2> QED BY <2>1, <2>2, <2>3, <2>4, <2>5, <2>6, RamsAppended
<1>11. Lead(r, kind, core)
  <2>1. RamAt(r, core) = at /\ r.mem[RamAt(r, core)] # Zero
    BY <1>1, <1>3, <1>6, <1>8
  <2>2. r.mem[Cell(RamVector + core)] = Word(LinkAddress + at)
    <3>1. CASE mode = "SRAM"
      BY <1>5, <1>8, <3>1 DEF word
    <3>2. CASE mode # "SRAM"
      <4>1. kind # "sram" /\ v = img
        BY <1>5, <3>2
      <4>2. img.mem[Cell(RamVector + core)] = Word(LinkAddress + at)
        BY <4>1, Zenon DEF TablesFound, RamsLead
      <4> QED BY <1>8, <4>1, <4>2
    <3> QED BY <3>1, <3>2
  <2> HIDE DEF at
  <2> QED BY <2>1, <2>2, Zenon DEF Lead
<1>12. RestStays(img, r, kind, core)
  BY <1>9, <1>11, OtherTablesStay
<1> QED BY <1>2, <1>10, <1>12, AnswerFields DEF RamDone

(* p8_pore_gen_cpureg_fixed, by either way to the tables: a call that does *)
(* not fail leaves what has been asked for in the table of the core, and   *)
(* the others as they were, and one that fails leaves the image.           *)
LEMMA RamCall ==
  ASSUME NEW img, NEW kind \in {"fixed", "sram"}, TablesFound(img, kind), NEW rs, DOMAIN rs \subseteq RamKeys,
         \A c \in CoreIds : \E n : RamHolds(img, rs, c, n),
         NEW reg \in STRING, NEW core \in Nat, NEW thread \in Nat, NEW data,
         NEW mode \in {"IPL", "SRAM"}, kind = "sram" => mode = "SRAM",
         NEW g, g = GenCpuReg(img, mode, reg, data, core, thread)
  PROVE  \/ RamNotDone(img, g)
         \/ /\ core \in CoreIds
            /\ RamDone(img, g, kind, rs, core, <<core, reg, IF reg \in ThreadRegs THEN thread ELSE 0>>, data)
<1> DEFINE at == RamAt(img, core)
           t == IF reg \in ThreadRegs THEN thread ELSE 0
           entry == Fresh(reg, t, data)
<1>1. CASE RamCheck(reg, core, thread) # "OK"
  <2>1. g = Answer("INVALID_PARM", img)
    BY <1>1, Zenon DEF GenCpuReg
  <2> QED BY <2>1, AnswerFields DEF RamNotDone
<1>2. CASE RamCheck(reg, core, thread) = "OK"
  <2>1. core \in CoreIds
    <3>1. ~ (core >= Cores)
      BY <1>2 DEF RamCheck
    <3> QED BY <3>1, SpaceTypes DEF CoreIds
  <2>2. SlwPlaced(img) /\ img.section[SLW].size = SlwSize /\ img.section[SLW].offset = SlwStart(img)
    BY DEF TablesFound, SlwPlaced, SlwStart
  <2>3. SlwCheck(img, mode) = "OK"
    <3>1. mode # "SRAM" => SlwStart(img) = FixedSlw
      BY DEF TablesFound
    <3> QED BY <2>2, <3>1 DEF SlwCheck
  <2>4. g = IF IsNew(img, mode, core) THEN NewTable(img, mode, core, entry) ELSE OldTable(img, TableAt(img, mode, core), entry)
    BY <1>2, <2>3, Zenon DEF GenCpuReg, Fresh
  <2>5. PICK n : RamHolds(img, rs, core, n)
    BY <2>1
  <2>6. n \in Nat /\ (img.mem[at] = Zero <=> n = 0) /\ at \in Nat /\ at # 0 /\ LinkAddress \in Nat
    BY <2>1, <2>2, <2>5, FirstEntry, RamCells, XipAssumption
  <2>7. VectorWord(img, RamVector, core) = IF kind = "sram" /\ n = 0 THEN 0 ELSE LinkAddress + at
    <3> DEFINE w == IF kind = "sram" /\ n = 0 THEN 0 ELSE LinkAddress + at
    <3>1. img.mem[Cell(RamVector + core)] = Word(IF kind = "sram" /\ img.mem[at] = Zero THEN 0 ELSE LinkAddress + at)
      BY <2>1, Zenon DEF TablesFound, RamsLead
    <3>2. img.mem[Cell(RamVector + core)] = Word(w)
      BY <2>6, <3>1, Zenon
    <3>3. SlotCell(img, RamVector + core) = Word(w)
      BY <3>2 DEF SlotCell, Cell
    <3> HIDE DEF w
    <3>4. VectorWord(img, RamVector, core) = w
      BY <3>3 DEF VectorWord, Pointer, Word
    <3> QED BY <3>4 DEF w
  <2>8. TableAt(img, mode, core) = at
    <3>1. CASE mode = "SRAM" /\ ~ IsNew(img, mode, core)
      <4>1. VectorWord(img, RamVector, core) # 0
        BY <3>1 DEF IsNew
      <4>2. VectorWord(img, RamVector, core) = LinkAddress + at
        BY <2>7, <4>1
      <4>3. TableAt(img, mode, core) = VectorWord(img, RamVector, core) - LinkAddress
        BY <3>1, Zenon DEF TableAt
      <4> HIDE DEF at
      <4> QED BY <2>6, <4>2, <4>3
    <3>2. CASE ~ (mode = "SRAM" /\ ~ IsNew(img, mode, core))
      <4>1. TableAt(img, mode, core) = img.section[SLW].offset + RamTable(core)
        BY <3>2, Zenon DEF TableAt
      <4> QED BY <2>2, <4>1 DEF RamAt
    <3> QED BY <3>1, <3>2
  <2>9. IsNew(img, mode, core) => n = 0 /\ (mode = "SRAM" => kind = "sram")
    <3>1. CASE mode = "SRAM"
      <4>1. IsNew(img, mode, core) <=> VectorWord(img, RamVector, core) = 0
        BY <3>1 DEF IsNew
      <4> HIDE DEF at
      <4>2. LinkAddress + at # 0
        BY <2>6
      <4> QED BY <2>7, <4>1, <4>2
    <3>2. CASE mode # "SRAM"
      <4>1. FixedSlw + RamTable(core) = at
        BY <3>2 DEF TablesFound, RamAt
      <4>2. IsNew(img, mode, core) <=> img.mem[at] = Zero
        <5> HIDE DEF at
        <5> QED BY <3>2, <4>1, Zenon DEF IsNew
      <4> QED BY <2>6, <3>2, <4>2
    <3> QED BY <3>1, <3>2
  <2> DEFINE key == <<core, reg, t>>
  <2>10. CASE IsNew(img, mode, core)
    <3>1. g = NewTable(img, mode, core, Fresh(reg, t, data)) /\ RamHolds(img, rs, core, 0)
      BY <2>4, <2>5, <2>9, <2>10, Zenon
    <3> HIDE DEF t
    <3>2. mode = "SRAM" => kind = "sram"
      BY <2>9, <2>10
    <3>3. mode # "SRAM" => kind = "fixed"
      OBVIOUS
    <3>4. RamDone(img, g, kind, rs, core, <<core, reg, t>>, data)
      BY <2>1, <2>8, <3>1, <3>2, <3>3, NewTableKeeps
    <3> QED BY <2>1, <3>4 DEF t
  <2>11. CASE ~ IsNew(img, mode, core)
    <3>1. g = OldTable(img, RamAt(img, core), Fresh(reg, t, data))
      BY <2>4, <2>8, <2>11, Zenon
    <3> HIDE DEF t
    <3>2. RamNotDone(img, g) \/ RamDone(img, g, kind, rs, core, <<core, reg, t>>, data)
      BY <2>1, <2>5, <3>1, OldTableKeeps
    <3> QED BY <2>1, <3>2 DEF t
  <2> QED BY <2>10, <2>11
<1> QED BY <1>1, <1>2

-----------------------------------------------------------------------------
(***************************************************************************)
(* The entries of the SCOM tables.  A table is a function of the numbers   *)
(* of its cells.                                                           *)
(***************************************************************************)
TableOf(img, core, part) == [k \in 0 .. ScomOps[part] |-> img.mem[ScomPlace(img, core, part) + k]]
IsAt(c, addr) == c.kind = "scom" /\ c.addr = addr
EntryOf(c, core) == c = NNNN \/ \E addr, data : c = LsSti(core, addr, data)
Hits(t, m, addr) == {k \in 0 .. m - 1 : IsAt(t[k], addr)}

(* What has been asked for an address is what its only entry writes.       *)
Old(ss, key) == IF key \in DOMAIN ss THEN ss[key] ELSE Nothing
Told(t, hits, old) ==
    \/ old.several
    \/ hits = {} /\ old.value = {}
    \/ \E k : hits = {k} /\ old.value = {t[k].data}
ScomHolds(t, ss, core, part, m) ==
    /\ m \in 0 .. ScomOps[part]
    /\ \A k \in 0 .. m - 1 : EntryOf(t[k], core)
    /\ \A k \in m .. ScomOps[part] : t[k] = RNNN
    /\ \A addr \in Nat : Told(t, Hits(t, m, addr), Old(ss, <<core, part, addr>>))

(* The kinds of cells are apart.                                           *)
LEMMA ScomFields ==
  /\ \A core, addr, data : /\ IsAt(LsSti(core, addr, data), addr) /\ LsSti(core, addr, data).data = data
                           /\ \A a : IsAt(LsSti(core, addr, data), a) => a = addr
                           /\ LsSti(core, addr, data) # RNNN /\ LsSti(core, addr, data) # NNNN
                           /\ LsSti(core, addr, data).chiplet = core + CidExLow
  /\ NNNN # RNNN /\ \A a : ~ IsAt(NNNN, a) /\ ~ IsAt(RNNN, a)
<1>1. /\ \A core, addr, data : LsSti(core, addr, data).kind = "scom" /\ LsSti(core, addr, data).addr = addr
                               /\ LsSti(core, addr, data).data = data /\ LsSti(core, addr, data).chiplet = core + CidExLow
      /\ NNNN.kind = "nop" /\ RNNN.kind = "ret"
  BY DEF LsSti, NNNN, RNNN
<1> QED BY <1>1 DEF IsAt

(* An entry that is not a NOP is for an address.                           *)
LEMMA ScomEntry ==
  ASSUME NEW c, NEW core, EntryOf(c, core)
  PROVE  /\ c # RNNN
         /\ c # NNNN => c.chiplet = core + CidExLow /\ IsAt(c, c.addr)
         /\ \A addr : IsAt(c, addr) <=> c # NNNN /\ c.addr = addr
         /\ \A addr : IsAt(c, addr) => c = LsSti(core, addr, c.data)
<1>1. CASE c = NNNN
  BY <1>1, ScomFields
<1>2. CASE c # NNNN
  <2>1. PICK addr, data : c = LsSti(core, addr, data)
    BY <1>2 DEF EntryOf
  <2>2. c.addr = addr /\ c.data = data
    BY <2>1 DEF LsSti
  <2> QED BY <1>2, <2>1, <2>2, ScomFields
<1> QED BY <1>1, <1>2

(* Writing one cell of a table leaves the hits of other addresses.         *)
OneChanged(t, k, cell, u, part) == \A j \in 0 .. ScomOps[part] : u[j] = IF j = k THEN cell ELSE t[j]

LEMMA OtherTold ==
  ASSUME NEW t, NEW ss, NEW core, NEW part \in Parts, NEW m, ScomHolds(t, ss, core, part, m),
         NEW k \in 0 .. ScomOps[part], NEW cell, NEW u, OneChanged(t, k, cell, u, part),
         NEW m2, (k < m /\ m2 = m) \/ (k = m /\ m2 = m + 1),
         NEW addr \in Nat, ~ IsAt(t[k], addr), ~ IsAt(cell, addr), NEW new,
         Old(new, <<core, part, addr>>) = Old(ss, <<core, part, addr>>)
  PROVE  Told(u, Hits(u, m2, addr), Old(new, <<core, part, addr>>))
<1> DEFINE n == ScomOps[part]
<1>1. n \in Nat /\ m \in 0 .. n
  BY SpaceTypes DEF ScomHolds
<1>2. k \in 0 .. n /\ \A j \in 0 .. n : u[j] = IF j = k THEN cell ELSE t[j]
  BY DEF OneChanged
<1> HIDE DEF n
<1>3. Hits(u, m2, addr) = Hits(t, m, addr)
  <2>1. \A j \in 0 .. m2 - 1 : j \in 0 .. n /\ (j # k => j \in 0 .. m - 1)
    BY <1>1, <1>2
  <2>2. \A j \in 0 .. m - 1 : j \in 0 .. n /\ j \in 0 .. m2 - 1
    BY <1>1, <1>2
  <2> QED BY <1>2, <2>1, <2>2 DEF Hits
<1>4. \A j \in Hits(t, m, addr) : u[j] = t[j]
  <2>1. \A j \in 0 .. m - 1 : j \in 0 .. n
    BY <1>1
  <2> QED BY <1>2, <2>1 DEF Hits
<1>5. Told(t, Hits(t, m, addr), Old(ss, <<core, part, addr>>))
  BY DEF ScomHolds
<1> DEFINE h == Hits(t, m, addr)
           old == Old(ss, <<core, part, addr>>)
<1>6. Told(t, h, old) /\ (\A j \in h : u[j] = t[j])
  BY <1>4, <1>5
<1> HIDE DEF h, old
<1>7. Told(u, h, old)
  BY <1>6, Zenon DEF Told
<1> QED BY <1>3, <1>7 DEF h, old

(* What a call asks for: its address, by its operation.                    *)
AsksFor(op, data, old, new) ==
    /\ new.several <=> old.several \/ (op = "APPEND" /\ old.value # {})
    /\ new.value = CASE op = "NOOP" -> {}
                     [] op \in {"OR", "OR_APPEND"} /\ old.value # {} -> {d \cup data : d \in old.value}
                     [] op \in {"AND", "AND_APPEND"} /\ old.value # {} -> {d \cap data : d \in old.value}
                     [] OTHER -> {data}

LEMMA AskedIs ==
  ASSUME NEW q, NEW old
  PROVE  AsksFor(q.operation, q.data, old, Asked(q, old))
BY Zenon DEF AsksFor, Asked

(* Another entry is asked for an address.                                  *)
LEMMA OldOf ==
  ASSUME NEW ss, NEW core, NEW part, NEW addr, NEW x, NEW new, new = With(ss, <<core, part, addr>>, x)
  PROVE  /\ Old(new, <<core, part, addr>>) = x
         /\ \A key : key # <<core, part, addr>> => Old(new, key) = Old(ss, key)
<1> DEFINE kk == <<core, part, addr>>
<1>1. new = With(ss, kk, x)
  OBVIOUS
<1> HIDE DEF kk
<1>2. Old(new, kk) = x /\ \A key : key # kk => Old(new, key) = Old(ss, key)
  BY <1>1 DEF Old, With
<1> QED BY <1>2 DEF kk

(* An entry is added for an address.                                       *)
LEMMA EntryAdded ==
  ASSUME NEW t, NEW ss, NEW core, NEW part \in Parts, NEW m, ScomHolds(t, ss, core, part, m),
         NEW addr \in Nat, NEW data, NEW op, op = "APPEND" \/ (Hits(t, m, addr) = {} /\ op \in {"REPLACE", "OR_APPEND", "AND_APPEND"}),
         NEW k, NEW m2, (k \in 0 .. m - 1 /\ t[k] = NNNN /\ m2 = m) \/ (k = m /\ m < ScomOps[part] /\ m2 = m + 1),
         NEW u, OneChanged(t, k, LsSti(core, addr, data), u, part),
         NEW x, AsksFor(op, data, Old(ss, <<core, part, addr>>), x),
         NEW new, new = With(ss, <<core, part, addr>>, x)
  PROVE  ScomHolds(u, new, core, part, m2)
<1> DEFINE n == ScomOps[part]
           cell == LsSti(core, addr, data)
           h == Hits(t, m, addr)
           old == Old(ss, <<core, part, addr>>)
<1>1. n \in Nat /\ m \in 0 .. n
  BY SpaceTypes DEF ScomHolds
<1>2. \A j \in 0 .. n : u[j] = IF j = k THEN cell ELSE t[j]
  BY DEF OneChanged
<1>3. (k \in 0 .. m - 1 /\ t[k] = NNNN /\ m2 = m) \/ (k = m /\ m < n /\ m2 = m + 1)
  OBVIOUS
<1>4. \A a : ~ IsAt(t[k], a)
  <2>1. k = m => t[k] = RNNN
    BY <1>1 DEF ScomHolds
  <2> QED BY <1>3, <2>1, ScomFields
<1>5. IsAt(cell, addr) /\ (\A a : IsAt(cell, a) => a = addr) /\ cell.data = data
  BY ScomFields
<1>6. /\ Old(new, <<core, part, addr>>) = x
      /\ \A a \in Nat : a # addr => Old(new, <<core, part, a>>) = Old(ss, <<core, part, a>>)
  BY OldOf
<1>7. Told(t, h, old)
  BY DEF ScomHolds
<1>8. Hits(u, m2, addr) = h \cup {k} /\ u[k] = cell
  <2> HIDE DEF n, cell
  <2>1. \A j \in 0 .. m2 - 1 : j \in 0 .. n /\ (j # k => j \in 0 .. m - 1)
    BY <1>1, <1>3
  <2>2. \A j \in 0 .. m - 1 : j \in 0 .. n /\ j \in 0 .. m2 - 1
    BY <1>1, <1>3
  <2>3. k \in 0 .. m2 - 1 /\ k \in 0 .. n
    BY <1>1, <1>3
  <2> QED BY <1>2, <1>4, <1>5, <2>1, <2>2, <2>3 DEF Hits
<1>9. Told(u, Hits(u, m2, addr), x)
  <2>1. CASE x.several
    BY <2>1, Zenon DEF Told
  <2>2. CASE ~ x.several
    <3>1. ~ old.several /\ ~ (op = "APPEND" /\ old.value # {})
      BY <2>2, Zenon DEF AsksFor
    <3> HIDE DEF h, old, cell
    <3>2. h = {} /\ old.value = {}
      <4>1. (h = {} /\ old.value = {}) \/ \E j : h = {j} /\ old.value = {t[j].data}
        BY <1>7, <3>1, Zenon DEF Told
      <4>2. op = "APPEND" \/ h = {}
        BY DEF h
      <4> QED BY <3>1, <4>1, <4>2
    <3>3. x.value = {data}
      <4>1. op \in {"APPEND", "REPLACE", "OR_APPEND", "AND_APPEND"} /\ op # "NOOP"
        OBVIOUS
      <4>2. AsksFor(op, data, old, x)
        BY DEF old
      <4> QED BY <3>2, <4>1, <4>2 DEF AsksFor
    <3>4. Hits(u, m2, addr) = {k} /\ x.value = {u[k].data}
      BY <1>5, <1>8, <3>2, <3>3
    <3> QED BY <3>4, Zenon DEF Told
  <2> QED BY <2>1, <2>2
<1>10. ASSUME NEW a \in Nat PROVE Told(u, Hits(u, m2, a), Old(new, <<core, part, a>>))
  <2>1. CASE a = addr
    BY <1>6, <1>9, <2>1
  <2>2. CASE a # addr
    <3>1. ~ IsAt(t[k], a) /\ ~ IsAt(cell, a)
      BY <1>4, <1>5, <2>2
    <3>2. Old(new, <<core, part, a>>) = Old(ss, <<core, part, a>>)
      BY <1>6, <2>2
    <3>3. k \in 0 .. ScomOps[part] /\ ((k < m /\ m2 = m) \/ (k = m /\ m2 = m + 1))
      BY <1>1, <1>3
    <3>4. OneChanged(t, k, cell, u, part)
      OBVIOUS
    <3> HIDE DEF cell
    <3> QED BY <3>1, <3>2, <3>3, <3>4, OtherTold
  <2> QED BY <2>1, <2>2
<1>11. m2 \in 0 .. n /\ \A j \in 0 .. m2 - 1 : j \in 0 .. n /\ (j # k => j \in 0 .. m - 1)
  BY <1>1, <1>3
<1>12. \A j \in m2 .. n : j \in m .. n /\ j \in 0 .. n /\ j # k
  BY <1>1, <1>3
<1>13. EntryOf(cell, core)
  BY DEF EntryOf
<1> QED BY <1>2, <1>10, <1>11, <1>12, <1>13 DEF ScomHolds

(* The entry of an address is changed: replaced, made a NOP, or or-ed or   *)
(* and-ed with what it writes.                                             *)
ChangedTo(op, t, k, core, addr, data, cell) ==
    \/ op = "NOOP" /\ cell = NNNN
    \/ op = "REPLACE" /\ cell = LsSti(core, addr, data)
    \/ op \in {"OR", "OR_APPEND"} /\ cell = LsSti(core, addr, t[k].data \cup data)
    \/ op \in {"AND", "AND_APPEND"} /\ cell = LsSti(core, addr, t[k].data \cap data)

LEMMA EntryChanged ==
  ASSUME NEW t, NEW ss, NEW core, NEW part \in Parts, NEW m, ScomHolds(t, ss, core, part, m),
         NEW addr \in Nat, NEW data, NEW op, NEW k \in Hits(t, m, addr),
         NEW cell, ChangedTo(op, t, k, core, addr, data, cell),
         NEW u, OneChanged(t, k, cell, u, part),
         NEW x, AsksFor(op, data, Old(ss, <<core, part, addr>>), x),
         NEW new, new = With(ss, <<core, part, addr>>, x)
  PROVE  ScomHolds(u, new, core, part, m)
<1> DEFINE n == ScomOps[part]
           h == Hits(t, m, addr)
           old == Old(ss, <<core, part, addr>>)
<1>1. n \in Nat /\ m \in 0 .. n
  BY SpaceTypes DEF ScomHolds
<1>2. k \in 0 .. m - 1 /\ k \in 0 .. n /\ IsAt(t[k], addr) /\ \A j \in 0 .. n : u[j] = IF j = k THEN cell ELSE t[j]
  BY <1>1 DEF OneChanged, Hits
<1>3. EntryOf(cell, core)
  BY DEF ChangedTo, EntryOf
<1>4. \/ op = "NOOP" /\ cell = NNNN
      \/ \E d : /\ op # "NOOP" /\ cell = LsSti(core, addr, d)
                /\ \/ op = "REPLACE" /\ d = data
                   \/ op \in {"OR", "OR_APPEND"} /\ d = t[k].data \cup data
                   \/ op \in {"AND", "AND_APPEND"} /\ d = t[k].data \cap data
  BY DEF ChangedTo
<1>5. \A a : a # addr => ~ IsAt(t[k], a) /\ ~ IsAt(cell, a)
  <2>1. \A a : IsAt(t[k], a) => a = addr
    BY <1>2 DEF IsAt
  <2> QED BY <1>4, <2>1, ScomFields
<1>6. /\ Old(new, <<core, part, addr>>) = x
      /\ \A a \in Nat : a # addr => Old(new, <<core, part, a>>) = Old(ss, <<core, part, a>>)
  BY OldOf
<1>7. Told(t, h, old)
  BY DEF ScomHolds
<1>8. \A j \in 0 .. m - 1 : j \in 0 .. n
  BY <1>1
<1>9. /\ cell = NNNN => Hits(u, m, addr) = h \ {k}
      /\ cell # NNNN => Hits(u, m, addr) = h
  <2> HIDE DEF n
  <2>1. cell = NNNN => Hits(u, m, addr) = h \ {k}
    BY <1>2, <1>8, ScomFields DEF Hits
  <2>2. cell # NNNN => IsAt(cell, addr)
    BY <1>4, ScomFields
  <2>3. cell # NNNN => Hits(u, m, addr) = h
    BY <1>2, <1>8, <2>2 DEF Hits
  <2> QED BY <2>1, <2>3
<1>10. Told(u, Hits(u, m, addr), x)
  <2>1. CASE x.several
    BY <2>1, Zenon DEF Told
  <2>2. CASE ~ x.several
    <3>1. ~ old.several
      BY <2>2, Zenon DEF AsksFor
    <3>2. k \in h
      OBVIOUS
    <3>3. AsksFor(op, data, old, x)
      OBVIOUS
    <3> HIDE DEF h, old
    <3>4. h = {k} /\ old.value = {t[k].data}
      <4>1. (h = {} /\ old.value = {}) \/ \E j : h = {j} /\ old.value = {t[j].data}
        BY <1>7, <3>1, Zenon DEF Told
      <4> QED BY <3>2, <4>1
    <3>5. CASE op = "NOOP"
      <4>1. x.value = {} /\ cell = NNNN
        BY <1>4, <3>3, <3>5 DEF AsksFor
      <4>2. Hits(u, m, addr) = {}
        BY <1>9, <3>4, <4>1
      <4> QED BY <4>1, <4>2, Zenon DEF Told
    <3>6. CASE op # "NOOP"
      <4>1. PICK d : /\ cell = LsSti(core, addr, d)
                     /\ \/ op = "REPLACE" /\ d = data
                        \/ op \in {"OR", "OR_APPEND"} /\ d = t[k].data \cup data
                        \/ op \in {"AND", "AND_APPEND"} /\ d = t[k].data \cap data
        BY <1>4, <3>6
      <4>2. x.value = {d}
        <5>1. CASE op = "REPLACE"
          BY <3>3, <4>1, <5>1 DEF AsksFor
        <5>2. CASE op \in {"OR", "OR_APPEND"}
          <6>1. x.value = {e \cup data : e \in old.value}
            BY <3>3, <3>4, <5>2 DEF AsksFor
          <6> QED BY <3>4, <4>1, <5>2, <6>1
        <5>3. CASE op \in {"AND", "AND_APPEND"}
          <6>1. x.value = {e \cap data : e \in old.value}
            BY <3>3, <3>4, <5>3 DEF AsksFor
          <6> QED BY <3>4, <4>1, <5>3, <6>1
        <5> QED BY <4>1, <5>1, <5>2, <5>3
      <4>3. Hits(u, m, addr) = {k} /\ u[k] = cell /\ cell.data = d
        BY <1>2, <1>9, <3>4, <4>1, ScomFields
      <4>4. Hits(u, m, addr) = {k} /\ x.value = {u[k].data}
        BY <4>2, <4>3
      <4> QED BY <4>4, Zenon DEF Told
    <3> QED BY <3>5, <3>6
  <2> QED BY <2>1, <2>2
<1>11. ASSUME NEW a \in Nat PROVE Told(u, Hits(u, m, a), Old(new, <<core, part, a>>))
  <2>1. CASE a = addr
    BY <1>6, <1>10, <2>1
  <2>2. CASE a # addr
    <3>1. ~ IsAt(t[k], a) /\ ~ IsAt(cell, a)
      BY <1>5, <2>2
    <3>2. Old(new, <<core, part, a>>) = Old(ss, <<core, part, a>>)
      BY <1>6, <2>2
    <3>3. k \in 0 .. ScomOps[part] /\ k < m
      BY <1>1, <1>2
    <3> QED BY <3>1, <3>2, <3>3, OtherTold
  <2> QED BY <2>1, <2>2
<1>12. \A j \in m .. n : j \in 0 .. n /\ j # k
  BY <1>1, <1>2
<1> QED BY <1>1, <1>2, <1>3, <1>8, <1>11, <1>12 DEF ScomHolds

(* A table is reset: what has been asked for it is forgotten.              *)
Forgotten(ss, core, part) == [j \in {i \in DOMAIN ss : i[1] # core \/ i[2] # part} |-> ss[j]]

LEMMA TableReset ==
  ASSUME NEW t, NEW ss, NEW core, NEW part \in Parts, NEW m, ScomHolds(t, ss, core, part, m),
         NEW u, \A j \in 0 .. ScomOps[part] : u[j] = IF j \in 0 .. m - 1 THEN RNNN ELSE t[j]
  PROVE  ScomHolds(u, Forgotten(ss, core, part), core, part, 0)
<1> DEFINE n == ScomOps[part]
<1>1. n \in Nat /\ m \in 0 .. n
  BY SpaceTypes DEF ScomHolds
<1>2. \A j \in 0 .. n : u[j] = RNNN
  <2>1. \A j \in 0 .. n : j \in 0 .. m - 1 \/ j \in m .. n
    BY <1>1
  <2> QED BY <2>1 DEF ScomHolds
<1>3. ASSUME NEW a \in Nat PROVE Told(u, Hits(u, 0, a), Old(Forgotten(ss, core, part), <<core, part, a>>))
  <2>1. Hits(u, 0, a) = {}
    BY DEF Hits
  <2>2. Old(Forgotten(ss, core, part), <<core, part, a>>) = Nothing
    BY DEF Old, Forgotten
  <2>3. Nothing.value = {}
    BY DEF Nothing
  <2> QED BY <2>1, <2>2, <2>3, Zenon DEF Told
<1> QED BY <1>1, <1>2, <1>3 DEF ScomHolds

-----------------------------------------------------------------------------
(***************************************************************************)
(* The calls on the SCOM tables.                                           *)
(***************************************************************************)

(* The places of a table's entries.                                        *)
LEMMA ScomCells ==
  ASSUME NEW img, SlwPlaced(img), NEW core \in CoreIds, NEW part \in Parts
  PROVE  /\ ScomOps[part] \in Nat /\ ScomPlace(img, core, part) \in Nat /\ BufferSize \in Nat
         /\ SlwStart(img) + PartStart(1) <= ScomPlace(img, core, part)
         /\ ScomPlace(img, core, part) + ScomOps[part] < BufferSize
         /\ \A k \in 0 .. ScomOps[part] :
               /\ ScomPlace(img, core, part) + k \in 0 .. BufferSize - 1
               /\ TableOf(img, core, part)[k] = img.mem[ScomPlace(img, core, part) + k]
<1> DEFINE n == ScomOps[part]
           at == ScomPlace(img, core, part)
<1>1. n \in Nat /\ BufferSize \in Nat
  BY SpaceTypes, TablePlaces
<1>2. \A k \in 0 .. n : /\ at \in Nat /\ SlwStart(img) + PartStart(1) <= at /\ at + k \in 0 .. BufferSize - 1
  BY TablePlaces
<1>3. TableOf(img, core, part) = [k \in 0 .. n |-> img.mem[at + k]]
  BY DEF TableOf
<1> HIDE DEF n, at
<1>4. n \in 0 .. n /\ 0 \in 0 .. n
  BY <1>1
<1>5. at + n \in 0 .. BufferSize - 1 /\ at \in Nat
  BY <1>2, <1>4
<1>6. at + n < BufferSize
  BY <1>1, <1>5
<1> QED BY <1>1, <1>2, <1>3, <1>5, <1>6, <1>4 DEF n, at

(* The search of a table: how many entries there are, one of the address,  *)
(* and one that is a NOP.                                                  *)
Searched(img, at, t, m, addr) ==
    /\ EntriesCount(img, at) = m
    /\ \/ Hits(t, m, addr) = {} /\ EntryMatch(img, at, addr) = -1
       \/ EntryMatch(img, at, addr) \in Hits(t, m, addr)
    /\ \/ EntryNOP(img, at) = -1
       \/ EntryNOP(img, at) \in 0 .. m - 1 /\ t[EntryNOP(img, at)] = NNNN

LEMMA TableSearched ==
  ASSUME NEW img, SlwPlaced(img), NEW core \in CoreIds, NEW part \in Parts, NEW ss, NEW m,
         ScomHolds(TableOf(img, core, part), ss, core, part, m), NEW addr
  PROVE  Searched(img, ScomPlace(img, core, part), TableOf(img, core, part), m, addr)
<1> DEFINE n == ScomOps[part]
           at == ScomPlace(img, core, part)
           t == TableOf(img, core, part)
<1>1. /\ n \in Nat /\ at \in Nat /\ BufferSize \in Nat /\ at + n < BufferSize
      /\ \A k \in 0 .. n : t[k] = img.mem[at + k]
  BY ScomCells
<1>2. /\ m \in 0 .. n
      /\ \A k \in 0 .. m - 1 : EntryOf(t[k], core)
      /\ \A k \in m .. n : t[k] = RNNN
  BY <1>1 DEF ScomHolds
<1> HIDE DEF n, at, t
<1>3. \A k \in 0 .. m - 1 : k \in 0 .. n /\ t[k] = img.mem[at + k] /\ img.mem[at + k] # RNNN
  <2>1. ASSUME NEW k \in 0 .. m - 1 PROVE k \in 0 .. n /\ t[k] = img.mem[at + k] /\ img.mem[at + k] # RNNN
    <3>1. k \in 0 .. n
      BY <1>1, <1>2
    <3>2. t[k] # RNNN
      BY <1>2, ScomEntry
    <3> QED BY <1>1, <3>1, <3>2
  <2> QED BY <2>1
<1>4. img.mem[at + m] = RNNN /\ m \in 0 .. BufferSize - at
  BY <1>1, <1>2
<1>5. EntriesCount(img, at) = m
  <2>1. \A c \in 0 .. BufferSize - at :
           img.mem[at + c] = RNNN /\ (\A k \in 0 .. c - 1 : img.mem[at + k] # RNNN) => c = m
    <3>1. ASSUME NEW c \in 0 .. BufferSize - at, img.mem[at + c] = RNNN, \A k \in 0 .. c - 1 : img.mem[at + k] # RNNN
          PROVE  c = m
      <4>1. ~ (c < m)
        <5>1. c < m => c \in 0 .. m - 1
          BY <1>1, <1>2
        <5> QED BY <1>3, <3>1, <5>1
      <4>2. ~ (m < c)
        <5>1. m < c => m \in 0 .. c - 1
          BY <1>1, <1>2
        <5> QED BY <1>4, <3>1, <5>1
      <4> QED BY <1>1, <1>2, <4>1, <4>2
    <3> QED BY <3>1
  <2> QED BY <1>3, <1>4, <2>1 DEF EntriesCount
<1> DEFINE h == Hits(t, m, addr)
           o == {k \in 0 .. m - 1 : t[k] = NNNN}
<1>6. h = {k \in 0 .. EntriesCount(img, at) - 1 : img.mem[at + k].kind = "scom" /\ img.mem[at + k].addr = addr}
  BY <1>3, <1>5 DEF Hits, IsAt
<1>7. o = {k \in 0 .. EntriesCount(img, at) - 1 : img.mem[at + k] = NNNN}
  BY <1>3, <1>5
<1>8. EntryMatch(img, at, addr) = IF h = {} THEN -1 ELSE CHOOSE k \in h : \A j \in h : k <= j
  <2> DEFINE s == {k \in 0 .. EntriesCount(img, at) - 1 : img.mem[at + k].kind = "scom" /\ img.mem[at + k].addr = addr}
  <2>1. EntryMatch(img, at, addr) = IF s = {} THEN -1 ELSE CHOOSE k \in s : \A j \in s : k <= j
    BY DEF EntryMatch, FirstOf
  <2>2. s = h
    BY <1>6
  <2> HIDE DEF h, s
  <2> QED BY <2>1, <2>2
<1>9. EntryNOP(img, at) = IF o = {} THEN -1 ELSE CHOOSE k \in o : \A j \in o : k <= j
  <2> DEFINE s == {k \in 0 .. EntriesCount(img, at) - 1 : img.mem[at + k] = NNNN}
  <2>1. EntryNOP(img, at) = IF s = {} THEN -1 ELSE CHOOSE k \in s : \A j \in s : k <= j
    BY DEF EntryNOP, FirstOf
  <2>2. s = o
    BY <1>7
  <2> HIDE DEF o, s
  <2> QED BY <2>1, <2>2
<1>10. h \subseteq 0 .. m - 1 /\ o \subseteq 0 .. m - 1 /\ 0 .. m - 1 \subseteq Nat
  BY <1>1, <1>2 DEF Hits
<1>11. \A k \in o : t[k] = NNNN
  OBVIOUS
<1> HIDE DEF h, o
<1>12. h # {} => \E k \in h : \A j \in h : k <= j
  BY <1>10, LeastNatural
<1>13. o # {} => \E k \in o : \A j \in o : k <= j
  BY <1>10, LeastNatural
<1>14. (h = {} /\ EntryMatch(img, at, addr) = -1) \/ EntryMatch(img, at, addr) \in h
  BY <1>8, <1>12
<1>15. EntryNOP(img, at) = -1 \/ EntryNOP(img, at) \in o
  BY <1>9, <1>13
<1>16. EntryNOP(img, at) = -1 \/ (EntryNOP(img, at) \in 0 .. m - 1 /\ t[EntryNOP(img, at)] = NNNN)
  BY <1>10, <1>11, <1>15
<1>17. Searched(img, at, t, m, addr)
  BY <1>5, <1>14, <1>16, Zenon DEF Searched, h
<1> QED BY <1>17 DEF at, t

(* A call on a SCOM table changes no cell but its entries.                 *)
ScomOnly(img, r, core, part) ==
    /\ Framed(r) /\ r.size = img.size /\ r.section = img.section
    /\ \A b \in 0 .. BufferSize - 1 :
          (\A k \in 0 .. ScomOps[part] : b # ScomPlace(img, core, part) + k) => r.mem[b] = img.mem[b]
OthersStay(img, r, kind, core, part) ==
    /\ TablesFound(r, kind)
    /\ \A c \in CoreIds : RamAt(r, c) = RamAt(img, c)
    /\ \A c \in CoreIds, k \in 0 .. RamOps - 1 : r.mem[RamAt(img, c) + k] = img.mem[RamAt(img, c) + k]
    /\ \A c \in CoreIds, p \in Parts : c # core \/ p # part => TableOf(r, c, p) = TableOf(img, c, p)

LEMMA OtherScomsStay ==
  ASSUME NEW img, NEW kind, TablesFound(img, kind), NEW core \in CoreIds, NEW part \in Parts,
         NEW r, ScomOnly(img, r, core, part)
  PROVE  OthersStay(img, r, kind, core, part)
<1> DEFINE start == SlwStart(img)
           at == ScomPlace(img, core, part)
<1>1. SlwPlaced(img) /\ BufferSize \in Nat /\ start \in Nat /\ start <= BufferSize /\ PartStart(1) \in Nat
  BY TablePlaces, SlwSizeBounds DEF TablesFound, SlwPlaced
<1>2. at \in Nat /\ start + PartStart(1) <= at
  BY <1>1, ScomCells
<1>3. SlwStart(r) = start /\ r.section = img.section /\ r.size = img.size /\ Framed(r)
  BY DEF ScomOnly, SlwStart
<1>4. /\ \A c \in CoreIds : RamAt(r, c) = RamAt(img, c)
      /\ \A c \in CoreIds, p \in Parts : ScomPlace(r, c, p) = ScomPlace(img, c, p)
  BY <1>3 DEF RamAt, ScomPlace
<1>5. SlwPlaced(r)
  BY <1>1, <1>3 DEF SlwPlaced, SlwStart
<1>6. ASSUME NEW b \in 0 .. BufferSize - 1, b < start + PartStart(1) PROVE r.mem[b] = img.mem[b]
  <2>1. \A k \in 0 .. ScomOps[part] : k \in Nat
    BY SpaceTypes
  <2>2. \A k \in 0 .. ScomOps[part] : b # at + k
    BY <1>1, <1>2, <1>6, <2>1
  <2> QED BY <2>2 DEF ScomOnly
<1>7. \A p \in Pointers : r.mem[Cell(p)] = img.mem[Cell(p)]
  <2>1. \A p \in Pointers : Cell(p) \in 0 .. start - 1
    BY <1>1 DEF SlwPlaced
  <2>2. \A p \in Pointers : Cell(p) \in 0 .. BufferSize - 1 /\ Cell(p) < start + PartStart(1)
    BY <1>1, <2>1
  <2> QED BY <1>6, <2>2
<1>8. \A c \in CoreIds, k \in 0 .. RamOps - 1 : r.mem[RamAt(img, c) + k] = img.mem[RamAt(img, c) + k]
  <2>1. \A c \in CoreIds, k \in 0 .. RamOps - 1 :
           RamAt(img, c) + k \in 0 .. BufferSize - 1 /\ RamAt(img, c) + k < start + PartStart(1)
    BY <1>1, TablePlaces
  <2> QED BY <1>6, <2>1
<1>9. ASSUME NEW c \in CoreIds, NEW p \in Parts, c # core \/ p # part
      PROVE  TableOf(r, c, p) = TableOf(img, c, p)
  <2>1. ASSUME NEW k \in 0 .. ScomOps[p]
        PROVE  r.mem[ScomPlace(img, c, p) + k] = img.mem[ScomPlace(img, c, p) + k]
    <3> DEFINE b == ScomPlace(img, c, p) + k
    <3>1. b \in 0 .. BufferSize - 1
      BY <1>1, ScomCells
    <3>2. ASSUME NEW j \in 0 .. ScomOps[part] PROVE b # at + j
      <4> DEFINE x == ScomTable(c, p)
                 y == ScomTable(core, part)
                 u == ScomOps[p]
                 v == ScomOps[part]
      <4>1. x + ScomSpace(p) <= y \/ y + ScomSpace(part) <= x
        BY <1>9, ScomTablesApart
      <4>2. x \in Nat /\ y \in Nat /\ u \in Nat /\ v \in Nat /\ ScomSpace(p) = u + 1 /\ ScomSpace(part) = v + 1
        BY TableBounds, SpaceTypes
      <4>3. b = start + x + k /\ at = start + y /\ k \in 0 .. u /\ j \in 0 .. v
        BY DEF ScomPlace
      <4> HIDE DEF x, y, u, v, b, at, start
      <4> QED BY <1>1, <4>1, <4>2, <4>3
    <3> HIDE DEF b
    <3>3. r.mem[b] = img.mem[b]
      BY <3>1, <3>2 DEF ScomOnly
    <3> QED BY <3>3 DEF b
  <2> QED BY <1>4, <2>1 DEF TableOf
<1>10. ScomsLead(r)
  <2>1. ASSUME NEW c \in CoreIds, NEW p \in Parts
        PROVE  r.mem[Cell(ScomVectors[p] + c)] = Word(LinkAddress + ScomPlace(r, c, p))
    <3>1. ScomVectors[p] + c \in Pointers
      BY PointerTypes DEF Pointers
    <3> QED BY <1>4, <1>7, <3>1 DEF TablesFound, ScomsLead
  <2> QED BY <2>1 DEF ScomsLead
<1>11. RamsLead(r, kind)
  <2>1. ASSUME NEW c \in CoreIds PROVE Lead(r, kind, c)
    <3>1. RamVector + c \in Pointers
      BY PointerTypes DEF Pointers
    <3>2. 0 \in 0 .. RamOps - 1 /\ RamAt(img, c) + 0 = RamAt(img, c)
      BY <1>1, TablePlaces, SpaceTypes
    <3>3. r.mem[RamAt(img, c)] = img.mem[RamAt(img, c)]
      <4>1. r.mem[RamAt(img, c) + 0] = img.mem[RamAt(img, c) + 0]
        BY <1>8, <3>2
      <4> QED BY <3>2, <4>1
    <3>4. Lead(img, kind, c) /\ r.mem[Cell(RamVector + c)] = img.mem[Cell(RamVector + c)]
      BY <1>7, <3>1, Zenon DEF TablesFound, RamsLead, Lead
    <3> QED BY <1>4, <3>3, <3>4, Zenon DEF Lead
  <2> QED BY <2>1, Zenon DEF RamsLead, Lead
<1>12. TablesFound(r, kind)
  BY <1>3, <1>5, <1>10, <1>11 DEF TablesFound
<1> QED BY <1>4, <1>8, <1>9, <1>12 DEF OthersStay

(* One entry of a table is written.                                        *)
LEMMA ScomEntryWritten ==
  ASSUME NEW img, SlwPlaced(img), NEW core \in CoreIds, NEW part \in Parts, NEW k \in 0 .. ScomOps[part], NEW cell,
         NEW r, r = Put(img, ScomPlace(img, core, part) + k, cell)
  PROVE  /\ ScomOnly(img, r, core, part)
         /\ OneChanged(TableOf(img, core, part), k, cell, TableOf(r, core, part), part)
<1> DEFINE at == ScomPlace(img, core, part)
           n == ScomOps[part]
           a == at + k
<1>1. /\ n \in Nat /\ at \in Nat /\ \A j \in 0 .. n : at + j \in 0 .. BufferSize - 1
  BY ScomCells
<1>2. CellSet(img, a, cell, r)
  <2>1. a \in 0 .. BufferSize - 1 /\ Framed(img) /\ r = Put(img, a, cell)
    BY <1>1 DEF SlwPlaced
  <2> HIDE DEF a
  <2> QED BY <2>1, CellPut
<1>3. ScomPlace(r, core, part) = at
  BY <1>2 DEF CellSet, ScomPlace, SlwStart
<1>4. TableOf(r, core, part) = [j \in 0 .. n |-> r.mem[at + j]] /\ TableOf(img, core, part) = [j \in 0 .. n |-> img.mem[at + j]]
  BY <1>3 DEF TableOf
<1>5. k \in 0 .. n
  OBVIOUS
<1> HIDE DEF n, at
<1>6. \A j \in 0 .. n : j # k => at + j # a
  BY <1>1, <1>5
<1>7. \A j \in 0 .. n : r.mem[at + j] = IF j = k THEN cell ELSE img.mem[at + j]
  BY <1>1, <1>2, <1>6 DEF CellSet
<1>8. OneChanged(TableOf(img, core, part), k, cell, TableOf(r, core, part), part)
  BY <1>4, <1>7 DEF OneChanged, n
<1>9. ScomOnly(img, r, core, part)
  BY <1>2, <1>5 DEF CellSet, ScomOnly, n, at
<1> QED BY <1>8, <1>9

(* All entries of a table go.                                              *)
Gone(mem, at, m) == [a \in DOMAIN mem |-> IF a \in at .. at + m - 1 THEN RNNN ELSE mem[a]]

Remembered(img, mem) == [img EXCEPT !.mem = mem]
FramedAs(img, mem, r) == Framed(r) /\ r.mem = mem /\ r.size = img.size /\ r.section = img.section

LEMMA RememberedFrame ==
  ASSUME NEW img, Framed(img), NEW mem, MemoryOf(mem), NEW r, r = Remembered(img, mem)
  PROVE  FramedAs(img, mem, r)
<1>1. r = [img EXCEPT !.mem = mem]
  BY DEF Remembered
<1> QED BY <1>1, FramedMemory DEF FramedAs

(* A reset leaves only RNNN in the table.                                  *)
LEMMA ScomEntriesGone ==
  ASSUME NEW img, SlwPlaced(img), NEW core \in CoreIds, NEW part \in Parts, NEW m \in 0 .. ScomOps[part],
         NEW r, r = Remembered(img, Gone(img.mem, ScomPlace(img, core, part), m))
  PROVE  /\ ScomOnly(img, r, core, part)
         /\ \A j \in 0 .. ScomOps[part] :
               TableOf(r, core, part)[j] = IF j \in 0 .. m - 1 THEN RNNN ELSE TableOf(img, core, part)[j]
<1> DEFINE at == ScomPlace(img, core, part)
           n == ScomOps[part]
           mem == Gone(img.mem, at, m)
<1>1. /\ n \in Nat /\ at \in Nat /\ \A j \in 0 .. n : at + j \in 0 .. BufferSize - 1
  BY ScomCells
<1>2. Framed(img) /\ DOMAIN img.mem = 0 .. BufferSize - 1
  BY DEF SlwPlaced, Framed, MemoryOf
<1>3. MemoryOf(mem) /\ \A a \in 0 .. BufferSize - 1 : mem[a] = IF a \in at .. at + m - 1 THEN RNNN ELSE img.mem[a]
  BY <1>2 DEF MemoryOf, Gone
<1>4. m \in 0 .. n /\ r = Remembered(img, mem)
  OBVIOUS
<1> HIDE DEF mem
<1>5. Framed(r) /\ r.mem = mem /\ r.size = img.size /\ r.section = img.section
  BY <1>2, <1>3, <1>4, RememberedFrame DEF FramedAs
<1>6. ScomPlace(r, core, part) = at
  BY <1>5 DEF ScomPlace, SlwStart
<1>7. TableOf(r, core, part) = [j \in 0 .. n |-> r.mem[at + j]] /\ TableOf(img, core, part) = [j \in 0 .. n |-> img.mem[at + j]]
  BY <1>6 DEF TableOf
<1> HIDE DEF n, at
<1>8. \A j \in 0 .. n : at + j \in at .. at + m - 1 <=> j \in 0 .. m - 1
  BY <1>1, <1>4
<1>9. \A j \in 0 .. n : TableOf(r, core, part)[j] = IF j \in 0 .. m - 1 THEN RNNN ELSE TableOf(img, core, part)[j]
  <2>1. \A j \in 0 .. n : TableOf(r, core, part)[j] = r.mem[at + j] /\ TableOf(img, core, part)[j] = img.mem[at + j]
    BY <1>7
  <2>2. \A j \in 0 .. n : r.mem[at + j] = IF at + j \in at .. at + m - 1 THEN RNNN ELSE img.mem[at + j]
    BY <1>1, <1>3, <1>5
  <2> QED BY <1>8, <2>1, <2>2
<1>10. \A b \in 0 .. BufferSize - 1 : (\A j \in 0 .. n : b # at + j) => r.mem[b] = img.mem[b]
  <2>1. ASSUME NEW b \in 0 .. BufferSize - 1, b \in at .. at + m - 1 PROVE \E j \in 0 .. n : b = at + j
    <3>1. b - at \in 0 .. n /\ b = at + (b - at)
      BY <1>1, <1>4, <2>1
    <3> QED BY <3>1
  <2> QED BY <1>3, <1>5, <2>1
<1> QED BY <1>5, <1>9, <1>10 DEF ScomOnly, n, at

(* What a call on a SCOM table leaves.                                     *)
ScomDone(img, g, kind, new, core, part) ==
    /\ g.rc = "OK" /\ OthersStay(img, g.image, kind, core, part)
    /\ \E m : ScomHolds(TableOf(g.image, core, part), new, core, part, m)
ScomNotDone(img, g) ==
    g.image = img /\ g.rc \in {"INVALID_PARM", "INVALID_SUBSECTION", "CHECK_CODE", "SCOM_ENTRY_NOT_FOUND"}

(* The cases of an insertion.                                              *)
OverWith(img, at, d) == Answer("OK", Put(img, at, [img.mem[at] EXCEPT !.data = d]))
InsertionIs(img, at, op, match, nop, m, iis, g) ==
    /\ op = "APPEND" => g = Answer("OK", Put(img, at + (IF nop >= 0 THEN nop ELSE m), iis))
    /\ op = "RESET" => g = Answer("OK", Remembered(img, Gone(img.mem, at, m)))
    /\ op \in {"NOOP", "OR", "AND"} /\ match < 0 => g = Answer("SCOM_ENTRY_NOT_FOUND", img)
    /\ op = "REPLACE" => g = Answer("OK", Put(img, at + match, iis))
    /\ op = "NOOP" /\ match >= 0 => g = Answer("OK", Put(img, at + match, NNNN))
    /\ op = "OR" /\ match >= 0 => g = OverWith(img, at + match, img.mem[at + match].data \cup iis.data)
    /\ op = "AND" /\ match >= 0 => g = OverWith(img, at + match, img.mem[at + match].data \cap iis.data)

LEMMA InsertIs ==
  ASSUME NEW img, Framed(img), NEW at, NEW op, NEW iis, NEW g, g = Insert(img, at, op, iis), EntryMatch(img, at, iis.addr) \in Int
  PROVE  InsertionIs(img, at, op, EntryMatch(img, at, iis.addr), EntryNOP(img, at), EntriesCount(img, at), iis, g)
<1> DEFINE match == EntryMatch(img, at, iis.addr)
           nop == EntryNOP(img, at)
           m == EntriesCount(img, at)
           g1 == Answer("OK", Put(img, at + (IF nop >= 0 THEN nop ELSE m), iis))
           g2 == Answer("OK", [img EXCEPT !.mem = [a \in DOMAIN @ |-> IF a \in at .. at + m - 1 THEN RNNN ELSE @[a]]])
           g3 == Answer("SCOM_ENTRY_NOT_FOUND", img)
           g4 == Answer("OK", Put(img, at + match, iis))
           g5 == Answer("OK", Put(img, at + match, NNNN))
           over(d) == Answer("OK", Put(img, at + match, [img.mem[at + match] EXCEPT !.data = d]))
           g6 == over(img.mem[at + match].data \cup iis.data)
           g7 == over(img.mem[at + match].data \cap iis.data)
<1>1. g = CASE op = "APPEND" -> g1
            [] op = "RESET" -> g2
            [] op \in {"NOOP", "OR", "AND"} /\ match < 0 -> g3
            [] op = "REPLACE" -> g4
            [] op = "NOOP" /\ match >= 0 -> g5
            [] op = "OR" /\ match >= 0 -> g6
            [] op = "AND" /\ match >= 0 -> g7
  BY Zenon DEF Insert
<1>2. g2 = Answer("OK", Remembered(img, Gone(img.mem, at, m)))
  BY DEF Framed, Fields, Gone, Remembered
<1>3. /\ g6 = OverWith(img, at + match, img.mem[at + match].data \cup iis.data)
      /\ g7 = OverWith(img, at + match, img.mem[at + match].data \cap iis.data)
  BY Zenon DEF OverWith
<1>4. match \in Int
  OBVIOUS
<1> HIDE DEF g1, g2, g3, g4, g5, g6, g7, match
<1>5. /\ op = "APPEND" => g = g1
      /\ op = "RESET" => g = g2
      /\ op \in {"NOOP", "OR", "AND"} /\ match < 0 => g = g3
      /\ op = "REPLACE" => g = g4
      /\ op = "NOOP" /\ match >= 0 => g = g5
      /\ op = "OR" /\ match >= 0 => g = g6
      /\ op = "AND" /\ match >= 0 => g = g7
  BY <1>1, <1>4
<1>6. InsertionIs(img, at, op, match, nop, m, iis, g)
  BY <1>2, <1>3, <1>5, Zenon DEF InsertionIs, g1, g3, g4, g5
<1> QED BY <1>6 DEF match

(* What is asked for after a call of an operation.                         *)
AsksAfter(ss, core, part, addr, data, operation, new) ==
    /\ operation = "RESET" => new = Forgotten(ss, core, part)
    /\ operation # "RESET" => \E x : /\ AsksFor(operation, data, Old(ss, <<core, part, addr>>), x)
                                     /\ new = With(ss, <<core, part, addr>>, x)

LEMMA OperationIs ==
  ASSUME NEW operation \in Operations, NEW match \in Int, NEW op, op = Translated(operation, match)
  PROVE  /\ op = "APPEND" => operation = "APPEND" \/ (match < 0 /\ operation \in {"REPLACE", "OR_APPEND", "AND_APPEND"})
         /\ op = "RESET" <=> operation = "RESET"
         /\ op = "REPLACE" => operation = "REPLACE" /\ match >= 0
         /\ op = "NOOP" => operation = "NOOP"
         /\ op = "OR" => operation \in {"OR", "OR_APPEND"}
         /\ op = "AND" => operation \in {"AND", "AND_APPEND"}
         /\ op \in {"APPEND", "REPLACE", "OR", "AND", "NOOP", "RESET"}
<1>1. /\ operation = "REPLACE" => op = IF match >= 0 THEN "REPLACE" ELSE "APPEND"
      /\ operation = "OR_APPEND" => op = IF match >= 0 THEN "OR" ELSE "APPEND"
      /\ operation = "AND_APPEND" => op = IF match >= 0 THEN "AND" ELSE "APPEND"
      /\ operation \notin {"REPLACE", "OR_APPEND", "AND_APPEND"} => op = operation
  BY DEF Translated
<1>2. match >= 0 \/ match < 0
  OBVIOUS
<1> QED BY <1>1, <1>2 DEF Operations

(* An entry that is written over keeps what it is for.                     *)
LEMMA OverIs ==
  ASSUME NEW img, NEW at, NEW core, NEW addr, EntryOf(img.mem[at], core), IsAt(img.mem[at], addr), NEW d
  PROVE  OverWith(img, at, d) = Answer("OK", Put(img, at, LsSti(core, addr, d)))
<1> DEFINE c == img.mem[at]
<1>1. c = LsSti(core, addr, c.data)
  <2> HIDE DEF c
  <2>1. EntryOf(c, core) /\ IsAt(c, addr)
    BY DEF c
  <2> QED BY <2>1, ScomEntry
<1>2. [c EXCEPT !.data = d] = LsSti(core, addr, d)
  <2> DEFINE x == c.data
  <2>1. c = LsSti(core, addr, x)
    BY <1>1
  <2> HIDE DEF x, c
  <2> QED BY <2>1 DEF LsSti
<1> QED BY <1>2, Zenon DEF OverWith

(* sbe_xip's insertion of an instruction: the table holds what is asked.   *)
LEMMA InsertKeeps ==
  ASSUME NEW img, NEW kind, TablesFound(img, kind), NEW core \in CoreIds, NEW part \in Parts, NEW ss, NEW m,
         ScomHolds(TableOf(img, core, part), ss, core, part, m), NEW addr \in Nat, NEW data, NEW operation \in Operations,
         NEW op, op = Translated(operation, EntryMatch(img, ScomPlace(img, core, part), addr)),
         ~ Overrun(op, EntriesCount(img, ScomPlace(img, core, part)), EntryNOP(img, ScomPlace(img, core, part)), part),
         NEW new, AsksAfter(ss, core, part, addr, data, operation, new),
         NEW g, g = Insert(img, ScomPlace(img, core, part), op, LsSti(core, addr, data))
  PROVE  ScomNotDone(img, g) \/ ScomDone(img, g, kind, new, core, part)
<1> DEFINE at == ScomPlace(img, core, part)
           t == TableOf(img, core, part)
           n == ScomOps[part]
           match == EntryMatch(img, at, addr)
           nop == EntryNOP(img, at)
           iis == LsSti(core, addr, data)
           h == Hits(t, m, addr)
<1>1. SlwPlaced(img) /\ Framed(img)
  BY DEF TablesFound, SlwPlaced
<1>2. n \in Nat /\ at \in Nat /\ m \in 0 .. n /\ \A k \in 0 .. n : t[k] = img.mem[at + k]
  BY <1>1, ScomCells DEF ScomHolds
<1>3. /\ EntriesCount(img, at) = m
      /\ (h = {} /\ match = -1) \/ match \in h
      /\ nop = -1 \/ (nop \in 0 .. m - 1 /\ t[nop] = NNNN)
  <2>1. Searched(img, at, t, m, addr)
    BY <1>1, TableSearched
  <2> QED BY <2>1, Zenon DEF Searched
<1>4. h \subseteq 0 .. m - 1 /\ h \subseteq 0 .. n /\ match \in Int /\ nop \in Int /\ (match < 0 => h = {}) /\ (match >= 0 => match \in h)
  <2>1. h \subseteq 0 .. m - 1
    BY DEF Hits
  <2> HIDE DEF h, match, nop, n, t, at
  <2>2. h \subseteq 0 .. n /\ h \subseteq Int /\ \A k \in h : k >= 0
    BY <1>2, <2>1
  <2>3. nop \in Int
    BY <1>2, <1>3
  <2>4. match \in Int /\ (match < 0 => h = {}) /\ (match >= 0 => match \in h)
    <3>1. CASE match \in h
      <4>1. match \in Int /\ match >= 0
        BY <2>2, <3>1
      <4> QED BY <3>1, <4>1
    <3>2. CASE match \notin h
      <4>1. h = {} /\ match = -1
        BY <1>3, <3>2
      <4> QED BY <4>1
    <3> QED BY <3>1, <3>2
  <2> QED BY <2>1, <2>2, <2>3, <2>4
<1>5. \A k \in h : EntryOf(img.mem[at + k], core) /\ IsAt(img.mem[at + k], addr) /\ t[k] = img.mem[at + k]
  <2>1. \A k \in h : k \in 0 .. m - 1 /\ k \in 0 .. n /\ IsAt(t[k], addr)
    BY <1>4 DEF Hits
  <2> QED BY <1>2, <2>1 DEF ScomHolds
<1>6. InsertionIs(img, at, op, match, nop, m, iis, g)
  <2>1. iis.addr = addr
    BY DEF LsSti
  <2> HIDE DEF iis
  <2>2. g = Insert(img, at, op, iis)
    BY DEF iis
  <2>3. EntryMatch(img, at, iis.addr) = match /\ EntryMatch(img, at, iis.addr) \in Int
    BY <1>4, <2>1
  <2> HIDE DEF at, match, nop
  <2>4. InsertionIs(img, at, op, EntryMatch(img, at, iis.addr), EntryNOP(img, at), EntriesCount(img, at), iis, g)
    BY <1>1, <2>2, <2>3, InsertIs
  <2> QED BY <1>3, <2>3, <2>4 DEF nop
<1>7. /\ op = "APPEND" => operation = "APPEND" \/ (match < 0 /\ operation \in {"REPLACE", "OR_APPEND", "AND_APPEND"})
      /\ op = "RESET" <=> operation = "RESET"
      /\ op = "REPLACE" => operation = "REPLACE" /\ match >= 0
      /\ op = "NOOP" => operation = "NOOP"
      /\ op = "OR" => operation \in {"OR", "OR_APPEND"}
      /\ op = "AND" => operation \in {"AND", "AND_APPEND"}
      /\ op \in {"APPEND", "REPLACE", "OR", "AND", "NOOP", "RESET"}
  BY <1>4, OperationIs
<1>8. iis.data = data
  BY DEF LsSti
<1>9. ASSUME NEW k \in 0 .. n, NEW cell, NEW m2, g = Answer("OK", Put(img, at + k, cell)),
             ScomHolds(TableOf(Put(img, at + k, cell), core, part), new, core, part, m2)
      PROVE  ScomDone(img, g, kind, new, core, part)
  <2> DEFINE r == Put(img, at + k, cell)
  <2>1. r = Put(img, ScomPlace(img, core, part) + k, cell)
    OBVIOUS
  <2>2. g = Answer("OK", r) /\ ScomHolds(TableOf(r, core, part), new, core, part, m2)
    BY <1>9
  <2> HIDE DEF r
  <2>3. ScomOnly(img, r, core, part)
    BY <1>1, <2>1, ScomEntryWritten
  <2>4. OthersStay(img, r, kind, core, part)
    BY <2>3, OtherScomsStay
  <2> QED BY <2>2, <2>4, AnswerFields DEF ScomDone
<1>10. ASSUME NEW k \in 0 .. n, NEW cell PROVE OneChanged(t, k, cell, TableOf(Put(img, at + k, cell), core, part), part)
  <2> DEFINE r == Put(img, at + k, cell)
  <2>1. r = Put(img, ScomPlace(img, core, part) + k, cell)
    OBVIOUS
  <2> HIDE DEF r
  <2>2. OneChanged(TableOf(img, core, part), k, cell, TableOf(r, core, part), part)
    BY <1>1, <2>1, ScomEntryWritten
  <2> QED BY <2>2 DEF r
<1>11. ASSUME operation # "RESET"
       PROVE  \E x : AsksFor(operation, data, Old(ss, <<core, part, addr>>), x) /\ new = With(ss, <<core, part, addr>>, x)
  BY <1>11 DEF AsksAfter
<1>12. CASE op = "APPEND"
  <2> DEFINE k == IF nop >= 0 THEN nop ELSE m
             m2 == IF nop >= 0 THEN m ELSE m + 1
             r == Put(img, at + k, iis)
  <2>1. ~ (nop < 0 /\ m = n)
    BY <1>3, <1>12 DEF Overrun
  <2>2. (k \in 0 .. m - 1 /\ t[k] = NNNN /\ m2 = m) \/ (k = m /\ m < n /\ m2 = m + 1)
    <3> HIDE DEF nop, t, n
    <3> QED BY <1>2, <1>3, <2>1
  <2>3. k \in 0 .. n
    <3> HIDE DEF k, m2, n
    <3> QED BY <1>2, <2>2
  <2>4. g = Answer("OK", r)
    BY <1>6, <1>12, Zenon DEF InsertionIs
  <2> HIDE DEF k, m2
  <2>5. OneChanged(t, k, iis, TableOf(r, core, part), part)
    BY <1>10, <2>3
  <2>6. operation = "APPEND" \/ (h = {} /\ operation \in {"REPLACE", "OR_APPEND", "AND_APPEND"})
    BY <1>4, <1>7, <1>12
  <2>7. PICK x : AsksFor(operation, data, Old(ss, <<core, part, addr>>), x) /\ new = With(ss, <<core, part, addr>>, x)
    <3>1. operation # "RESET"
      BY <2>6
    <3> QED BY <1>11, <3>1
  <2>8. ScomHolds(TableOf(r, core, part), new, core, part, m2)
    <3> DEFINE u == TableOf(r, core, part)
    <3>1. OneChanged(t, k, LsSti(core, addr, data), u, part)
      BY <2>5
    <3>2. operation = "APPEND" \/ (Hits(t, m, addr) = {} /\ operation \in {"REPLACE", "OR_APPEND", "AND_APPEND"})
      BY <2>6
    <3>3. (k \in 0 .. m - 1 /\ t[k] = NNNN /\ m2 = m) \/ (k = m /\ m < ScomOps[part] /\ m2 = m + 1)
      BY <2>2
    <3>4. ScomHolds(t, ss, core, part, m)
      OBVIOUS
    <3> HIDE DEF u, t
    <3>5. ScomHolds(u, new, core, part, m2)
      BY <2>7, <3>1, <3>2, <3>3, <3>4, EntryAdded
    <3> QED BY <3>5 DEF u
  <2> QED BY <1>9, <2>3, <2>4, <2>8
<1>13. CASE op = "RESET"
  <2> DEFINE r == Remembered(img, Gone(img.mem, at, m))
  <2>1. g = Answer("OK", r) /\ new = Forgotten(ss, core, part)
    BY <1>6, <1>7, <1>13, Zenon DEF InsertionIs, AsksAfter
  <2>2. r = Remembered(img, Gone(img.mem, ScomPlace(img, core, part), m))
    OBVIOUS
  <2> HIDE DEF r
  <2>3. /\ ScomOnly(img, r, core, part)
        /\ \A j \in 0 .. ScomOps[part] :
              TableOf(r, core, part)[j] = IF j \in 0 .. m - 1 THEN RNNN ELSE TableOf(img, core, part)[j]
    BY <1>1, <1>2, <2>2, ScomEntriesGone
  <2>4. ScomHolds(TableOf(r, core, part), Forgotten(ss, core, part), core, part, 0)
    <3> DEFINE u == TableOf(r, core, part)
    <3>1. \A j \in 0 .. ScomOps[part] : u[j] = IF j \in 0 .. m - 1 THEN RNNN ELSE t[j]
      BY <2>3
    <3>2. ScomHolds(t, ss, core, part, m)
      OBVIOUS
    <3> HIDE DEF u, t
    <3>3. ScomHolds(u, Forgotten(ss, core, part), core, part, 0)
      BY <3>1, <3>2, TableReset
    <3> QED BY <3>3 DEF u
  <2>5. OthersStay(img, r, kind, core, part)
    BY <2>3, OtherScomsStay
  <2> QED BY <2>1, <2>4, <2>5, AnswerFields DEF ScomDone
<1>14. CASE op \in {"NOOP", "OR", "AND"} /\ match < 0
  <2>1. g = Answer("SCOM_ENTRY_NOT_FOUND", img)
    BY <1>6, <1>14, Zenon DEF InsertionIs
  <2> QED BY <2>1, AnswerFields DEF ScomNotDone
<1>15. CASE op \in {"REPLACE", "NOOP", "OR", "AND"} /\ match >= 0
  <2>1. match \in h /\ match \in 0 .. n
    BY <1>4, <1>15
  <2>2. PICK cell : g = Answer("OK", Put(img, at + match, cell)) /\ ChangedTo(operation, t, match, core, addr, data, cell)
    <3>1. CASE op = "REPLACE"
      <4>1. g = Answer("OK", Put(img, at + match, iis)) /\ operation = "REPLACE"
        BY <1>6, <1>7, <3>1, Zenon DEF InsertionIs
      <4>2. ChangedTo(operation, t, match, core, addr, data, iis)
        BY <4>1 DEF ChangedTo
      <4> QED BY <4>1, <4>2
    <3>2. CASE op = "NOOP"
      <4>1. g = Answer("OK", Put(img, at + match, NNNN)) /\ operation = "NOOP"
        BY <1>6, <1>7, <1>15, <3>2, Zenon DEF InsertionIs
      <4>2. ChangedTo(operation, t, match, core, addr, data, NNNN)
        BY <4>1 DEF ChangedTo
      <4> QED BY <4>1, <4>2
    <3>3. CASE op = "OR"
      <4> DEFINE d == t[match].data \cup data
      <4>1. g = OverWith(img, at + match, img.mem[at + match].data \cup iis.data) /\ operation \in {"OR", "OR_APPEND"}
        BY <1>6, <1>7, <1>15, <3>3, Zenon DEF InsertionIs
      <4>2. g = OverWith(img, at + match, d)
        BY <1>5, <1>8, <2>1, <4>1
      <4>3. ChangedTo(operation, t, match, core, addr, data, LsSti(core, addr, d))
        BY <4>1 DEF ChangedTo
      <4> HIDE DEF d
      <4>4. OverWith(img, at + match, d) = Answer("OK", Put(img, at + match, LsSti(core, addr, d)))
        BY <1>5, <2>1, OverIs
      <4> QED BY <4>2, <4>3, <4>4
    <3>4. CASE op = "AND"
      <4> DEFINE d == t[match].data \cap data
      <4>1. g = OverWith(img, at + match, img.mem[at + match].data \cap iis.data) /\ operation \in {"AND", "AND_APPEND"}
        BY <1>6, <1>7, <1>15, <3>4, Zenon DEF InsertionIs
      <4>2. g = OverWith(img, at + match, d)
        BY <1>5, <1>8, <2>1, <4>1
      <4>3. ChangedTo(operation, t, match, core, addr, data, LsSti(core, addr, d))
        BY <4>1 DEF ChangedTo
      <4> HIDE DEF d
      <4>4. OverWith(img, at + match, d) = Answer("OK", Put(img, at + match, LsSti(core, addr, d)))
        BY <1>5, <2>1, OverIs
      <4> QED BY <4>2, <4>3, <4>4
    <3> QED BY <1>15, <3>1, <3>2, <3>3, <3>4
  <2> DEFINE r == Put(img, at + match, cell)
             u == TableOf(r, core, part)
  <2>3. OneChanged(t, match, cell, u, part)
    BY <1>10, <2>1
  <2>4. PICK x : AsksFor(operation, data, Old(ss, <<core, part, addr>>), x) /\ new = With(ss, <<core, part, addr>>, x)
    <3>1. operation # "RESET"
      BY <1>7, <1>15
    <3> QED BY <1>11, <3>1
  <2>5. ScomHolds(u, new, core, part, m)
    <3>1. ScomHolds(t, ss, core, part, m) /\ match \in Hits(t, m, addr)
      BY <2>1
    <3> HIDE DEF u, t, match
    <3> QED BY <2>2, <2>3, <2>4, <3>1, EntryChanged
  <2> QED BY <1>9, <2>1, <2>2, <2>5
<1>16. op = "REPLACE" => match >= 0
  BY <1>7
<1>17. match < 0 \/ match >= 0
  <2> HIDE DEF match
  <2> QED BY <1>4
<1> QED BY <1>7, <1>12, <1>13, <1>14, <1>15, <1>16, <1>17

-----------------------------------------------------------------------------
(* Both modes find the SCOM table of a core and part where it is.          *)
LEMMA ScomFound ==
  ASSUME NEW img, NEW kind, TablesFound(img, kind), NEW core \in CoreIds, NEW part \in Parts, NEW mode
  PROVE  ScomAt(img, mode, core, part) = ScomPlace(img, core, part)
<1> DEFINE at == ScomPlace(img, core, part)
<1>1. SlwPlaced(img) /\ img.section[SLW].offset = SlwStart(img) /\ ScomsLead(img)
  BY DEF TablesFound, SlwStart
<1>2. at \in Nat /\ LinkAddress \in Nat
  BY <1>1, ScomCells, XipAssumption
<1>3. VectorWord(img, ScomVectors[part], core) = LinkAddress + at
  <2> DEFINE w == LinkAddress + at
  <2>1. SlotCell(img, ScomVectors[part] + core) = Word(w)
    BY <1>1 DEF ScomsLead, SlotCell, Cell
  <2> HIDE DEF w
  <2>2. VectorWord(img, ScomVectors[part], core) = w
    BY <2>1 DEF VectorWord, Pointer, Word
  <2> QED BY <2>2 DEF w
<1>4. ScomAt(img, mode, core, part) =
        IF mode = "SRAM" THEN VectorWord(img, ScomVectors[part], core) - LinkAddress ELSE at
  BY <1>1, Zenon DEF ScomAt, ScomPlace
<1> HIDE DEF at
<1>5. (LinkAddress + at) - LinkAddress = at
  BY <1>2
<1> QED BY <1>3, <1>4, <1>5 DEF at

(* p8_pore_gen_scom_fixed leaves what the operation asks for in the table  *)
(* of the core and part, or the image as it was.                           *)
LEMMA ScomCall ==
  ASSUME NEW img, NEW kind \in {"fixed", "sram"}, TablesFound(img, kind), NEW ss,
         \A c \in CoreIds, p \in Parts : \E m : ScomHolds(TableOf(img, c, p), ss, c, p, m),
         NEW addr \in Nat, NEW core \in Nat, NEW part, NEW data, NEW operation \in Operations,
         NEW mode \in {"IPL", "SRAM"}, kind = "sram" => mode = "SRAM",
         NEW new, AsksAfter(ss, core, part, addr, data, operation, new),
         NEW g, g = GenScom(img, mode, addr, core, data, operation, part)
  PROVE  \/ ScomNotDone(img, g)
         \/ core \in CoreIds /\ part \in Parts /\ ScomDone(img, g, kind, new, core, part)
<1> DEFINE at == ScomAt(img, mode, core, part)
           match == EntryMatch(img, at, addr)
           op == Translated(operation, match)
           over == Overrun(op, EntriesCount(img, at), EntryNOP(img, at), part)
           g1 == Answer("CHECK_CODE", img)
           g2 == Insert(img, at, op, LsSti(core, addr, data))
<1>1. SlwCheck(img, mode) = "OK"
  <2>1. img.section[SLW].size = SlwSize /\ img.section[SLW].offset = SlwStart(img)
    BY DEF TablesFound, SlwPlaced, SlwStart
  <2>2. mode # "SRAM" => SlwStart(img) = FixedSlw
    BY DEF TablesFound
  <2> QED BY <2>1, <2>2 DEF SlwCheck
<1>2. g = IF core >= Cores THEN Answer("INVALID_PARM", img)
          ELSE IF part \notin Parts THEN Answer("INVALID_SUBSECTION", img)
          ELSE IF over THEN g1 ELSE g2
  BY <1>1, Zenon DEF GenScom
<1> HIDE DEF g1, g2, over
<1>3. CASE core >= Cores
  <2>1. g = Answer("INVALID_PARM", img)
    BY <1>2, <1>3, Zenon
  <2> QED BY <2>1, AnswerFields DEF ScomNotDone
<1>4. CASE ~ (core >= Cores) /\ part \notin Parts
  <2>1. g = Answer("INVALID_SUBSECTION", img)
    BY <1>2, <1>4, Zenon
  <2> QED BY <2>1, AnswerFields DEF ScomNotDone
<1>5. CASE ~ (core >= Cores) /\ part \in Parts
  <2>1. core \in CoreIds /\ part \in Parts
    BY <1>5, SpaceTypes DEF CoreIds
  <2>2. at = ScomPlace(img, core, part)
    BY <2>1, ScomFound
  <2>3. CASE over
    <3>1. g = Answer("CHECK_CODE", img)
      BY <1>2, <1>5, <2>3, Zenon DEF g1
    <3> QED BY <3>1, AnswerFields DEF ScomNotDone
  <2>4. CASE ~ over
    <3>1. g = g2
      BY <1>2, <1>5, <2>4, Zenon
    <3>2. PICK m : ScomHolds(TableOf(img, core, part), ss, core, part, m)
      BY <2>1
    <3> DEFINE op2 == Translated(operation, EntryMatch(img, ScomPlace(img, core, part), addr))
    <3>3. g = Insert(img, ScomPlace(img, core, part), op2, LsSti(core, addr, data))
      BY <2>2, <3>1 DEF g2
    <3>4. ~ Overrun(op2, EntriesCount(img, ScomPlace(img, core, part)), EntryNOP(img, ScomPlace(img, core, part)), part)
      BY <2>2, <2>4 DEF over
    <3>5. op2 = Translated(operation, EntryMatch(img, ScomPlace(img, core, part), addr))
      OBVIOUS
    <3> HIDE DEF op2
    <3>6. ScomNotDone(img, g) \/ ScomDone(img, g, kind, new, core, part)
      BY <2>1, <3>2, <3>3, <3>4, <3>5, InsertKeeps
    <3> QED BY <2>1, <3>6
  <2> QED BY <2>3, <2>4
<1> QED BY <1>3, <1>4, <1>5

(* The tables of an image hold what has been asked for.                    *)
RamsHold(img, rs) ==
    DOMAIN rs \subseteq RamKeys /\ \A c \in CoreIds : \E n : RamHolds(img, rs, c, n)
ScomKeys == CoreIds \X Parts \X Nat
ScomsHold(img, ss) ==
    /\ DOMAIN ss \subseteq ScomKeys
    /\ \A c \in CoreIds, p \in Parts : \E m : ScomHolds(TableOf(img, c, p), ss, c, p, m)
TablesHold(img, kind, rs, ss) == TablesFound(img, kind) /\ RamsHold(img, rs) /\ ScomsHold(img, ss)
AnswerHolds(g, kind, rs, ss) == TablesHold(g.image, kind, rs, ss) /\ g.rc # "HDRS_NOT_SYNCED"

(* A table that is as it was holds what it did.                            *)
LEMMA ScomsStay ==
  ASSUME NEW t, NEW ss, NEW core, NEW part, NEW m, ScomHolds(t, ss, core, part, m), NEW new,
         \A addr \in Nat : Old(new, <<core, part, addr>>) = Old(ss, <<core, part, addr>>)
  PROVE  ScomHolds(t, new, core, part, m)
BY DEF ScomHolds

(* A call on a RAM table, for all tables.                                  *)
LEMMA RamCallKeeps ==
  ASSUME NEW img, NEW kind \in {"fixed", "sram"}, NEW rs, NEW ss, TablesHold(img, kind, rs, ss),
         NEW reg \in STRING, NEW core \in Nat, NEW thread \in Nat, NEW data,
         NEW mode \in {"IPL", "SRAM"}, kind = "sram" => mode = "SRAM",
         NEW g, g = GenCpuReg(img, mode, reg, data, core, thread),
         NEW new, new = IF g.rc = "OK" THEN With(rs, <<core, reg, IF reg \in ThreadRegs THEN thread ELSE 0>>, data) ELSE rs
  PROVE  AnswerHolds(g, kind, new, ss)
<1> DEFINE t == IF reg \in ThreadRegs THEN thread ELSE 0
           key == <<core, reg, t>>
           r == g.image
<1>1. /\ TablesFound(img, kind) /\ DOMAIN rs \subseteq RamKeys /\ DOMAIN ss \subseteq ScomKeys
      /\ \A c \in CoreIds : \E n : RamHolds(img, rs, c, n)
      /\ \A c \in CoreIds, p \in Parts : \E m : ScomHolds(TableOf(img, c, p), ss, c, p, m)
  BY DEF TablesHold, RamsHold, ScomsHold
<1>2. RamNotDone(img, g) \/ (core \in CoreIds /\ RamDone(img, g, kind, rs, core, key, data))
  BY <1>1, RamCall
<1>3. CASE RamNotDone(img, g)
  <2>1. g.image = img /\ g.rc # "OK" /\ g.rc # "HDRS_NOT_SYNCED"
    BY <1>3 DEF RamNotDone
  <2>2. new = rs
    BY <2>1
  <2> QED BY <2>1, <2>2 DEF AnswerHolds
<1>4. CASE core \in CoreIds /\ RamDone(img, g, kind, rs, core, key, data)
  <2>1. g.rc = "OK" /\ RestStays(img, r, kind, core) /\ \E n : RamHolds(r, With(rs, key, data), core, n)
    BY <1>4 DEF RamDone
  <2>2. new = With(rs, key, data)
    BY <2>1
  <2>3. t \in Nat
    OBVIOUS
  <2> HIDE DEF t
  <2>4. key \in RamKeys /\ key[1] = core
    BY <1>4, <2>3 DEF RamKeys
  <2> HIDE DEF key, r
  <2>5. DOMAIN new = DOMAIN rs \cup {key} /\ \A a \in DOMAIN rs : a # key => new[a] = rs[a]
    BY <2>2 DEF With
  <2>6. DOMAIN new \subseteq RamKeys
    BY <1>1, <2>4, <2>5
  <2>7. ASSUME NEW c \in CoreIds \ {core} PROVE \E n : RamHolds(r, new, c, n)
    <3>1. PICK n : RamHolds(img, rs, c, n)
      BY <1>1
    <3>2. AskedOf(new, c) = AskedOf(rs, c)
      BY <2>4, <2>5 DEF AskedOf
    <3>3. \A a \in AskedOf(rs, c) : new[a] = rs[a]
      BY <2>4, <2>5 DEF AskedOf
    <3>4. RamAt(r, c) = RamAt(img, c) /\ \A k \in 0 .. RamOps - 1 : r.mem[RamAt(img, c) + k] = img.mem[RamAt(img, c) + k]
      BY <2>1 DEF RestStays
    <3>5. RamHolds(r, new, c, n)
      BY <3>1, <3>2, <3>3, <3>4, RamsStay
    <3> QED BY <3>5
  <2>8. RamsHold(r, new)
    BY <2>1, <2>2, <2>6, <2>7 DEF RamsHold
  <2>9. ASSUME NEW c \in CoreIds, NEW p \in Parts PROVE TableOf(r, c, p) = TableOf(img, c, p)
    BY <2>1 DEF RestStays, TableOf
  <2>10. ScomsHold(r, ss)
    BY <1>1, <2>9 DEF ScomsHold
  <2>11. TablesFound(r, kind)
    BY <2>1 DEF RestStays
  <2> QED BY <2>1, <2>8, <2>10, <2>11 DEF AnswerHolds, TablesHold, r
<1> QED BY <1>2, <1>3, <1>4

(* A call on a SCOM table, for all tables.                                 *)
LEMMA ScomCallKeeps ==
  ASSUME NEW img, NEW kind \in {"fixed", "sram"}, NEW rs, NEW ss, TablesHold(img, kind, rs, ss),
         NEW addr \in Nat, NEW core \in Nat, NEW part, NEW data, NEW operation \in Operations,
         NEW mode \in {"IPL", "SRAM"}, kind = "sram" => mode = "SRAM",
         NEW g, g = GenScom(img, mode, addr, core, data, operation, part),
         NEW asked, AsksAfter(ss, core, part, addr, data, operation, asked),
         NEW new, new = IF g.rc = "OK" THEN asked ELSE ss
  PROVE  AnswerHolds(g, kind, rs, new)
<1> DEFINE r == g.image
           key == <<core, part, addr>>
<1>1. /\ TablesFound(img, kind) /\ DOMAIN rs \subseteq RamKeys /\ DOMAIN ss \subseteq ScomKeys
      /\ \A c \in CoreIds : \E n : RamHolds(img, rs, c, n)
      /\ \A c \in CoreIds, p \in Parts : \E m : ScomHolds(TableOf(img, c, p), ss, c, p, m)
  BY DEF TablesHold, RamsHold, ScomsHold
<1>2. ScomNotDone(img, g) \/ (core \in CoreIds /\ part \in Parts /\ ScomDone(img, g, kind, asked, core, part))
  BY <1>1, ScomCall
<1>3. CASE ScomNotDone(img, g)
  <2>1. g.image = img /\ g.rc # "OK" /\ g.rc # "HDRS_NOT_SYNCED"
    BY <1>3 DEF ScomNotDone
  <2>2. new = ss
    BY <2>1
  <2> QED BY <2>1, <2>2 DEF AnswerHolds
<1>4. CASE core \in CoreIds /\ part \in Parts /\ ScomDone(img, g, kind, asked, core, part)
  <2>1. g.rc = "OK" /\ OthersStay(img, r, kind, core, part) /\ \E m : ScomHolds(TableOf(r, core, part), asked, core, part, m)
    BY <1>4 DEF ScomDone
  <2>2. new = asked
    BY <2>1
  <2> HIDE DEF r
  <2>3. /\ DOMAIN asked \subseteq ScomKeys
        /\ \A c \in CoreIds, p \in Parts, a \in Nat :
              c # core \/ p # part => Old(asked, <<c, p, a>>) = Old(ss, <<c, p, a>>)
    <3>1. CASE operation = "RESET"
      <4>1. asked = Forgotten(ss, core, part)
        BY <3>1 DEF AsksAfter
      <4>2. DOMAIN asked \subseteq DOMAIN ss
        BY <4>1 DEF Forgotten
      <4>3. ASSUME NEW c \in CoreIds, NEW p \in Parts, NEW a \in Nat, c # core \/ p # part
            PROVE  Old(asked, <<c, p, a>>) = Old(ss, <<c, p, a>>)
        <5> DEFINE k == <<c, p, a>>
        <5>1. k[1] # core \/ k[2] # part
          BY <4>3
        <5> HIDE DEF k
        <5>2. Old(asked, k) = Old(ss, k)
          BY <4>1, <5>1 DEF Old, Forgotten
        <5> QED BY <5>2 DEF k
      <4> QED BY <1>1, <4>2, <4>3
    <3>2. CASE operation # "RESET"
      <4>1. PICK x : asked = With(ss, <<core, part, addr>>, x)
        BY <3>2 DEF AsksAfter
      <4>2. DOMAIN asked = DOMAIN ss \cup {key}
        BY <4>1 DEF With
      <4>3. key \in ScomKeys
        BY <1>4 DEF ScomKeys
      <4>4. ASSUME NEW c \in CoreIds, NEW p \in Parts, NEW a \in Nat, c # core \/ p # part
            PROVE  Old(asked, <<c, p, a>>) = Old(ss, <<c, p, a>>)
        <5>1. <<c, p, a>> # <<core, part, addr>>
          BY <4>4
        <5> QED BY <4>1, <5>1, OldOf
      <4> QED BY <1>1, <4>2, <4>3, <4>4
    <3> QED BY <3>1, <3>2
  <2>4. ASSUME NEW c \in CoreIds, NEW p \in Parts, c # core \/ p # part PROVE \E m : ScomHolds(TableOf(r, c, p), asked, c, p, m)
    <3>1. PICK m : ScomHolds(TableOf(img, c, p), ss, c, p, m)
      BY <1>1
    <3>2. TableOf(r, c, p) = TableOf(img, c, p)
      BY <2>1, <2>4 DEF OthersStay
    <3>3. \A a \in Nat : Old(asked, <<c, p, a>>) = Old(ss, <<c, p, a>>)
      BY <2>3, <2>4
    <3>4. ScomHolds(TableOf(r, c, p), asked, c, p, m)
      BY <3>1, <3>2, <3>3, ScomsStay
    <3> QED BY <3>4
  <2>5. ScomsHold(r, new)
    BY <2>1, <2>2, <2>3, <2>4 DEF ScomsHold
  <2>6. ASSUME NEW c \in CoreIds PROVE \E n : RamHolds(r, rs, c, n)
    <3>1. PICK n : RamHolds(img, rs, c, n)
      BY <1>1
    <3>2. RamAt(r, c) = RamAt(img, c) /\ \A k \in 0 .. RamOps - 1 : r.mem[RamAt(img, c) + k] = img.mem[RamAt(img, c) + k]
      BY <2>1 DEF OthersStay
    <3>3. RamHolds(r, rs, c, n)
      BY <3>1, <3>2, RamsStay
    <3> QED BY <3>3
  <2>7. RamsHold(r, rs)
    BY <1>1, <2>6 DEF RamsHold
  <2>8. TablesFound(r, kind)
    BY <2>1 DEF OthersStay
  <2> QED BY <2>1, <2>5, <2>7, <2>8 DEF AnswerHolds, TablesHold, r
<1> QED BY <1>2, <1>3, <1>4

(* Blank tables hold that nothing has been asked for.                      *)
LEMMA BlankHolds ==
  ASSUME NEW img, NEW kind, TablesFound(img, kind), TablesBlank(img)
  PROVE  TablesHold(img, kind, << >>, << >>)
<1>1. SlwPlaced(img) /\ RamOps \in Nat \ {0}
  BY SlwAssumption DEF TablesFound
<1>2. ASSUME NEW c \in CoreIds PROVE RamHolds(img, << >>, c, 0)
  <2>1. AskedOf(<< >>, c) = {}
    BY DEF AskedOf
  <2>2. \A k \in 0 .. RamOps - 1 : img.mem[RamAt(img, c) + k] = Zero
    BY DEF TablesBlank
  <2>3. ~ Ends(Zero)
    BY FreshEntry
  <2>4. \A k \in 0 .. RamOps - 1 : Ends(img.mem[RamAt(img, c) + k]) <=> k = 0 - 1
    BY <1>1, <2>2, <2>3
  <2>5. RamsListed(img, << >>, c, 0, [k \in 0 .. 0 - 1 |-> k])
    BY <2>1 DEF RamsListed
  <2> QED BY <1>1, <2>2, <2>4, <2>5 DEF RamHolds
<1>3. ASSUME NEW c \in CoreIds, NEW p \in Parts PROVE ScomHolds(TableOf(img, c, p), << >>, c, p, 0)
  <2> DEFINE t == TableOf(img, c, p)
             n == ScomOps[p]
  <2>1. n \in Nat /\ \A k \in 0 .. n : t[k] = RNNN
    BY SpaceTypes DEF TablesBlank, TableOf
  <2> HIDE DEF t, n
  <2>2. \A addr : Hits(t, 0, addr) = {}
    BY DEF Hits
  <2>3. \A key : Old(<< >>, key) = Nothing
    BY DEF Old
  <2>4. Nothing.value = {}
    BY DEF Nothing
  <2>5. \A addr \in Nat : Told(t, Hits(t, 0, addr), Old(<< >>, <<c, p, addr>>))
    BY <2>2, <2>3, <2>4, Zenon DEF Told
  <2>6. ScomHolds(t, << >>, c, p, 0)
    BY <2>1, <2>5 DEF ScomHolds, n
  <2> QED BY <2>6 DEF t
<1> QED BY <1>2, <1>3 DEF TablesHold, RamsHold, ScomsHold

(* The pointer for the programs of the image is none of the tables'.       *)
LEMMA RuntimeKeeps ==
  ASSUME NEW img, NEW kind, NEW rs, NEW ss, TablesHold(img, kind, rs, ss), NEW cell,
         NEW r, r = Put(img, RuntimeScom[1] - LinkAddress, cell)
  PROVE  TablesHold(r, kind, rs, ss)
<1> DEFINE a == Cell(RuntimeScom[1])
           start == SlwStart(img)
<1>1. SlwPlaced(img) /\ Framed(img) /\ ScomsLead(img) /\ RamsLead(img, kind)
  BY DEF TablesHold, TablesFound, SlwPlaced
<1>2. start \in Nat /\ start <= BufferSize /\ BufferSize \in Nat /\ a \in 0 .. start - 1
  BY <1>1, TablePlaces, SlwSizeBounds DEF SlwPlaced, Pointers
<1>3. CellSet(img, a, cell, r)
  <2>1. r = Put(img, a, cell)
    BY DEF Cell
  <2>2. a \in 0 .. BufferSize - 1
    BY <1>2
  <2> HIDE DEF a
  <2> QED BY <1>1, <2>1, <2>2, CellPut
<1> HIDE DEF a
<1>4. /\ Framed(r) /\ r.size = img.size /\ r.section = img.section /\ SlwStart(r) = start
      /\ \A b \in 0 .. BufferSize - 1 : b # a => r.mem[b] = img.mem[b]
  BY <1>3 DEF CellSet, SlwStart
<1>5. /\ \A c \in CoreIds : RamAt(r, c) = RamAt(img, c)
      /\ \A c \in CoreIds, p \in Parts : ScomPlace(r, c, p) = ScomPlace(img, c, p)
  BY <1>4 DEF RamAt, ScomPlace
<1>6. /\ \A c \in CoreIds, k \in 0 .. RamOps - 1 : r.mem[RamAt(img, c) + k] = img.mem[RamAt(img, c) + k]
      /\ \A c \in CoreIds, p \in Parts : \A k \in 0 .. ScomOps[p] : r.mem[ScomPlace(img, c, p) + k] = img.mem[ScomPlace(img, c, p) + k]
  <2>1. ASSUME NEW c \in CoreIds, NEW k \in 0 .. RamOps - 1 PROVE r.mem[RamAt(img, c) + k] = img.mem[RamAt(img, c) + k]
    <3> DEFINE b == RamAt(img, c) + k
    <3>1. b \in 0 .. BufferSize - 1 /\ start <= b
      <4>1. RamAt(img, c) \in Nat /\ start <= RamAt(img, c) /\ b \in 0 .. BufferSize - 1 /\ k \in Nat
        BY <1>1, TablePlaces, SlwAssumption
      <4> QED BY <1>2, <4>1
    <3> HIDE DEF b, start
    <3>2. b # a
      BY <1>2, <3>1
    <3>3. r.mem[b] = img.mem[b]
      BY <1>4, <3>1, <3>2
    <3> QED BY <3>3 DEF b
  <2>2. ASSUME NEW c \in CoreIds, NEW p \in Parts, NEW k \in 0 .. ScomOps[p] PROVE r.mem[ScomPlace(img, c, p) + k] = img.mem[ScomPlace(img, c, p) + k]
    <3> DEFINE b == ScomPlace(img, c, p) + k
               n == ScomOps[p]
    <3>1. b \in 0 .. BufferSize - 1 /\ start <= b
      <4>1. ScomPlace(img, c, p) \in Nat /\ start + PartStart(1) <= ScomPlace(img, c, p) /\ b \in 0 .. BufferSize - 1 /\ PartStart(1) \in Nat
        BY <1>1, TablePlaces
      <4>2. n \in Nat /\ k \in 0 .. n
        BY SpaceTypes
      <4> HIDE DEF n
      <4> QED BY <1>2, <4>1, <4>2
    <3> HIDE DEF b, start
    <3>2. b # a
      BY <1>2, <3>1
    <3>3. r.mem[b] = img.mem[b]
      BY <1>4, <3>1, <3>2
    <3> QED BY <3>3 DEF b
  <2> QED BY <2>1, <2>2
<1>7. ASSUME NEW p \in TablePointers PROVE r.mem[Cell(p)] = img.mem[Cell(p)]
  <2>1. p \in Pointers /\ RuntimeScom[1] \in Nat /\ p # RuntimeScom[1] /\ LinkAddress \in Nat
    BY BuildAssumption, XipAssumption DEF Pointers
  <2>2. p \in Nat /\ Cell(p) \in 0 .. start - 1
    BY <1>1, <2>1, PointerTypes DEF SlwPlaced
  <2>3. Cell(p) # a
    BY <2>1, <2>2 DEF Cell, a
  <2>4. Cell(p) \in 0 .. BufferSize - 1
    BY <1>2, <2>2
  <2> QED BY <1>4, <2>3, <2>4
<1>8. SlwPlaced(r)
  BY <1>1, <1>4 DEF SlwPlaced, SlwStart
<1>9. ScomsLead(r)
  BY <1>1, <1>5, <1>7, PointerTypes DEF ScomsLead
<1>10. RamsLead(r, kind)
  <2> SUFFICES ASSUME NEW c \in CoreIds
               PROVE  r.mem[Cell(RamVector + c)] =
                        Word(IF kind = "sram" /\ r.mem[RamAt(r, c)] = Zero THEN 0 ELSE LinkAddress + RamAt(r, c))
    BY Zenon DEF RamsLead
  <2>1. r.mem[Cell(RamVector + c)] = img.mem[Cell(RamVector + c)] /\ RamAt(r, c) = RamAt(img, c)
    BY <1>5, <1>7, PointerTypes
  <2>2. r.mem[RamAt(img, c)] = img.mem[RamAt(img, c)]
    <3>1. 0 \in 0 .. RamOps - 1 /\ RamAt(img, c) + 0 = RamAt(img, c)
      BY <1>1, TablePlaces, SlwAssumption
    <3>2. r.mem[RamAt(img, c) + 0] = img.mem[RamAt(img, c) + 0]
      BY <1>6, <3>1
    <3> QED BY <3>1, <3>2
  <2> QED BY <1>1, <2>1, <2>2, Zenon DEF RamsLead
<1>11. TablesFound(r, kind)
  BY <1>4, <1>8, <1>9, <1>10 DEF TablesHold, TablesFound
<1>12. RamsHold(r, rs)
  <2>1. ASSUME NEW c \in CoreIds PROVE \E n : RamHolds(r, rs, c, n)
    <3>1. PICK n : RamHolds(img, rs, c, n)
      BY DEF TablesHold, RamsHold
    <3>2. RamAt(r, c) = RamAt(img, c) /\ \A k \in 0 .. RamOps - 1 : r.mem[RamAt(img, c) + k] = img.mem[RamAt(img, c) + k]
      BY <1>5, <1>6
    <3>3. RamHolds(r, rs, c, n)
      BY <3>1, <3>2, RamsStay
    <3> QED BY <3>3
  <2> QED BY <2>1 DEF TablesHold, RamsHold
<1>13. ScomsHold(r, ss)
  <2>1. \A c \in CoreIds, p \in Parts : TableOf(r, c, p) = TableOf(img, c, p)
    BY <1>5, <1>6 DEF TableOf
  <2> QED BY <2>1 DEF TablesHold, ScomsHold
<1> QED BY <1>11, <1>12, <1>13 DEF TablesHold

-----------------------------------------------------------------------------
(***************************************************************************)
(* The invariant of the built image, beside the one of the file: an SLW    *)
(* image is ready for its tables, and from then on they hold what the      *)
(* calls have asked for.                                                   *)
(***************************************************************************)
BuildFields(b) == b = [kind |-> b.kind, dd |-> b.dd, vpd |-> b.vpd, ready |-> b.ready]
BuildInvariant ==
    /\ chip \in {"p8", "centaur"} /\ BuildFields(build)
    /\ build.ready \in BOOLEAN
    /\ build.ready = TRUE => build.kind \in {"fixed", "sram"}
    /\ build.kind = "slw" => SlwReady(image)
    /\ build.kind \in {"fixed", "sram"} => TablesHold(image, build.kind, rams, scoms)
    /\ build.kind \notin {"fixed", "sram"} => rams = << >> /\ scoms = << >>
    /\ build.kind = "fixed" /\ call.op \in {"ram", "scom"} => call.rc # "HDRS_NOT_SYNCED"

(* Nothing is built at first.                                              *)
LEMMA BuildStarts == BuildInit => BuildInvariant
<1> SUFFICES ASSUME BuildInit PROVE BuildInvariant
  OBVIOUS
<1>1. build = [kind |-> "none", dd |-> 0, vpd |-> 0, ready |-> FALSE] /\ rams = << >> /\ scoms = << >>
  BY DEF BuildInit, NoBuild
<1>2. BuildFields(build) /\ build.kind = "none" /\ build.ready = FALSE
  BY <1>1 DEF BuildFields
<1>3. chip \in {"p8", "centaur"}
  BY DEF BuildInit, ScanInit
<1> QED BY <1>1, <1>2, <1>3 DEF BuildInvariant

(* The fields of a build that changes.                                     *)
BuildIs(b, kind, ready) == BuildFields(b) /\ b.kind = kind /\ b.ready = ready

LEMMA BuildChanges ==
  ASSUME NEW b, BuildFields(b)
  PROVE  /\ \A v : BuildIs([b EXCEPT !.vpd = v], b.kind, b.ready)
         /\ \A k : BuildIs([b EXCEPT !.kind = k], k, b.ready)
         /\ BuildIs([b EXCEPT !.ready = TRUE], b.kind, TRUE)
<1>1. b = [kind |-> b.kind, dd |-> b.dd, vpd |-> b.vpd, ready |-> b.ready]
  BY DEF BuildFields
<1>2. ASSUME NEW x PROVE BuildIs([b EXCEPT !.vpd = x], b.kind, b.ready)
  <2>1. [b EXCEPT !.vpd = x] = [kind |-> b.kind, dd |-> b.dd, vpd |-> x, ready |-> b.ready]
    BY <1>1
  <2> QED BY <2>1 DEF BuildIs, BuildFields
<1>3. ASSUME NEW x PROVE BuildIs([b EXCEPT !.kind = x], x, b.ready)
  <2>1. [b EXCEPT !.kind = x] = [kind |-> x, dd |-> b.dd, vpd |-> b.vpd, ready |-> b.ready]
    BY <1>1
  <2> QED BY <2>1 DEF BuildIs, BuildFields
<1>4. ASSUME NEW x PROVE BuildIs([b EXCEPT !.ready = x], b.kind, x)
  <2>1. [b EXCEPT !.ready = x] = [kind |-> b.kind, dd |-> b.dd, vpd |-> b.vpd, ready |-> x]
    BY <1>1
  <2> QED BY <2>1 DEF BuildIs, BuildFields
<1> QED BY <1>2, <1>3, <1>4, Zenon

(* The image that is read fits the builds, by the invariant of its file.   *)
LEMMA FileFits ==
  ASSUME FileInvariant, chip = "p8", Whole
  PROVE  Readable(file.image) /\ \E base \in Images : LeftAlone(base, file.image)
BY DEF FileInvariant, FileOK, Readable

(* A build keeps the invariant.                                            *)
LEMMA BuildKeeps == ASSUME FileInvariant, BuildInvariant, Build PROVE BuildInvariant'
<1>1. PICK dd \in DdLevels, kind \in {"ipl", "centaur", "slw"} :
         /\ build = NoBuild /\ (kind = "centaur" <=> chip = "centaur")
         /\ FileCheck(file) = "OK" /\ Built(kind, dd).rc = "OK"
         /\ image' = Built(kind, dd).image
         /\ build' = [kind |-> kind, dd |-> dd, vpd |-> 0, ready |-> FALSE]
         /\ UNCHANGED <<tableVars, scanVars>>
  BY Zenon DEF Build
<1>2. chip' = chip /\ rams' = << >> /\ scoms' = << >>
  <2>1. build.kind = "none"
    BY <1>1 DEF NoBuild
  <2> QED BY <1>1, <2>1 DEF BuildInvariant, tableVars, scanVars
<1>3. BuildFields(build)' /\ build'.kind = kind /\ build'.ready = FALSE
  BY <1>1 DEF BuildFields
<1>4. kind = "slw" => SlwReady(image')
  <2> SUFFICES ASSUME kind = "slw" PROVE SlwReady(image')
    OBVIOUS
  <2>1. chip = "p8" /\ Whole
    BY <1>1 DEF BuildInvariant, Whole
  <2>2. Readable(file.image) /\ \E base \in Images : KeptFrom(base, file.image)
    BY <2>1, FileFits DEF LeftAlone
  <2>3. Built("slw", dd) = SlwBuild(file.image, dd)
    BY DEF Built
  <2>4. SlwBuild(file.image, dd).rc = "OK" /\ image' = SlwBuild(file.image, dd).image
    BY <1>1, <2>3
  <2> QED BY <2>2, <2>4, SlwBuildReady
<1> QED BY <1>2, <1>3, <1>4 DEF BuildInvariant

(* Adding a VPD ring keeps the invariant.                                  *)
LEMMA VpdKeeps == ASSUME BuildInvariant, AddVpdIpl \/ AddVpdSlw PROVE BuildInvariant'
<1> DEFINE b == [build EXCEPT !.vpd = @ + 1]
<1>1. BuildFields(b) /\ b.kind = build.kind /\ b.ready = build.ready
  BY BuildChanges DEF BuildInvariant, BuildIs
<1>2. build' = b /\ build.kind \in {"ipl", "slw"}
  BY DEF AddVpdIpl, AddVpdSlw
<1>3. UNCHANGED <<rams, scoms, chip>>
  BY DEF AddVpdIpl, AddVpdSlw, VpdCode, tableVars, scanVars
<1>4. build.kind = "slw" => SlwReady(image')
  <2> SUFFICES ASSUME build.kind = "slw" PROVE SlwReady(image')
    OBVIOUS
  <2>1. PICK ring \in VpdRings : image' = WriteVpdRingSlw(image, FixedSize, ring, ring.name, VpdType(ring.name) = "R").image
    BY DEF AddVpdIpl, AddVpdSlw, VpdCode
  <2>2. SlwReady(image)
    BY DEF BuildInvariant
  <2> QED BY <2>1, <2>2, VpdKeepsReady
<1> HIDE DEF b
<1>5. BuildFields(build)' /\ build'.kind = build.kind /\ build'.ready = build.ready
  BY <1>1, <1>2
<1> QED BY <1>2, <1>3, <1>4, <1>5 DEF BuildInvariant

(* Making the tables' sections keeps the invariant.                        *)
LEMMA TablesKeep == ASSUME BuildInvariant, Fix \/ InitSlw PROVE BuildInvariant'
<1>1. /\ build.kind = "slw" /\ UNCHANGED <<rams, scoms, chip>>
      /\ call'.op \in {"fixed", "sram"}
  BY DEF Fix, InitSlw, VpdCode, Call, tableVars, scanVars
<1>2. SlwReady(image) /\ rams = << >> /\ scoms = << >> /\ BuildFields(build) /\ build.ready = FALSE
  BY <1>1 DEF BuildInvariant
<1>3. PICK kind \in {"fixed", "sram", "failed"} :
         /\ build' = [build EXCEPT !.kind = kind]
         /\ kind \in {"fixed", "sram"} => TablesFound(image', kind) /\ TablesBlank(image')
  <2>1. CASE Fix
    <3> DEFINE r == CreateFixed(image)
    <3>1. image' = r.image /\ build' = [build EXCEPT !.kind = IF r.rc = "OK" THEN "fixed" ELSE "failed"]
      BY <2>1 DEF Fix, VpdCode
    <3>2. r.rc = "OK" => TablesFound(r.image, "fixed") /\ TablesBlank(r.image)
      BY <1>2, FixedTables
    <3> HIDE DEF r
    <3> QED BY <3>1, <3>2
  <2>2. CASE InitSlw
    <3> DEFINE r == InitializeSlw(image, FixedSize)
    <3>1. image' = r.image /\ build' = [build EXCEPT !.kind = IF r.rc = "OK" THEN "sram" ELSE "failed"]
      BY <2>2 DEF InitSlw, VpdCode
    <3>2. r.rc = "OK" => TablesFound(r.image, "sram") /\ TablesBlank(r.image)
      BY <1>2, SramTables
    <3> HIDE DEF r
    <3> QED BY <3>1, <3>2
  <2> QED BY <2>1, <2>2
<1>4. BuildFields(build)' /\ build'.kind = kind /\ build'.ready = FALSE
  <2> DEFINE b == [build EXCEPT !.kind = kind]
  <2>1. BuildFields(b) /\ b.kind = kind /\ b.ready = build.ready
    BY <1>2, BuildChanges DEF BuildIs
  <2> HIDE DEF b
  <2> QED BY <1>2, <1>3, <2>1 DEF b
<1>5. kind \in {"fixed", "sram"} => TablesHold(image', kind, << >>, << >>)
  BY <1>3, BlankHolds
<1> QED BY <1>1, <1>2, <1>4, <1>5 DEF BuildInvariant

(* update_runtime_scom_pointer keeps the invariant.                        *)
LEMMA RuntimeKeep == ASSUME BuildInvariant, UpdateRuntimeScom PROVE BuildInvariant'
<1>1. /\ build.kind \in {"fixed", "sram"} /\ UNCHANGED <<rams, scoms, chip>>
      /\ call'.op = "runtime" /\ build' = [build EXCEPT !.ready = TRUE]
  BY DEF UpdateRuntimeScom, VpdCode, Call, tableVars, scanVars
<1>2. TablesHold(image, build.kind, rams, scoms) /\ BuildFields(build)
  BY <1>1 DEF BuildInvariant
<1>3. image' = Put(image, RuntimeScom[1] - LinkAddress, Word(RuntimeScom[2]))
  BY AnswerFields DEF UpdateRuntimeScom, VpdCode
<1>4. TablesHold(image', build.kind, rams, scoms)
  BY <1>2, <1>3, RuntimeKeeps
<1>5. BuildFields(build)' /\ build'.kind = build.kind /\ build'.ready = TRUE
  <2> DEFINE b == [build EXCEPT !.ready = TRUE]
  <2>1. BuildFields(b) /\ b.kind = build.kind /\ b.ready = TRUE
    BY <1>2, BuildChanges DEF BuildIs
  <2> HIDE DEF b
  <2> QED BY <1>1, <2>1 DEF b
<1> QED BY <1>1, <1>4, <1>5 DEF BuildInvariant

(* The tables of an image that is being filled.                            *)
LEMMA FillingHolds ==
  ASSUME BuildInvariant, Filling
  PROVE  /\ build.kind \in {"fixed", "sram"} /\ TablesHold(image, build.kind, rams, scoms)
         /\ \A mode \in Mode : mode \in {"IPL", "SRAM"} /\ (build.kind = "sram" => mode = "SRAM")
<1>1. build.ready
  BY DEF Filling
<1>2. build.kind \in {"fixed", "sram"}
  BY <1>1 DEF BuildInvariant
<1> QED BY <1>2 DEF BuildInvariant, Mode

(* p8_pore_gen_cpureg_fixed keeps the invariant.                           *)
LEMMA FillRamKeeps == ASSUME BuildInvariant, FillRam PROVE BuildInvariant'
<1>1. PICK q \in RamRequests, mode \in Mode :
         /\ Filling /\ image' = GenCpuReg(image, mode, q.reg, q.data, q.core, q.thread).image
         /\ call' = Call("ram", SLW, GenCpuReg(image, mode, q.reg, q.data, q.core, q.thread).rc)
         /\ rams' = IF GenCpuReg(image, mode, q.reg, q.data, q.core, q.thread).rc = "OK"
                    THEN With(rams, <<q.core, q.reg, IF q.reg \in ThreadRegs THEN q.thread ELSE 0>>, q.data) ELSE rams
         /\ UNCHANGED <<build, scoms, chip>>
  BY Zenon DEF FillRam, scanVars
<1> DEFINE g == GenCpuReg(image, mode, q.reg, q.data, q.core, q.thread)
<1>2. q.reg \in STRING /\ q.core \in Nat /\ q.thread \in Nat
  BY BuildAssumption
<1>3. /\ build.kind \in {"fixed", "sram"} /\ TablesHold(image, build.kind, rams, scoms)
      /\ mode \in {"IPL", "SRAM"} /\ (build.kind = "sram" => mode = "SRAM")
  BY <1>1, FillingHolds
<1>4. g = GenCpuReg(image, mode, q.reg, q.data, q.core, q.thread)
  OBVIOUS
<1>5. /\ image' = g.image /\ call'.rc = g.rc
      /\ rams' = IF g.rc = "OK" THEN With(rams, <<q.core, q.reg, IF q.reg \in ThreadRegs THEN q.thread ELSE 0>>, q.data) ELSE rams
  BY <1>1 DEF Call
<1> HIDE DEF g
<1>6. AnswerHolds(g, build.kind, rams', scoms)
  BY <1>2, <1>3, <1>4, <1>5, RamCallKeeps
<1> QED BY <1>1, <1>3, <1>5, <1>6 DEF BuildInvariant, AnswerHolds

(* p8_pore_gen_scom_fixed keeps the invariant.                             *)
LEMMA FillScomKeeps == ASSUME BuildInvariant, FillScom PROVE BuildInvariant'
<1>1. PICK q \in ScomRequests, mode \in Mode :
         /\ Filling /\ image' = GenScom(image, mode, q.addr, q.core, q.data, q.operation, q.part).image
         /\ call' = Call("scom", SLW, GenScom(image, mode, q.addr, q.core, q.data, q.operation, q.part).rc)
         /\ scoms' = IF GenScom(image, mode, q.addr, q.core, q.data, q.operation, q.part).rc # "OK" THEN scoms
                     ELSE IF q.operation = "RESET"
                     THEN [j \in {i \in DOMAIN scoms : i[1] # q.core \/ i[2] # q.part} |-> scoms[j]]
                     ELSE With(scoms, <<q.core, q.part, q.addr>>, Asked(q,
                               IF <<q.core, q.part, q.addr>> \in DOMAIN scoms THEN scoms[<<q.core, q.part, q.addr>>] ELSE Nothing))
         /\ UNCHANGED <<build, rams, chip>>
  BY Zenon DEF FillScom, scanVars
<1> DEFINE g == GenScom(image, mode, q.addr, q.core, q.data, q.operation, q.part)
           key == <<q.core, q.part, q.addr>>
           asked == IF q.operation = "RESET" THEN Forgotten(scoms, q.core, q.part)
                    ELSE With(scoms, key, Asked(q, Old(scoms, key)))
<1>2. q.operation \in Operations /\ q.core \in Nat /\ q.addr \in Nat
  BY BuildAssumption
<1>3. /\ build.kind \in {"fixed", "sram"} /\ TablesHold(image, build.kind, rams, scoms)
      /\ mode \in {"IPL", "SRAM"} /\ (build.kind = "sram" => mode = "SRAM")
  BY <1>1, FillingHolds
<1>4. g = GenScom(image, mode, q.addr, q.core, q.data, q.operation, q.part)
  OBVIOUS
<1>5. /\ image' = g.image /\ call'.rc = g.rc
      /\ scoms' = IF g.rc = "OK" THEN asked ELSE scoms
  <2>1. scoms' = IF g.rc # "OK" THEN scoms ELSE asked
    BY <1>1, Zenon DEF Forgotten, Old
  <2> QED BY <1>1, <2>1 DEF Call
<1>6. AsksAfter(scoms, q.core, q.part, q.addr, q.data, q.operation, asked)
  <2>1. AsksFor(q.operation, q.data, Old(scoms, key), Asked(q, Old(scoms, key)))
    BY AskedIs
  <2> QED BY <2>1, Zenon DEF AsksAfter
<1> HIDE DEF g, asked
<1>7. AnswerHolds(g, build.kind, rams, scoms')
  BY <1>2, <1>3, <1>4, <1>5, <1>6, ScomCallKeeps
<1> QED BY <1>1, <1>3, <1>5, <1>7 DEF BuildInvariant, AnswerHolds

(* The invariant, with the one of the file, is inductive.                  *)
THEOREM BuildInductive == BuildSpec => []BuildInvariant
<1>1. BuildInit => BuildInvariant
  BY BuildStarts
<1>2. FileInvariant /\ BuildInvariant /\ [BuildNext]_<<scanVars, buildVars>> => BuildInvariant'
  <2> SUFFICES ASSUME FileInvariant, BuildInvariant, [BuildNext]_<<scanVars, buildVars>> PROVE BuildInvariant'
    OBVIOUS
  <2>1. CASE UNCHANGED <<chip, buildVars>>
    BY <2>1 DEF buildVars, tableVars, BuildInvariant
  <2>2. CASE UNCHANGED <<scanVars, buildVars>>
    BY <2>1, <2>2 DEF scanVars
  <2>3. CASE build = NoBuild /\ ScanNext /\ UNCHANGED buildVars
    <3>1. chip' = chip
      BY <2>3 DEF ScanNext, Open, WriteAndUnlock, CentaurOpen, CentaurTruncate, CentaurWrite, Stopped, scanVars
    <3> QED BY <2>1, <2>3, <3>1
  <2>4. CASE BuildNext /\ ~ (build = NoBuild /\ ScanNext /\ UNCHANGED buildVars)
    BY <2>4, BuildKeeps, VpdKeeps, TablesKeep, RuntimeKeep, FillRamKeeps, FillScomKeeps DEF BuildNext
  <2> QED BY <2>2, <2>3, <2>4
<1> QED BY <1>1, <1>2, BuildImplementsScan, FileInductive, PTL DEF BuildSpec

-----------------------------------------------------------------------------
(* As many entries as registers and threads that have been asked for.      *)
LEMMA AskedCount ==
  ASSUME NEW img, NEW rs, NEW core, NEW n, RamHolds(img, rs, core, n)
  PROVE  Cardinality(AskedOf(rs, core)) = n
<1> DEFINE S == AskedOf(rs, core)
<1>1. n \in Nat
  BY SlwAssumption DEF RamHolds
<1>2. PICK key : RamsListed(img, rs, core, n, key)
  BY DEF RamHolds
<1>3. /\ key \in [0 .. n - 1 -> S] /\ \A j, k \in 0 .. n - 1 : key[j] = key[k] => j = k
      /\ \A a \in S : \E k \in 0 .. n - 1 : key[k] = a
  BY <1>2 DEF RamsListed
<1> DEFINE f == [i \in 1 .. n |-> key[i - 1]]
<1> HIDE DEF S
<1>4. \A i \in 1 .. n : i - 1 \in 0 .. n - 1
  BY <1>1
<1>5. f \in [1 .. n -> S]
  BY <1>3, <1>4
<1>6. \A i, j \in 1 .. n : f[i] = f[j] => i = j
  <2>1. ASSUME NEW i \in 1 .. n, NEW j \in 1 .. n, f[i] = f[j] PROVE i = j
    <3>1. key[i - 1] = key[j - 1]
      BY <2>1
    <3>2. i - 1 = j - 1
      BY <1>3, <1>4, <3>1
    <3> QED BY <1>1, <3>2
  <2> QED BY <2>1
<1>7. \A a \in S : \E i \in 1 .. n : f[i] = a
  <2>1. ASSUME NEW a \in S PROVE \E i \in 1 .. n : f[i] = a
    <3>1. PICK k \in 0 .. n - 1 : key[k] = a
      BY <1>3
    <3>2. k + 1 \in 1 .. n /\ (k + 1) - 1 = k
      BY <1>1
    <3>3. f[k + 1] = a
      BY <3>1, <3>2
    <3> QED BY <3>2, <3>3
  <2> QED BY <2>1
<1> HIDE DEF f
<1>8. f \in Bijection(1 .. n, S)
  BY <1>5, <1>6, <1>7 DEF Bijection, Injection, Surjection, IsInjective
<1>9. ExistsBijection(1 .. n, S)
  BY <1>8 DEF ExistsBijection
<1>10. Cardinality(S) = n
  BY <1>1, <1>9, FS_CountingElements
<1> QED BY <1>10 DEF S

(* What the invariant says of a core's RAM table.                          *)
RamsOf(img, rs, core) ==
    LET at    == img.section[SLW].offset + RamTable(core)
        asked == {k \in DOMAIN rs : k[1] = core}
        n     == Cardinality(asked)
    IN  /\ n <= RamOps
        /\ \A k \in 0 .. RamOps - 1 : Ends(img.mem[at + k]) <=> k = n - 1
        /\ {<<core, img.mem[at + k].reg, img.mem[at + k].thread, img.mem[at + k].data>> : k \in 0 .. n - 1}
              = {<<core, k[2], k[3], rs[k]>> : k \in asked}

LEMMA RamsHoldAsked ==
  ASSUME NEW img, NEW rs, NEW core, NEW n, RamHolds(img, rs, core, n)
  PROVE  RamsOf(img, rs, core)
<1> DEFINE at == RamAt(img, core)
           asked == AskedOf(rs, core)
<1>1. Cardinality(asked) = n /\ n \in 0 .. RamOps /\ RamOps \in Nat
  BY AskedCount, SlwAssumption DEF RamHolds
<1>2. PICK key : RamsListed(img, rs, core, n, key)
  BY DEF RamHolds
<1>3. /\ key \in [0 .. n - 1 -> asked]
      /\ \A a \in asked : \E k \in 0 .. n - 1 : key[k] = a
      /\ \A k \in 0 .. n - 1 : EntryFor(img.mem[at + k], key[k][2], key[k][3], rs[key[k]])
  BY <1>2 DEF RamsListed
<1>4. \A k \in 0 .. n - 1 : /\ img.mem[at + k].reg = key[k][2] /\ img.mem[at + k].thread = key[k][3]
                            /\ img.mem[at + k].data = rs[key[k]]
  <2>1. ASSUME NEW k \in 0 .. n - 1
        PROVE  /\ img.mem[at + k].reg = key[k][2] /\ img.mem[at + k].thread = key[k][3]
               /\ img.mem[at + k].data = rs[key[k]]
    <3> DEFINE c == img.mem[at + k]
    <3>1. EntryFor(c, key[k][2], key[k][3], rs[key[k]])
      BY <1>3
    <3> HIDE DEF c
    <3>2. c.reg = key[k][2] /\ c.thread = key[k][3] /\ c.data = rs[key[k]]
      BY <3>1 DEF EntryFor, RamEntry
    <3> QED BY <3>2 DEF c
  <2> QED BY <2>1
<1>5. \A k \in 0 .. RamOps - 1 : Ends(img.mem[at + k]) <=> k = n - 1
  BY DEF RamHolds
<1>6. at = img.section[SLW].offset + RamTable(core) /\ asked = {k \in DOMAIN rs : k[1] = core}
  BY DEF RamAt, SlwStart, AskedOf
<1> HIDE DEF at, asked
<1> DEFINE A == {<<core, img.mem[at + k].reg, img.mem[at + k].thread, img.mem[at + k].data>> : k \in 0 .. n - 1}
           B == {<<core, k[2], k[3], rs[k]>> : k \in asked}
<1>7. A \subseteq B
  <2>1. ASSUME NEW k \in 0 .. n - 1
        PROVE  <<core, img.mem[at + k].reg, img.mem[at + k].thread, img.mem[at + k].data>> \in B
    <3>1. key[k] \in asked
      BY <1>3
    <3>2. <<core, img.mem[at + k].reg, img.mem[at + k].thread, img.mem[at + k].data>> = <<core, key[k][2], key[k][3], rs[key[k]]>>
      BY <1>4
    <3> QED BY <3>1, <3>2
  <2> QED BY <2>1
<1>8. B \subseteq A
  <2>1. ASSUME NEW a \in asked PROVE <<core, a[2], a[3], rs[a]>> \in A
    <3>1. PICK k \in 0 .. n - 1 : key[k] = a
      BY <1>3
    <3>2. <<core, img.mem[at + k].reg, img.mem[at + k].thread, img.mem[at + k].data>> = <<core, a[2], a[3], rs[a]>>
      BY <1>4, <3>1
    <3> QED BY <3>2
  <2> QED BY <2>1
<1>9. A = B /\ n <= RamOps
  BY <1>1, <1>7, <1>8
<1> QED BY <1>1, <1>5, <1>6, <1>9, Zenon DEF RamsOf

(* What the invariant says of the SCOM table of a core and part.           *)
ScomRun(img, core, part) ==
    LET at == ScomAt(img, "SRAM", core, part)
    IN  [k \in 1 .. EntriesCount(img, at) |-> img.mem[at + k - 1]]
RunApplies(run, ss, core, part) ==
    /\ Len(run) < ScomSpace(part)
    /\ \A k \in DOMAIN run : run[k] # NNNN => run[k].chiplet = core + CidExLow
    /\ \A key \in DOMAIN ss : key[1] = core /\ key[2] = part /\ ~ ss[key].several =>
          {run[k].data : k \in {j \in DOMAIN run : run[j] # NNNN /\ run[j].addr = key[3]}} = ss[key].value

LEMMA ScomsHoldAsked ==
  ASSUME NEW img, NEW kind, TablesFound(img, kind), NEW ss, DOMAIN ss \subseteq ScomKeys,
         NEW core \in CoreIds, NEW part \in Parts, NEW m, ScomHolds(TableOf(img, core, part), ss, core, part, m)
  PROVE  RunApplies(ScomRun(img, core, part), ss, core, part)
<1> DEFINE t == TableOf(img, core, part)
           at == ScomPlace(img, core, part)
           n == ScomOps[part]
           run == ScomRun(img, core, part)
<1>1. SlwPlaced(img)
  BY DEF TablesFound
<1>2. EntriesCount(img, at) = m
  <2>1. Searched(img, at, t, m, 0)
    BY <1>1, TableSearched
  <2> QED BY <2>1 DEF Searched
<1>3. run = [k \in 1 .. m |-> img.mem[at + k - 1]]
  <2>1. ScomAt(img, "SRAM", core, part) = at
    BY ScomFound
  <2> HIDE DEF at
  <2> QED BY <1>2, <2>1 DEF ScomRun
<1>4. n \in Nat /\ m \in 0 .. n /\ at \in Nat /\ ScomSpace(part) = n + 1 /\ \A k \in 0 .. n : t[k] = img.mem[at + k]
  BY <1>1, ScomCells, SpaceTypes DEF ScomHolds
<1>5. /\ \A k \in 0 .. m - 1 : EntryOf(t[k], core)
      /\ \A addr \in Nat : Told(t, Hits(t, m, addr), Old(ss, <<core, part, addr>>))
  BY DEF ScomHolds
<1> HIDE DEF t, at, n, run
<1>6. ASSUME NEW k \in 1 .. m PROVE k - 1 \in 0 .. m - 1 /\ run[k] = t[k - 1]
  <2>1. k - 1 \in 0 .. m - 1 /\ k - 1 \in 0 .. n /\ at + k - 1 = at + (k - 1)
    BY <1>4
  <2> QED BY <1>3, <1>4, <2>1
<1>7. DOMAIN run = 1 .. m /\ Len(run) = m
  BY <1>3, <1>4
<1>8. Len(run) < ScomSpace(part)
  BY <1>4, <1>7
<1>9. \A k \in DOMAIN run : run[k] # NNNN => run[k].chiplet = core + CidExLow
  BY <1>5, <1>6, <1>7, ScomEntry
<1>10. ASSUME NEW key \in DOMAIN ss, key[1] = core, key[2] = part, ~ ss[key].several
       PROVE  {run[k].data : k \in {j \in DOMAIN run : run[j] # NNNN /\ run[j].addr = key[3]}} = ss[key].value
  <2> DEFINE addr == key[3]
             h == Hits(t, m, addr)
             D == {run[k].data : k \in {j \in DOMAIN run : run[j] # NNNN /\ run[j].addr = addr}}
  <2>1. addr \in Nat /\ key = <<core, part, addr>>
    BY <1>10 DEF ScomKeys
  <2> HIDE DEF addr
  <2>2. Told(t, h, ss[key])
    <3>1. Old(ss, <<core, part, addr>>) = ss[key]
      BY <2>1 DEF Old
    <3> QED BY <1>5, <2>1, <3>1
  <2>3. (h = {} /\ ss[key].value = {}) \/ \E k : h = {k} /\ ss[key].value = {t[k].data}
    <3> HIDE DEF h
    <3> QED BY <1>10, <2>2, Zenon DEF Told
  <2>4. \A j \in 1 .. m : run[j] # NNNN /\ run[j].addr = addr <=> j - 1 \in h
    BY <1>5, <1>6, ScomEntry DEF Hits
  <2>5. \A k \in h : k \in 0 .. m - 1
    BY DEF Hits
  <2> HIDE DEF h
  <2>6. \A k \in h : k + 1 \in 1 .. m /\ (k + 1) - 1 = k /\ run[k + 1] = t[k]
    <3>1. ASSUME NEW k \in h PROVE k + 1 \in 1 .. m /\ (k + 1) - 1 = k
      BY <1>4, <2>5
    <3> QED BY <1>6, <3>1
  <2>7. D = {t[k].data : k \in h}
    <3>1. ASSUME NEW j \in DOMAIN run, run[j] # NNNN, run[j].addr = addr PROVE run[j].data \in {t[k].data : k \in h}
      <4>1. j \in 1 .. m
        BY <1>7
      <4>2. j - 1 \in h /\ run[j] = t[j - 1]
        BY <1>6, <2>4, <3>1, <4>1
      <4> QED BY <4>2
    <3>2. ASSUME NEW k \in h PROVE t[k].data \in D
      <4>1. k + 1 \in DOMAIN run /\ run[k + 1] = t[k] /\ run[k + 1] # NNNN /\ run[k + 1].addr = addr
        BY <1>7, <2>4, <2>6
      <4> QED BY <4>1
    <3> QED BY <3>1, <3>2
  <2> HIDE DEF D
  <2>8. D = ss[key].value
    BY <2>3, <2>7
  <2> QED BY <2>8 DEF D, addr
<1> QED BY <1>8, <1>9, <1>10 DEF RunApplies, run

(* p8_pore_gen_cpureg_fixed and p8_pore_gen_scom_fixed keep the tables     *)
(* where the firmware looks for them, within their space, and such that    *)
(* running them writes what the calls have asked for.                      *)
THEOREM TablesAlwaysApply == BuildSpec => []TablesApply
<1>1. BuildInvariant => TablesApply
  <2> SUFFICES ASSUME BuildInvariant PROVE TablesApply
    OBVIOUS
  <2>1. ASSUME build.kind \in {"fixed", "sram"}
        PROVE  TablesFound(image, build.kind) /\ RamsHold(image, rams) /\ ScomsHold(image, scoms)
    BY <2>1 DEF BuildInvariant, TablesHold
  <2>2. FixedPlaces
    <3> SUFFICES ASSUME build.kind = "fixed"
                 PROVE  /\ image.size = FixedSize /\ image.section[SLW].offset = FixedSlw
                        /\ \A core \in CoreIds :
                              /\ VectorWord(image, RamVector, core) = LinkAddress + FixedSlw + RamTable(core)
                              /\ \A part \in Parts : ScomAt(image, "SRAM", core, part) = ScomAt(image, "IPL", core, part)
                        /\ call.op \in {"ram", "scom"} => call.rc # "HDRS_NOT_SYNCED"
      BY DEF FixedPlaces
    <3>1. TablesFound(image, "fixed")
      BY <2>1
    <3>2. image.size = FixedSize /\ image.section[SLW].offset = FixedSlw /\ SlwStart(image) = FixedSlw
      BY <3>1 DEF TablesFound, SlwStart
    <3>3. ASSUME NEW core \in CoreIds
          PROVE  VectorWord(image, RamVector, core) = LinkAddress + FixedSlw + RamTable(core)
      <4> DEFINE w == LinkAddress + RamAt(image, core)
      <4>1. image.mem[Cell(RamVector + core)] = Word(w)
        BY <3>1 DEF TablesFound, RamsLead
      <4>2. SlotCell(image, RamVector + core) = Word(w)
        BY <4>1 DEF SlotCell, Cell
      <4>3. LinkAddress \in Nat /\ RamTable(core) \in Nat /\ FixedSlw \in Nat
        <5>1. SlwStart(image) \in Nat
          BY <3>1 DEF TablesFound, SlwPlaced
        <5> QED BY <3>2, <5>1, TableBounds, XipAssumption
      <4>4. w = LinkAddress + FixedSlw + RamTable(core)
        BY <3>2, <4>3 DEF RamAt
      <4> HIDE DEF w
      <4>5. VectorWord(image, RamVector, core) = w
        BY <4>2 DEF VectorWord, Pointer, Word
      <4> QED BY <4>4, <4>5
    <3>4. \A core \in CoreIds, part \in Parts : ScomAt(image, "SRAM", core, part) = ScomAt(image, "IPL", core, part)
      BY <3>1, ScomFound
    <3>5. call.op \in {"ram", "scom"} => call.rc # "HDRS_NOT_SYNCED"
      BY DEF BuildInvariant
    <3> QED BY <3>2, <3>3, <3>4, <3>5
  <2>3. ScomsApply
    <3>1. ASSUME build.kind \in {"fixed", "sram"}, NEW core \in CoreIds, NEW part \in Parts
          PROVE  RunApplies(Run(core, part), scoms, core, part)
      <4>1. PICK m : ScomHolds(TableOf(image, core, part), scoms, core, part, m)
        BY <2>1, <3>1 DEF ScomsHold
      <4>2. RunApplies(ScomRun(image, core, part), scoms, core, part)
        BY <2>1, <3>1, <4>1, ScomsHoldAsked DEF ScomsHold
      <4> QED BY <4>2, Zenon DEF Run, ScomRun
    <3> QED BY <3>1, Zenon DEF ScomsApply, RunApplies
  <2>4. RamsApply
    <3>1. ASSUME build.kind \in {"fixed", "sram"}, NEW core \in CoreIds PROVE RamsOf(image, rams, core)
      BY <2>1, <3>1, RamsHoldAsked DEF RamsHold
    <3> QED BY <3>1, Zenon DEF RamsApply, RamsOf
  <2> QED BY <2>2, <2>3, <2>4 DEF TablesApply
<1> QED BY <1>1, BuildInductive, PTL
=============================================================================
