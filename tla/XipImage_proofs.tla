--------------------------- MODULE XipImage_proofs ---------------------------
(***************************************************************************)
(* The layout of an image under sbe_xip_append, sbe_xip_delete_section and *)
(* sbe_xip_duplicate_section, for every image, buffer, alignment and data. *)
(* The inductive invariant is LaidOut(image); what one call does is in     *)
(* AppendResult and DeleteResult, and every theorem follows from these.    *)
(***************************************************************************)
EXTENDS XipImage, SequenceTheorems, WellFoundedInduction, TLAPS

(* A non-empty set of natural numbers has a least element.                 *)
LEMMA LeastNatural ==
  ASSUME NEW T, T \subseteq Nat, T # {}
  PROVE  \E m \in T : \A x \in T : m <= x
<1> DEFINE R == {ss \in Nat \X Nat : ss[1] < ss[2]}
<1>1. IsWellFoundedOn(R, Nat)
  BY NatLessThanWellFounded DEF OpToRel
<1>2. \A x, m \in Nat : <<x, m>> \notin R => m <= x
  OBVIOUS
<1> HIDE DEF R
<1>3. \E m \in T : \A x \in T : <<x, m>> \notin R
  BY <1>1, WFMin, Zenon
<1> QED BY <1>2, <1>3

(* Align yields a number that is no smaller than its argument.             *)
LEMMA AlignBounds ==
  ASSUME NEW n \in Nat, NEW a \in Nat \ {0}
  PROVE  Align(n, a) \in Nat /\ n <= Align(n, a)
<1>1. n % a \in 0 .. a - 1
  OBVIOUS
<1> QED BY <1>1 DEF Align

(* Division with remainder, as the next lemmas use it.                     *)
LEMMA DivFacts ==
  ASSUME NEW n \in Nat, NEW a \in Nat \ {0}
  PROVE n \div a \in Nat /\ n = a * (n \div a) + (n % a) /\ n % a \in 0 .. a-1
  OBVIOUS

(* A multiple of a leaves no remainder.                                    *)
LEMMA MultipleModulo ==
  ASSUME NEW k \in Nat, NEW a \in Nat \ {0}
  PROVE  (a * k) % a = 0
<1> DEFINE q == (a*k) \div a
           r == (a*k) % a
<1>0. a * k \in Nat
  OBVIOUS
<1>1. q \in Nat /\ r \in 0 .. a - 1 /\ a * k = a * q + r
  BY <1>0, DivFacts
<1> HIDE DEF q, r
<1>2. CASE k > q
  <2>1. k - q >= 1 /\ k - q \in Nat
    BY <1>1, <1>2
  <2>2. a * (k - q) >= a
    BY <2>1
  <2>3. a * (k - q) = r
    BY <1>1
  <2> QED BY <2>2, <2>3, <1>1
<1>3. CASE k <= q
  <2>1. q - k \in Nat
    BY <1>1, <1>3
  <2>2. a * (q - k) \in Nat
    BY <2>1
  <2>3. a * (q - k) + r = 0
    BY <1>1
  <2>4. r = 0 
    BY <2>2, <2>3, <1>1
  <2> QED BY <2>4 DEF r
<1> QED BY <1>2, <1>3, <1>1

(* Align yields a multiple of the alignment.                               *)
LEMMA AlignMultiple ==
  ASSUME NEW n \in Nat, NEW a \in Nat \ {0}
  PROVE  Align(n, a) % a = 0
<1>1. CASE n % a = 0
  BY <1>1 DEF Align
<1>2. CASE n % a # 0
  <2> DEFINE p == n \div a
             r == n % a
  <2>1. p \in Nat /\ n = a * p + r /\ r \in 0 .. a - 1
    BY DivFacts
  <2>2. Align(n, a) = n + (a - r)
    BY <1>2 DEF Align
  <2> HIDE DEF p, r
  <2>3. Align(n, a) = a * (p + 1) /\ p + 1 \in Nat
    BY <2>1, <2>2
  <2> QED BY <2>3, MultipleModulo
<1> QED BY <1>1, <1>2

(* Align yields the least multiple at or after its argument: cutting an    *)
(* image back to an earlier end never makes it longer than an aligned      *)
(* image was.                                                              *)
LEMMA AlignLeast ==
  ASSUME NEW n \in Nat, NEW m \in Nat, NEW a \in Nat \ {0}, n <= m, m % a = 0
  PROVE  Align(n, a) <= m
<1> DEFINE p == n \div a
           r == n % a
           q == m \div a
<1>1. n = a * p + r /\ p \in Nat /\ r \in 0 .. a-1 /\ m = a * q /\ q \in Nat
  <2>1. n = a * p + r /\ p \in Nat /\ r \in 0 .. a - 1
    BY DivFacts
  <2>2. m = a * q + (m % a) /\ q \in Nat
    BY DivFacts
  <2> HIDE DEF p, r, q
  <2>3. a * q \in Nat
    BY <2>2
  <2> QED BY <2>1, <2>2, <2>3
<1> HIDE DEF p, r, q
<1>2. CASE r = 0
  BY <1>2 DEF r, Align
<1>3. CASE r # 0
  <2>1. Align(n, a) = a * (p + 1)
    BY <1>1, <1>3 DEF Align, r
  <2>2. CASE p + 1 <= q
    <3>1. q - (p + 1) \in Nat
      BY <1>1, <2>2
    <3>2. a * (q - (p + 1)) \in Nat
      BY <3>1
    <3>3. a * q = a * (p + 1) + a * (q - (p+1))
      BY <1>1
    <3>4. a * q \in Nat /\ a * (p + 1) \in Nat
      BY <1>1
    <3> QED BY <1>1, <2>1, <3>2, <3>3, <3>4
  <2>3. CASE p >= q
    <3>1. p - q \in Nat
      BY <1>1, <2>3
    <3>2. a * (p - q) \in Nat
      BY <3>1
    <3>3. a * p = a * q + a * (p - q)
      BY <1>1
    <3>4. a * p \in Nat /\ a * q \in Nat
      BY <1>1
    <3> QED BY <1>1, <1>3, <3>2, <3>3, <3>4
  <2> QED BY <1>1, <2>2, <2>3
<1> QED BY <1>2, <1>3

(* The fields of an entry of the section table are numbers, and a section  *)
(* is present when its size is not 0.                                      *)
LEMMA SectionType ==
  ASSUME NEW img \in Image, NEW s \in Sections
  PROVE  /\ img.section[s] \in SectionEntry
         /\ img.section[s].offset \in Nat /\ img.section[s].size \in Nat
         /\ img.section[s].alignment \in Nat \ {0}
         /\ End(img.section[s]) \in Nat
         /\ End(img.section[s]) = img.section[s].offset + img.section[s].size
         /\ s \in Present(img) <=> img.section[s].size # 0
<1>1. img.section \in [Sections -> SectionEntry]
  BY DEF Image
<1>2. img.section[s] \in SectionEntry
  BY <1>1
<1>3. img.section[s].offset \in Nat /\ img.section[s].size \in Nat /\ img.section[s].alignment \in Nat \ {0}
  BY <1>2 DEF SectionEntry
<1> QED BY <1>2, <1>3 DEF End, Present

(* An image is the record of its fields.                                   *)
LEMMA ImageType ==
  ASSUME NEW img \in Image
  PROVE  /\ img.mem \in [0 .. BufferSize - 1 -> Cells]
         /\ img.size \in Nat
         /\ img.section \in [Sections -> SectionEntry]
         /\ img.magic \in BOOLEAN /\ img.normalized \in BOOLEAN /\ img.tocSorted \in BOOLEAN
         /\ img = [mem |-> img.mem, size |-> img.size, magic |-> img.magic, section |-> img.section,
                   normalized |-> img.normalized, tocSorted |-> img.tocSorted]
  BY DEF Image

(* The final section, found by its offset alone (xipFinalSection), is the  *)
(* one after which no other section has a byte.                            *)
LEMMA FinalIsLast ==
  ASSUME NEW img, LaidOut(img), NEW s \in Sections, Final(img, s)
  PROVE  \A t \in Present(img) \ {s} : End(img.section[t]) <= img.section[s].offset
<1> SUFFICES ASSUME NEW t \in Present(img) \ {s}
             PROVE  End(img.section[t]) <= img.section[s].offset
  OBVIOUS
<1>1. t \in Sections /\ s \in Present(img)
  BY DEF Present, Final
<1>2. img.section[t].offset <= img.section[s].offset
  BY <1>1, SectionType DEF Final, LaidOut
<1>3. \/ End(img.section[t]) <= img.section[s].offset
      \/ End(img.section[s]) <= img.section[t].offset
  BY <1>1 DEF LaidOut, DisjointIn
<1> QED BY <1>1, <1>2, <1>3, SectionType DEF LaidOut

(* Data that sbe_xip_append accepts starts after every section that is     *)
(* present, for an empty section also after the padding at the end of the  *)
(* image.                                                                  *)
LEMMA StartBounds ==
  ASSUME NEW img, LaidOut(img), NEW s \in Sections, s \in Present(img) => Final(img, s)
  PROVE  /\ AppendStart(img, s) \in Nat
         /\ \A t \in Present(img) : End(img.section[t]) <= AppendStart(img, s)
         /\ s \in Present(img) => AppendStart(img, s) = End(img.section[s])
         /\ s \notin Present(img) => img.size <= AppendStart(img, s)
<1>1. CASE s \in Present(img)
  <2>1. AppendStart(img, s) = End(img.section[s])
    BY <1>1 DEF AppendStart
  <2>2. \A t \in Present(img) \ {s} : End(img.section[t]) <= End(img.section[s])
    <3> SUFFICES ASSUME NEW t \in Present(img) \ {s}
                 PROVE  End(img.section[t]) <= End(img.section[s])
      OBVIOUS
    <3>1. End(img.section[t]) <= img.section[s].offset
      BY <1>1, FinalIsLast
    <3>2. t \in Sections
      BY DEF Present
    <3> QED BY <3>1, <3>2, SectionType DEF LaidOut
  <2> QED BY <1>1, <2>1, <2>2, SectionType DEF LaidOut
<1>2. CASE s \notin Present(img)
  <2>1. AppendStart(img, s) = Align(img.size, img.section[s].alignment)
    BY <1>2 DEF AppendStart
  <2>2. AppendStart(img, s) \in Nat /\ img.size <= AppendStart(img, s) /\ img.size \in Nat
    BY <2>1, AlignBounds, SectionType, ImageType DEF LaidOut
  <2>3. \A t \in Present(img) : End(img.section[t]) <= img.size /\ End(img.section[t]) \in Nat
    BY SectionType DEF LaidOut, DisjointIn, WithinImage, Present
  <2> QED BY <1>2, <2>2, <2>3
<1> QED BY <1>1, <1>2

(* A section whose entry and bytes are kept has the contents it had.       *)
LEMMA ContentsKept ==
  ASSUME NEW img, LaidOut(img), NEW img2, NEW t \in Sections,
         img2.section[t] = img.section[t],
         \A i \in 0 .. BufferSize - 1 :
            i < End(img.section[t]) /\ t \in Present(img) => img2.mem[i] = img.mem[i]
  PROVE  Contents(img2, t) = Contents(img, t)
<1>1. \A i \in 1 .. img.section[t].size :
         img2.mem[img.section[t].offset + i - 1] = img.mem[img.section[t].offset + i - 1]
  <2> SUFFICES ASSUME NEW i \in 1 .. img.section[t].size
               PROVE  img2.mem[img.section[t].offset + i - 1] = img.mem[img.section[t].offset + i - 1]
    OBVIOUS
  <2>1. t \in Present(img)
    BY SectionType DEF LaidOut
  <2>2. End(img.section[t]) <= img.size /\ img.size <= BufferSize /\ img.size \in Nat
    BY <2>1, ImageType DEF LaidOut, DisjointIn, WithinImage
  <2>3. /\ img.section[t].offset + i - 1 \in 0 .. BufferSize - 1
        /\ img.section[t].offset + i - 1 < End(img.section[t])
    <3> DEFINE o == img.section[t].offset
               n == img.section[t].size
               e == End(img.section[t])
    <3>1. img \in Image
      BY DEF LaidOut
    <3>2. o \in Nat /\ n \in Nat /\ e = o + n /\ i \in 1 .. n
      BY <3>1, SectionType
    <3> HIDE DEF o, n, e
    <3>3. e <= BufferSize
      BY <2>2, <3>2, XipAssumption DEF e
    <3>4. o + i - 1 \in 0 .. BufferSize - 1 /\ o + i - 1 < e
      BY <3>2, <3>3, XipAssumption
    <3> QED BY <3>4 DEF o, e
  <2> QED BY <2>1, <2>3
<1> QED BY <1>1 DEF Contents

(* The contents of a section are a sequence of cells, empty only if the    *)
(* section is.                                                             *)
LEMMA ContentsType ==
  ASSUME NEW img, LaidOut(img), NEW s \in Sections
  PROVE  /\ Contents(img, s) \in Seq(Cells)
         /\ Len(Contents(img, s)) = img.section[s].size
         /\ s \notin Present(img) => Contents(img, s) = << >>
         /\ s \in Present(img) => Contents(img, s) # << >>
<1> DEFINE n == img.section[s].size
           at == img.section[s].offset
<1>1. n \in Nat /\ at \in Nat /\ (s \in Present(img) <=> n # 0)
  BY SectionType DEF LaidOut
<1>2. n # 0 => at + n <= BufferSize
  BY <1>1, SectionType, ImageType, XipAssumption DEF LaidOut, DisjointIn, WithinImage
<1>3. img.mem \in [0 .. BufferSize - 1 -> Cells]
  BY ImageType DEF LaidOut
<1> HIDE DEF n, at
<1>4. \A i \in 1 .. n : img.mem[at + i - 1] \in Cells
  <2> SUFFICES ASSUME NEW i \in 1 .. n
               PROVE  img.mem[at + i - 1] \in Cells
    OBVIOUS
  <2>1. at + i - 1 \in 0 .. BufferSize - 1
    BY <1>1, <1>2, XipAssumption
  <2> QED BY <1>3, <2>1
<1>5. Contents(img, s) = [i \in 1 .. n |-> img.mem[at + i - 1]]
  BY DEF Contents, n, at
<1>6. Contents(img, s) \in Seq(Cells) /\ Len(Contents(img, s)) = n
  BY <1>1, <1>4, <1>5
<1>7. Contents(img, s) = << >> <=> n = 0
  BY <1>6
<1> QED BY <1>1, <1>6, <1>7 DEF n

(* Overlay changes no cell before its start and leaves the data behind     *)
(* it.                                                                     *)
LEMMA OverlayCells ==
  ASSUME NEW mem \in [0 .. BufferSize - 1 -> Cells], NEW at \in Nat, NEW data \in Seq(Cells)
  PROVE  /\ Overlay(mem, at, data) \in [0 .. BufferSize - 1 -> Cells]
         /\ \A i \in 0 .. BufferSize - 1 : i < at => Overlay(mem, at, data)[i] = mem[i]
         /\ \A k \in 1 .. Len(data) : at + k - 1 < BufferSize => Overlay(mem, at, data)[at + k - 1] = data[k]
<1>1. \A i \in 0 .. BufferSize - 1 :
         Overlay(mem, at, data)[i] = IF i \in at .. at + Len(data) - 1 THEN data[i - at + 1] ELSE mem[i]
  BY DEF Overlay
<1>2. Len(data) \in Nat /\ \A k \in 1 .. Len(data) : data[k] \in Cells
  OBVIOUS
<1>3. \A i \in 0 .. BufferSize - 1 : i \in at .. at + Len(data) - 1 => i - at + 1 \in 1 .. Len(data)
  BY <1>2, XipAssumption
<1>4. Overlay(mem, at, data) \in [0 .. BufferSize - 1 -> Cells]
  BY <1>2, <1>3 DEF Overlay
<1>5. \A i \in 0 .. BufferSize - 1 : i < at => Overlay(mem, at, data)[i] = mem[i]
  BY <1>1, <1>2
<1>6. ASSUME NEW k \in 1 .. Len(data), at + k - 1 < BufferSize
      PROVE  Overlay(mem, at, data)[at + k - 1] = data[k]
  <2>1. at + k - 1 \in 0 .. BufferSize - 1 /\ at + k - 1 \in at .. at + Len(data) - 1 /\ (at + k - 1) - at + 1 = k
    BY <1>2, <1>6, XipAssumption
  <2> QED BY <1>1, <2>1
<1> QED BY <1>4, <1>5, <1>6

(* The padding of sbe_xip_append changes no cell of the image.             *)
LEMMA PaddedCells ==
  ASSUME NEW img, LaidOut(img), NEW s \in Sections, NEW allocation
  PROVE  /\ Padded(img, s, allocation) \in [0 .. BufferSize - 1 -> Cells]
         /\ s \in Present(img) => Padded(img, s, allocation) = img.mem
         /\ \A i \in 0 .. BufferSize - 1 : i < img.size => Padded(img, s, allocation)[i] = img.mem[i]
<1>1. img.mem \in [0 .. BufferSize - 1 -> Cells] /\ img.size \in Nat
  BY ImageType DEF LaidOut
<1>2. CASE Padded(img, s, allocation) = img.mem
  BY <1>1, <1>2
<1>3. CASE s \notin Present(img) /\ Padded(img, s, allocation) = Clear(img.mem, img.size, AppendStart(img, s))
  <2>1. Padded(img, s, allocation)
          = [i \in 0 .. BufferSize - 1 |-> IF i \in img.size .. AppendStart(img, s) - 1 THEN Zero ELSE img.mem[i]]
    BY <1>1, <1>3 DEF Clear
  <2>2. Zero \in Cells
    BY XipAssumption
  <2>3. AppendStart(img, s) \in Nat
    BY <1>3, StartBounds
  <2>4. Padded(img, s, allocation) \in [0 .. BufferSize - 1 -> Cells]
    BY <1>1, <2>1, <2>2
  <2>5. ASSUME NEW i \in 0 .. BufferSize - 1, i < img.size
        PROVE  Padded(img, s, allocation)[i] = img.mem[i]
    <3>1. i \notin img.size .. AppendStart(img, s) - 1
      BY <1>1, <2>3, <2>5
    <3> QED BY <2>1, <3>1
  <2> QED BY <1>3, <2>4, <2>5
<1> QED BY <1>2, <1>3 DEF Padded

(* An image whose memory alone is replaced has the layout it had.          *)
LEMMA MemoryReplaced ==
  ASSUME NEW img \in Image, NEW mem \in [0 .. BufferSize - 1 -> Cells], NEW img2,
         img2 = [img EXCEPT !.mem = mem]
  PROVE  /\ img2 \in Image /\ img2.mem = mem
         /\ img2.size = img.size /\ img2.section = img.section
         /\ img2.magic = img.magic /\ img2.normalized = img.normalized
         /\ Present(img2) = Present(img)
         /\ DisjointIn(img) => DisjointIn(img2)
<1>1. /\ img2 \in Image /\ img2.mem = mem
      /\ img2.size = img.size /\ img2.section = img.section
      /\ img2.magic = img.magic /\ img2.normalized = img.normalized
  BY ImageType DEF Image
<1>2. Present(img2) = Present(img)
  BY <1>1 DEF Present
<1> QED BY <1>1, <1>2 DEF DisjointIn, WithinImage

(* The image after the memcpy of sbe_xip_append.                           *)
Written(img, s, data, allocation) ==
    [img EXCEPT !.mem = Overlay(Padded(img, s, allocation), AppendStart(img, s), data)]

(* Padding and copying the data changes no byte of a section, and puts     *)
(* the data where the append starts.                                       *)
LEMMA WrittenKeeps ==
  ASSUME NEW img, LaidOut(img), NEW s \in Sections, s \in Present(img) => Final(img, s),
         NEW data \in Seq(Cells), NEW allocation
  PROVE  LET w == Written(img, s, data, allocation)
         IN  /\ LaidOut(w) /\ w.size = img.size /\ w.section = img.section
             /\ Present(w) = Present(img) /\ AppendStart(w, s) = AppendStart(img, s)
             /\ \A i \in 0 .. BufferSize - 1 :
                   (\E t \in Present(img) : i < End(img.section[t])) => w.mem[i] = img.mem[i]
             /\ \A t \in Sections : Contents(w, t) = Contents(img, t)
             /\ \A k \in 1 .. Len(data) : AppendStart(img, s) + k - 1 < BufferSize =>
                   w.mem[AppendStart(img, s) + k - 1] = data[k]
<1> DEFINE w == Written(img, s, data, allocation)
           padded == Padded(img, s, allocation)
           start == AppendStart(img, s)
<1>1. start \in Nat
  BY StartBounds
<1>2. padded \in [0 .. BufferSize - 1 -> Cells]
  BY PaddedCells
<1>3. img \in Image /\ DisjointIn(img)
  BY DEF LaidOut
<1>4. Overlay(padded, start, data) \in [0 .. BufferSize - 1 -> Cells]
  BY <1>1, <1>2, OverlayCells
<1>5. /\ w \in Image /\ w.mem = Overlay(padded, start, data)
      /\ w.size = img.size /\ w.section = img.section
      /\ Present(w) = Present(img) /\ DisjointIn(w)
  BY <1>3, <1>4, MemoryReplaced DEF Written
<1>6. AppendStart(w, s) = start
  BY <1>5 DEF AppendStart
<1>7. ASSUME NEW i \in 0 .. BufferSize - 1, NEW t \in Present(img), i < End(img.section[t])
      PROVE  w.mem[i] = img.mem[i]
  <2>1. t \in Sections /\ End(img.section[t]) \in Nat
    BY <1>3, SectionType DEF Present
  <2>2. End(img.section[t]) <= start /\ End(img.section[t]) <= img.size
    BY <1>3, StartBounds DEF DisjointIn, WithinImage
  <2>3. i < start /\ i < img.size
    BY <1>1, <1>3, <1>7, <2>1, <2>2, ImageType
  <2> HIDE DEF w, padded, start
  <2>4. Overlay(padded, start, data)[i] = padded[i]
    BY <1>1, <1>2, <2>3, OverlayCells
  <2>5. w.mem[i] = padded[i]
    BY <1>5, <2>4
  <2>6. padded[i] = img.mem[i]
    BY <2>3, PaddedCells DEF padded
  <2> QED BY <2>5, <2>6
<1>8. ASSUME NEW t \in Sections
      PROVE  Contents(w, t) = Contents(img, t)
  <2>1. w.section[t] = img.section[t]
    BY <1>5
  <2>2. \A i \in 0 .. BufferSize - 1 : i < End(img.section[t]) /\ t \in Present(img) => w.mem[i] = img.mem[i]
    BY <1>7
  <2> HIDE DEF w
  <2> QED BY <2>1, <2>2, ContentsKept
<1>9. \A k \in 1 .. Len(data) : start + k - 1 < BufferSize => w.mem[start + k - 1] = data[k]
  BY <1>1, <1>2, <1>5, OverlayCells
<1> HIDE DEF w, padded, start
<1>10. LaidOut(w)
  BY <1>5 DEF LaidOut
<1>11. \A i \in 0 .. BufferSize - 1 :
          (\E t \in Present(img) : i < End(img.section[t])) => w.mem[i] = img.mem[i]
  BY <1>7
<1>12. \A t \in Sections : Contents(w, t) = Contents(img, t)
  BY <1>8
<1> USE DEF w, start
<1> QED BY <1>5, <1>6, <1>9, <1>10, <1>11, <1>12, Zenon

(* What sbe_xip_append changes once the data is in place.                  *)
LEMMA ExtendedFields ==
  ASSUME NEW img \in Image, NEW s \in Sections, NEW data \in Seq(Cells), AppendStart(img, s) \in Nat
  PROVE  LET r == Extended(img, s, data)
         IN  /\ r \in Image /\ r.mem = img.mem
             /\ r.size = Align(AppendStart(img, s) + Len(data), FinalAlignment)
             /\ \A t \in Sections \ {s} : r.section[t] = img.section[t]
             /\ r.section[s].offset = IF s \in Present(img) THEN img.section[s].offset ELSE AppendStart(img, s)
             /\ r.section[s].size = img.section[s].size + Len(data)
             /\ r.section[s].alignment = img.section[s].alignment
<1> DEFINE r == Extended(img, s, data)
           start == AppendStart(img, s)
           size == Align(start + Len(data), FinalAlignment)
           entry == [offset |-> IF s \in Present(img) THEN img.section[s].offset ELSE start,
                     size |-> img.section[s].size + Len(data),
                     alignment |-> img.section[s].alignment]
           sections == [img.section EXCEPT ![s] = entry]
<1>1. start + Len(data) \in Nat /\ size \in Nat
  <2>1. Len(data) \in Nat
    OBVIOUS
  <2>2. start + Len(data) \in Nat
    BY <2>1
  <2> QED BY <2>2, AlignBounds, XipAssumption
<1>2. entry \in SectionEntry
  BY <1>1, SectionType DEF SectionEntry
<1>3. /\ sections \in [Sections -> SectionEntry]
      /\ sections[s] = entry /\ \A t \in Sections \ {s} : sections[t] = img.section[t]
  BY <1>2, ImageType
<1>5. r = [img EXCEPT !.size = size, !.section = sections, !.tocSorted = @ /\ s # TOC]
  BY ImageType DEF Extended
<1>6. r = [mem |-> img.mem, size |-> size, magic |-> img.magic, section |-> sections,
           normalized |-> img.normalized, tocSorted |-> img.tocSorted /\ s # TOC]
  BY <1>5, ImageType
<1> HIDE DEF r, start, size, entry, sections
<1>7. r \in Image
  BY <1>1, <1>3, <1>6, ImageType DEF Image
<1>8. r.mem = img.mem /\ r.size = size /\ r.section = sections
  BY <1>6
<1> QED BY <1>3, <1>7, <1>8 DEF r, start, size, entry

(* The image after the memset of sbe_xip_append.                           *)
Cut(img, s, allocation) == [img EXCEPT !.mem = Padded(img, s, allocation)]

(* The four ways out of sbe_xip_append: nothing changed, only the padding  *)
(* written, the data written and taken back, the section extended.         *)
LEMMA AppendCases ==
  ASSUME NEW img \in Image, NEW s \in Sections, NEW data \in Seq(Cells), NEW allocation \in 0 .. BufferSize
  PROVE  LET r == DoAppend(img, s, data, allocation)
         IN  \/ r.image = img /\ (r.rc = "OK" => data = << >>)
             \/ r.image = Cut(img, s, allocation) /\ r.rc = "WOULD_OVERFLOW"
                  /\ (s \in Present(img) => Final(img, s))
             \/ r.image = Written(img, s, data, allocation) /\ r.rc = "WOULD_OVERFLOW"
                  /\ (s \in Present(img) => Final(img, s))
             \/ /\ r.image = Extended(Written(img, s, data, allocation), s, data) /\ r.rc = "OK"
                /\ data # << >> /\ (s \in Present(img) => Final(img, s))
                /\ Align(AppendStart(img, s) + Len(data), FinalAlignment) <= allocation
<1> DEFINE check == AppendCheck(img, s, data, allocation)
           fits == Align(AppendStart(img, s) + Len(data), FinalAlignment) <= allocation
           r == DoAppend(img, s, data, allocation)
           answer(rc, img2) == [rc |-> rc, offset |-> img.section[s].size, image |-> img2]
<1>1. /\ check \in {"OK", "WOULD_OVERFLOW"} => QuickCheck(img, TRUE) = "OK" /\ (s \in Present(img) => Final(img, s))
      /\ check # "OK" => QuickCheck(img, TRUE) = "OK" \/ check = QuickCheck(img, TRUE)
  BY DEF AppendCheck, QuickCheck
<1>2. CASE QuickCheck(img, TRUE) = "OK" /\ data = << >>
  <2>1. r = answer("OK", img)
    BY <1>2 DEF DoAppend
  <2> QED BY <1>2, <2>1
<1>3. CASE check = "WOULD_OVERFLOW" /\ data # << >>
  <2>1. r = answer(check, Cut(img, s, allocation))
    BY <1>3 DEF DoAppend, Cut
  <2> QED BY <1>1, <1>3, <2>1
<1>4. CASE check = "OK" /\ data # << >> /\ ~ fits
  <2>1. r = answer("WOULD_OVERFLOW", Written(img, s, data, allocation))
    BY <1>4 DEF DoAppend, Written
  <2> QED BY <1>1, <1>4, <2>1
<1>5. CASE check = "OK" /\ data # << >> /\ fits
  <2>1. r = answer("OK", Extended(Written(img, s, data, allocation), s, data))
    BY <1>5 DEF DoAppend, Written
  <2> QED BY <1>1, <1>5, <2>1
<1>6. CASE /\ ~ (QuickCheck(img, TRUE) = "OK" /\ data = << >>) /\ ~ (check = "WOULD_OVERFLOW" /\ data # << >>)
           /\ ~ (check = "OK" /\ data # << >>)
  <2>1. r = answer(check, img)
    BY <1>6 DEF DoAppend
  <2>2. check = "OK" => data = << >>
    BY <1>6
  <2> QED BY <2>1, <2>2
<1> QED BY <1>2, <1>3, <1>4, <1>5, <1>6

(* The extended section shares no byte with another, and the image still   *)
(* fits its buffer.                                                        *)
LEMMA ExtendedLayout ==
  ASSUME NEW img, LaidOut(img), NEW s \in Sections, s \in Present(img) => Final(img, s),
         NEW data \in Seq(Cells), data # << >>, NEW allocation,
         Align(AppendStart(img, s) + Len(data), FinalAlignment) <= BufferSize
  PROVE  LET r == Extended(Written(img, s, data, allocation), s, data)
         IN  /\ LaidOut(r)
             /\ r.mem = Written(img, s, data, allocation).mem
             /\ Present(r) = Present(img) \cup {s}
             /\ \A t \in Sections \ {s} : r.section[t] = img.section[t]
             /\ \A t \in Present(img) \ {s} : End(img.section[t]) <= r.section[s].offset
             /\ r.section[s].size = img.section[s].size + Len(data)
             /\ r.section[s].offset + img.section[s].size = AppendStart(img, s)
             /\ s \in Present(img) => r.section[s].offset = img.section[s].offset
             /\ AppendStart(img, s) + Len(data) <= BufferSize
<1> DEFINE w == Written(img, s, data, allocation)
           r == Extended(w, s, data)
           start == AppendStart(img, s)
<1>1. /\ LaidOut(w) /\ w.size = img.size /\ w.section = img.section
      /\ Present(w) = Present(img) /\ AppendStart(w, s) = start
  BY WrittenKeeps
<1>2. start \in Nat /\ Len(data) \in Nat /\ Len(data) # 0 /\ img \in Image
  BY StartBounds DEF LaidOut
<1>3. w \in Image /\ AppendStart(w, s) \in Nat
  BY <1>1, <1>2 DEF LaidOut
<1> HIDE DEF w
<1>4. /\ r \in Image /\ r.mem = w.mem
      /\ r.size = Align(start + Len(data), FinalAlignment)
      /\ \A t \in Sections \ {s} : r.section[t] = img.section[t]
      /\ r.section[s].offset = IF s \in Present(img) THEN img.section[s].offset ELSE start
      /\ r.section[s].size = img.section[s].size + Len(data)
  <2>1. /\ r \in Image /\ r.mem = w.mem
        /\ r.size = Align(AppendStart(w, s) + Len(data), FinalAlignment)
        /\ \A t \in Sections \ {s} : r.section[t] = w.section[t]
        /\ r.section[s].offset = IF s \in Present(w) THEN w.section[s].offset ELSE AppendStart(w, s)
        /\ r.section[s].size = w.section[s].size + Len(data)
    BY <1>3, ExtendedFields
  <2> HIDE DEF r
  <2> QED BY <1>1, <2>1
<1> HIDE DEF r, start
<1>5. start + Len(data) \in Nat /\ start + Len(data) <= r.size /\ r.size \in Nat
  <2>1. start + Len(data) \in Nat
    BY <1>2
  <2> QED BY <1>4, <2>1, AlignBounds, XipAssumption
<1>6. r.size <= BufferSize
  BY <1>4 DEF start
<1>7. /\ r.section[s].offset + img.section[s].size = start
      /\ End(r.section[s]) = start + Len(data)
      /\ r.section[s].size # 0 /\ r.section[s].offset \in Nat
  <2>1. /\ img.section[s].offset \in Nat /\ img.section[s].size \in Nat
        /\ s \in Present(img) <=> img.section[s].size # 0
        /\ s \in Present(img) => start = img.section[s].offset + img.section[s].size
    BY <1>2, SectionType, StartBounds DEF start
  <2>2. r.section[s].offset + img.section[s].size = start /\ r.section[s].offset \in Nat
    BY <1>2, <1>4, <2>1
  <2> QED BY <1>2, <1>4, <2>1, <2>2 DEF End
<1>8. Present(r) = Present(img) \cup {s}
  BY <1>4, <1>7 DEF Present
<1>9. ASSUME NEW t \in Present(img) \ {s}
      PROVE  /\ t \in Sections /\ End(img.section[t]) <= r.section[s].offset
             /\ End(r.section[t]) = End(img.section[t]) /\ End(img.section[t]) <= r.size
  <2>1. t \in Sections
    BY DEF Present
  <2>2. End(img.section[t]) <= start /\ End(img.section[t]) \in Nat
    BY <1>2, <2>1, StartBounds, SectionType DEF start
  <2>3. End(img.section[t]) <= r.section[s].offset
    BY <1>4, <2>2, FinalIsLast
  <2> QED BY <1>2, <1>4, <1>5, <2>1, <2>2, <2>3
<1>10. ASSUME NEW t \in Present(r)
       PROVE  End(r.section[t]) <= r.size
  BY <1>5, <1>7, <1>8, <1>9
<1>11. ASSUME NEW t \in Present(r), NEW u \in Present(r), t # u
       PROVE  End(r.section[t]) <= r.section[u].offset \/ End(r.section[u]) <= r.section[t].offset
  <2>1. CASE t = s
    BY <1>8, <1>9, <1>11, <2>1
  <2>2. CASE u = s
    BY <1>8, <1>9, <1>11, <2>2
  <2>3. CASE t # s /\ u # s
    <3>1. t \in Present(img) /\ u \in Present(img)
      BY <1>8, <2>3
    <3>2. End(img.section[t]) <= img.section[u].offset \/ End(img.section[u]) <= img.section[t].offset
      BY <1>11, <3>1 DEF LaidOut, DisjointIn
    <3>3. t \in Sections /\ u \in Sections
      BY <3>1 DEF Present
    <3> QED BY <1>4, <2>3, <3>2, <3>3
  <2> QED BY <2>1, <2>2, <2>3
<1>12. LaidOut(r)
  <2>1. r.size % FinalAlignment = 0
    BY <1>2, <1>4, <1>5, AlignMultiple, XipAssumption
  <2> QED BY <1>4, <1>6, <1>10, <1>11, <2>1 DEF LaidOut, DisjointIn, WithinImage
<1>13. start + Len(data) <= BufferSize
  BY <1>5, <1>6, XipAssumption
<1>14. s \in Present(img) => r.section[s].offset = img.section[s].offset
  BY <1>4
<1> QED BY <1>4, <1>7, <1>8, <1>9, <1>12, <1>13, <1>14, Zenon DEF r, w, start

(* The extended section holds what it held and then the data; the others   *)
(* hold what they held.                                                    *)
LEMMA ExtendedContents ==
  ASSUME NEW img, LaidOut(img), NEW s \in Sections, s \in Present(img) => Final(img, s),
         NEW data \in Seq(Cells), data # << >>, NEW allocation,
         Align(AppendStart(img, s) + Len(data), FinalAlignment) <= BufferSize
  PROVE  LET r == Extended(Written(img, s, data, allocation), s, data)
         IN  /\ OthersKept(img, r, s)
             /\ Contents(r, s) = Contents(img, s) \o data
<1> DEFINE w == Written(img, s, data, allocation)
           r == Extended(w, s, data)
           start == AppendStart(img, s)
           old == img.section[s].size
<1>1. /\ r.mem = w.mem
      /\ \A t \in Sections \ {s} : r.section[t] = img.section[t]
      /\ r.section[s].size = old + Len(data)
      /\ r.section[s].offset + old = start
      /\ s \in Present(img) => r.section[s].offset = img.section[s].offset
      /\ start + Len(data) <= BufferSize
      /\ r.section[s].offset \in Nat
  <2>1. LaidOut(r)
    BY ExtendedLayout
  <2>2. r.section[s].offset \in Nat
    BY <2>1, SectionType DEF LaidOut
  <2> QED BY <2>2, ExtendedLayout
<1>2. /\ start \in Nat /\ Len(data) \in Nat /\ old \in Nat
      /\ s \in Present(img) <=> old # 0
      /\ s \in Present(img) => start = img.section[s].offset + old
  BY StartBounds, SectionType DEF LaidOut
<1>3. /\ \A i \in 0 .. BufferSize - 1 :
            (\E t \in Present(img) : i < End(img.section[t])) => w.mem[i] = img.mem[i]
      /\ \A k \in 1 .. Len(data) : start + k - 1 < BufferSize => w.mem[start + k - 1] = data[k]
  BY WrittenKeeps
<1> HIDE DEF w, r, start, old
<1>4. ASSUME NEW t \in Sections \ {s}
      PROVE  Contents(r, t) = Contents(img, t)
  <2>1. \A i \in 0 .. BufferSize - 1 : i < End(img.section[t]) /\ t \in Present(img) => r.mem[i] = img.mem[i]
    BY <1>1, <1>3
  <2> QED BY <1>1, <2>1, ContentsKept
<1>5. Contents(r, s) = [i \in 1 .. old + Len(data) |-> r.mem[r.section[s].offset + i - 1]]
  BY <1>1 DEF Contents
<1>6. ASSUME NEW i \in 1 .. old + Len(data)
      PROVE  r.mem[r.section[s].offset + i - 1] = IF i <= old THEN Contents(img, s)[i] ELSE data[i - old]
  <2>1. CASE i <= old
    <3>1. s \in Present(img) /\ r.section[s].offset = img.section[s].offset
      BY <1>1, <1>2, <2>1
    <3> DEFINE offset == r.section[s].offset
               len == Len(data)
    <3>0. offset \in Nat /\ offset + old = start /\ start + len <= BufferSize
          /\ start \in Nat /\ len \in Nat /\ old \in Nat /\ i \in 1 .. old + len
      BY <1>1, <1>2
    <3> HIDE DEF offset, len
    <3>2. offset + i - 1 \in 0 .. BufferSize - 1 /\ i \in 1 .. old
      BY <2>1, <3>0, XipAssumption
    <3> USE DEF offset, len
    <3>3. r.section[s].offset + i - 1 < End(img.section[s])
      BY <1>1, <1>2, <2>1, <3>1 DEF End, old
    <3>4. r.mem[r.section[s].offset + i - 1] = img.mem[r.section[s].offset + i - 1]
      BY <1>1, <1>3, <3>1, <3>2, <3>3
    <3>5. Contents(img, s)[i] = img.mem[img.section[s].offset + i - 1]
      BY <3>2 DEF Contents, old
    <3> QED BY <2>1, <3>1, <3>4, <3>5
  <2>2. CASE ~ i <= old
    <3> DEFINE k == i - old
               len == Len(data)
               offset == r.section[s].offset
    <3>0. len \in Nat /\ offset \in Nat /\ start \in Nat /\ old \in Nat /\ offset + old = start
          /\ start + len <= BufferSize /\ i \in 1 .. old + len
      BY <1>1, <1>2
    <3> HIDE DEF len, offset
    <3>1. k \in 1 .. len /\ start + k - 1 < BufferSize /\ start + k - 1 = offset + i - 1
      BY <2>2, <3>0, XipAssumption
    <3> USE DEF len, offset
    <3>2. w.mem[start + k - 1] = data[k]
      BY <1>3, <3>1
    <3> QED BY <1>1, <2>2, <3>1, <3>2
  <2> QED BY <2>1, <2>2
<1>7. Contents(img, s) \in Seq(Cells) /\ Len(Contents(img, s)) = old
  BY ContentsType DEF old
<1>8. LaidOut(r)
  BY ExtendedLayout DEF r, w
<1>9. Contents(r, s) = Contents(img, s) \o data
  <2>1. Contents(r, s) \in Seq(Cells) /\ Len(Contents(r, s)) = old + Len(data)
    BY <1>1, <1>8, ContentsType
  <2>2. \A i \in 1 .. old + Len(data) : Contents(r, s)[i] = IF i <= old THEN Contents(img, s)[i] ELSE data[i - old]
    BY <1>5, <1>6
  <2> DEFINE c == Contents(img, s)
  <2> HIDE DEF c
  <2>3. /\ c \o data \in Seq(Cells) /\ Len(c \o data) = old + Len(data)
        /\ \A i \in 1 .. old + Len(data) : (c \o data)[i] = IF i <= old THEN c[i] ELSE data[i - old]
    BY <1>7, ConcatProperties DEF c
  <2> QED BY <2>1, <2>2, <2>3, SeqEqual DEF c
<1> QED BY <1>1, <1>4, <1>9 DEF OthersKept, r, w

(* An image with a section has a final one.                                *)
LEMMA LastExists ==
  ASSUME NEW img, LaidOut(img), Present(img) # {}
  PROVE  \E t \in Sections : Final(img, t)
<1> DEFINE P == Present(img)
           distance(t) == BufferSize - img.section[t].offset
           T == {distance(t) : t \in P}
<1>1. img \in Image /\ DisjointIn(img)
  BY DEF LaidOut
<1>2. ASSUME NEW t \in P
      PROVE  /\ t \in Sections /\ img.section[t].offset \in Nat
             /\ img.section[t].size \in Nat \ {0}
             /\ img.section[t].offset < End(img.section[t])
             /\ distance(t) \in Nat
  <2>1. t \in Sections
    BY DEF Present
  <2>2. End(img.section[t]) <= img.size /\ img.size <= BufferSize /\ img.size \in Nat
    BY <1>1, ImageType DEF DisjointIn, WithinImage
  <2> DEFINE o == img.section[t].offset
             n == img.section[t].size
             e == End(img.section[t])
  <2>3. o \in Nat /\ n \in Nat /\ e = o + n /\ n # 0
    BY <1>1, <2>1, SectionType
  <2> HIDE DEF o, n, e
  <2>4. o < e /\ o <= BufferSize
    BY <2>2, <2>3, XipAssumption DEF e
  <2>5. BufferSize - o \in Nat
    BY <2>3, <2>4, XipAssumption
  <2> QED BY <2>1, <2>3, <2>4, <2>5 DEF o, n, e
<1>3. T \subseteq Nat /\ T # {}
  BY <1>2
<1>4. \E m \in T : \A x \in T : m <= x
  <2> HIDE DEF T
  <2> QED BY <1>3, LeastNatural
<1>5. PICK t \in P : \A u \in P : distance(t) <= distance(u)
  BY <1>4
<1>6. ASSUME NEW u \in P
      PROVE  \/ img.section[u].offset < img.section[t].offset
             \/ img.section[u].offset = img.section[t].offset /\ u <= t
  <2>1. img.section[u].offset <= img.section[t].offset
    BY <1>2, <1>5, XipAssumption
  <2>2. CASE u = t
    BY <1>2, <2>2, XipAssumption
  <2>3. CASE u # t
    <3>1. \/ End(img.section[u]) <= img.section[t].offset
          \/ End(img.section[t]) <= img.section[u].offset
      BY <1>1, <2>3 DEF DisjointIn
    <3>2. End(img.section[u]) \in Nat /\ End(img.section[t]) \in Nat
      BY <1>1, <1>2, SectionType
    <3> QED BY <1>2, <2>1, <3>1, <3>2
  <2> QED BY <2>2, <2>3
<1>7. Final(img, t)
  BY <1>6 DEF Final
<1> QED BY <1>2, <1>7

(* What sbe_xip_delete_section changes in the section table.               *)
LEMMA WithoutFields ==
  ASSUME NEW img \in Image, NEW s \in Sections
  PROVE  LET r == Without(img, s)
         IN  /\ r \in Image /\ r.mem = img.mem /\ r.size = img.size
             /\ \A t \in Sections \ {s} : r.section[t] = img.section[t]
             /\ r.section[s].size = 0 /\ r.section[s].alignment = img.section[s].alignment
             /\ Present(r) = Present(img) \ {s}
<1> DEFINE entry == [offset |-> 0, size |-> 0, alignment |-> img.section[s].alignment]
           sections == [img.section EXCEPT ![s] = entry]
           r == Without(img, s)
<1>1. entry \in SectionEntry
  BY SectionType DEF SectionEntry
<1>2. /\ sections \in [Sections -> SectionEntry]
      /\ sections[s] = entry /\ \A t \in Sections \ {s} : sections[t] = img.section[t]
  BY <1>1, ImageType
<1>3. r = [img EXCEPT !.section = sections]
  BY ImageType DEF Without
<1>4. r = [mem |-> img.mem, size |-> img.size, magic |-> img.magic, section |-> sections,
           normalized |-> img.normalized, tocSorted |-> img.tocSorted]
  BY <1>3, ImageType
<1> HIDE DEF r, sections
<1>5. r \in Image
  BY <1>2, <1>4, ImageType DEF Image
<1>6. r.mem = img.mem /\ r.size = img.size /\ r.section = sections
  BY <1>4
<1>7. Present(r) = Present(img) \ {s}
  BY <1>2, <1>6 DEF Present
<1> QED BY <1>2, <1>5, <1>6, <1>7 DEF r

(* Clearing the entry of a section keeps the rest of the layout.           *)
LEMMA WithoutLayout ==
  ASSUME NEW img, LaidOut(img), NEW s \in Sections
  PROVE  /\ LaidOut(Without(img, s))
         /\ OthersKept(img, Without(img, s), s)
         /\ Contents(Without(img, s), s) = << >>
<1> DEFINE r == Without(img, s)
<1>1. img \in Image
  BY DEF LaidOut
<1>2. /\ r \in Image /\ r.mem = img.mem /\ r.size = img.size
      /\ \A t \in Sections \ {s} : r.section[t] = img.section[t]
      /\ Present(r) = Present(img) \ {s}
  BY <1>1, WithoutFields
<1> HIDE DEF r
<1>3. LaidOut(r)
  <2>1. \A t \in Present(r) : t \in Present(img) /\ t \in Sections \ {s}
    BY <1>2 DEF Present
  <2>2. DisjointIn(r)
    BY <1>2, <2>1 DEF LaidOut, DisjointIn, WithinImage
  <2> QED BY <1>2, <2>2 DEF LaidOut
<1>4. \A t \in Sections \ {s} : Contents(r, t) = Contents(img, t)
  BY <1>2 DEF Contents
<1>5. s \notin Present(r)
  BY <1>2
<1> QED BY <1>2, <1>3, <1>4, <1>5, ContentsType DEF OthersKept, r

(* Cutting the image back to the section before the deleted one keeps      *)
(* that section and every other whole, and never makes the image longer.   *)
LEMMA TrimmedLayout ==
  ASSUME NEW img, LaidOut(img), NEW s \in Sections, Final(img, s), Present(img) # {s}
  PROVE  LET r == Trimmed(Without(img, s))
         IN  /\ LaidOut(r)
             /\ OthersKept(img, r, s)
             /\ Contents(r, s) = << >>
             /\ r.section = Without(img, s).section
             /\ Present(r) = Present(img) \ {s}
<1> DEFINE w == Without(img, s)
           last == CHOOSE t \in Sections : Final(w, t)
           r == Trimmed(w)
<1>1. LaidOut(w) /\ OthersKept(img, w, s) /\ Contents(w, s) = << >> /\ img \in Image /\ w \in Image
  BY WithoutLayout DEF LaidOut
<1>2. /\ w.size = img.size /\ Present(w) = Present(img) \ {s}
      /\ \A t \in Sections \ {s} : w.section[t] = img.section[t]
  BY <1>1, WithoutFields
<1> HIDE DEF w
<1>3. Present(w) # {}
  BY <1>2 DEF Final
<1>4. last \in Sections /\ Final(w, last)
  <2>1. \E t \in Sections : Final(w, t)
    BY <1>1, <1>3, LastExists
  <2> QED BY <2>1
<1> DEFINE end == End(w.section[last])
<1>5. end \in Nat /\ end <= img.size /\ last \in Present(img) \ {s}
  <2>1. last \in Present(w)
    BY <1>4 DEF Final
  <2>2. end <= w.size
    BY <1>1, <2>1 DEF LaidOut, DisjointIn, WithinImage
  <2>3. end \in Nat
    BY <1>1, <1>4, SectionType
  <2> QED BY <1>2, <2>1, <2>2, <2>3
<1> HIDE DEF last
<1>6. r = [w EXCEPT !.size = Align(end, FinalAlignment)]
  BY DEF Trimmed, last
<1> HIDE DEF end, r
<1> DEFINE size == Align(end, FinalAlignment)
<1>7. size \in Nat /\ end <= size /\ size % FinalAlignment = 0
  BY <1>5, AlignBounds, AlignMultiple, XipAssumption
<1>8. size <= img.size /\ img.size \in Nat /\ img.size <= BufferSize
  <2>1. img.size \in Nat /\ img.size % FinalAlignment = 0 /\ img.size <= BufferSize
    BY ImageType DEF LaidOut, DisjointIn
  <2>2. size <= img.size
    BY <1>5, <2>1, AlignLeast, XipAssumption
  <2> QED BY <2>1, <2>2
<1> HIDE DEF size
<1>9. /\ r \in Image /\ r.mem = w.mem /\ r.size = size /\ r.section = w.section
  <2>1. r = [mem |-> w.mem, size |-> size, magic |-> w.magic, section |-> w.section,
             normalized |-> w.normalized, tocSorted |-> w.tocSorted]
    BY <1>1, <1>6, ImageType DEF size
  <2>2. r \in Image
    BY <1>1, <1>7, <2>1, ImageType DEF Image
  <2> QED BY <2>1, <2>2
<1>10. Present(r) = Present(w)
  BY <1>9 DEF Present
<1>11. ASSUME NEW t \in Present(r)
       PROVE  End(r.section[t]) <= r.size
  <2>1. t \in Sections /\ t \in Present(w)
    BY <1>10 DEF Present
  <2>2. End(w.section[t]) <= end
    <3>1. CASE t = last
      BY <1>5, <3>1 DEF end
    <3>2. CASE t # last
      <4>1. End(w.section[t]) <= w.section[last].offset
        BY <1>1, <1>4, <2>1, <3>2, FinalIsLast
      <4> QED BY <1>1, <1>4, <2>1, <4>1, SectionType, SMTT(30) DEF end
    <3> QED BY <3>1, <3>2
  <2>3. End(w.section[t]) \in Nat
    BY <1>1, <2>1, SectionType
  <2> QED BY <1>5, <1>7, <1>9, <2>2, <2>3
<1>12. LaidOut(r)
  <2>1. r.size <= BufferSize
    BY <1>7, <1>8, <1>9, XipAssumption
  <2>2. DisjointIn(r)
    BY <1>1, <1>9, <1>10, <1>11, <2>1 DEF LaidOut, DisjointIn, WithinImage
  <2> QED BY <1>7, <1>9, <2>2 DEF LaidOut
<1>13. \A t \in Sections : Contents(r, t) = Contents(w, t)
  BY <1>9 DEF Contents
<1>14. OthersKept(img, r, s)
  BY <1>1, <1>9, <1>13 DEF OthersKept
<1> QED BY <1>1, <1>2, <1>9, <1>10, <1>12, <1>13, <1>14 DEF r, w

(* An append that stops after the padding has changed nothing a user       *)
(* sees.                                                                   *)
LEMMA CutKeeps ==
  ASSUME NEW img, LaidOut(img), NEW s \in Sections, NEW allocation
  PROVE  LaidOut(Cut(img, s, allocation)) /\ Restored(img, Cut(img, s, allocation))
<1> DEFINE padded == Padded(img, s, allocation)
           c == Cut(img, s, allocation)
<1>1. img \in Image /\ DisjointIn(img) /\ img.size % FinalAlignment = 0 /\ img.size \in Nat
  BY ImageType DEF LaidOut
<1>2. /\ padded \in [0 .. BufferSize - 1 -> Cells]
      /\ \A i \in 0 .. BufferSize - 1 : i < img.size => padded[i] = img.mem[i]
  BY PaddedCells
<1> HIDE DEF padded
<1>3. c = [img EXCEPT !.mem = padded]
  BY DEF Cut, padded
<1> HIDE DEF c
<1>4. c \in Image /\ c.mem = padded /\ c.size = img.size /\ c.section = img.section /\ DisjointIn(c)
  BY <1>1, <1>2, <1>3, MemoryReplaced
<1>5. LaidOut(c)
  BY <1>1, <1>4 DEF LaidOut
<1>6. ASSUME NEW t \in Sections
      PROVE  Contents(c, t) = Contents(img, t)
  <2>1. ASSUME NEW i \in 0 .. BufferSize - 1, i < End(img.section[t]), t \in Present(img)
        PROVE  c.mem[i] = img.mem[i]
    <3>1. End(img.section[t]) <= img.size /\ End(img.section[t]) \in Nat
      BY <1>1, <2>1, SectionType DEF DisjointIn, WithinImage
    <3>2. i < img.size
      BY <1>1, <2>1, <3>1, XipAssumption
    <3> QED BY <1>2, <1>4, <3>2
  <2>2. c.section[t] = img.section[t]
    BY <1>4
  <2> QED BY <2>1, <2>2, ContentsKept
<1> QED BY <1>4, <1>5, <1>6 DEF Restored, c

(* An image that is restored has lost nothing of any section.              *)
LEMMA RestoredKeepsOthers ==
  ASSUME NEW img, NEW img2, Restored(img, img2), NEW s
  PROVE  OthersKept(img, img2, s)
BY DEF Restored, OthersKept

(* What a successful sbe_xip_append shows its users.                       *)
Appended(img, img2, s, data) ==
    /\ s \in Present(img) => Final(img, s)
    /\ Contents(img2, s) = Contents(img, s) \o data
    /\ Present(img2) = Present(img) \cup {s}
    /\ \A t \in Sections \ {s} : img2.section[t] = img.section[t]
    /\ \A t \in Present(img) \ {s} : End(img.section[t]) <= img2.section[s].offset
    /\ s \in Present(img) => img2.section[s].offset = img.section[s].offset

(* sbe_xip_append keeps the layout and the other sections; it restores     *)
(* what a user sees or it has appended the data.                           *)
LEMMA AppendResult ==
  ASSUME NEW img, LaidOut(img), NEW s \in Sections, NEW data \in Seq(Cells), NEW allocation \in 0 .. BufferSize
  PROVE  LET r == DoAppend(img, s, data, allocation)
         IN  /\ LaidOut(r.image) /\ OthersKept(img, r.image, s)
             /\ \/ Restored(img, r.image)
                \/ r.rc = "OK" /\ data # << >> /\ Appended(img, r.image, s, data)
<1> DEFINE r == DoAppend(img, s, data, allocation)
           w == Written(img, s, data, allocation)
           x == Extended(w, s, data)
<1>1. img \in Image
  BY DEF LaidOut
<1>2. CASE r.image = img
  <2>1. Restored(img, img)
    BY DEF Restored
  <2> HIDE DEF r
  <2> QED BY <1>2, <2>1, RestoredKeepsOthers DEF r
<1>3. CASE r.image = Cut(img, s, allocation)
  <2> HIDE DEF r
  <2>1. LaidOut(r.image) /\ Restored(img, r.image)
    BY <1>3, CutKeeps
  <2> QED BY <2>1, RestoredKeepsOthers DEF r
<1>4. CASE r.image = w /\ (s \in Present(img) => Final(img, s))
  <2>1. LaidOut(w) /\ Restored(img, w)
    BY <1>4, WrittenKeeps DEF Restored
  <2> HIDE DEF r, w
  <2> QED BY <1>4, <2>1, RestoredKeepsOthers DEF r
<1>5. CASE /\ r.image = x /\ r.rc = "OK"
           /\ data # << >> /\ (s \in Present(img) => Final(img, s))
           /\ Align(AppendStart(img, s) + Len(data), FinalAlignment) <= allocation
  <2> DEFINE size == Align(AppendStart(img, s) + Len(data), FinalAlignment)
  <2>1. size <= BufferSize
    <3>1. allocation <= BufferSize /\ allocation \in Nat
      BY XipAssumption
    <3>2. AppendStart(img, s) \in Nat /\ Len(data) \in Nat
      BY <1>5, StartBounds
    <3>3. size \in Nat
      <4>1. AppendStart(img, s) + Len(data) \in Nat
        BY <3>2
      <4> QED BY <4>1, AlignBounds, XipAssumption
    <3> HIDE DEF size
    <3> QED BY <1>5, <3>1, <3>3, XipAssumption DEF size
  <2>2. /\ LaidOut(x) /\ OthersKept(img, x, s)
        /\ Appended(img, x, s, data)
    BY <1>5, <2>1, ExtendedLayout, ExtendedContents DEF Appended
  <2> HIDE DEF r, x
  <2> QED BY <1>5, <2>2 DEF r
<1> HIDE DEF r, w, x
<1>6. \/ r.image = img
      \/ r.image = Cut(img, s, allocation)
      \/ r.image = w /\ (s \in Present(img) => Final(img, s))
      \/ /\ r.image = x /\ r.rc = "OK"
         /\ data # << >> /\ (s \in Present(img) => Final(img, s))
         /\ Align(AppendStart(img, s) + Len(data), FinalAlignment) <= allocation
  BY <1>1, AppendCases DEF r, w, x
<1> QED BY <1>2, <1>3, <1>4, <1>5, <1>6 DEF r

(* sbe_xip_delete_section keeps the layout and the other sections; it      *)
(* changes nothing or it has removed the final section.                    *)
LEMMA DeleteResult ==
  ASSUME NEW img, LaidOut(img), NEW s \in Sections
  PROVE  LET r == DoDelete(img, s)
         IN  /\ LaidOut(r.image) /\ OthersKept(img, r.image, s)
             /\ \/ r.image = img
                \/ /\ r.rc \in {"OK", "IMAGE_ERROR"} /\ Final(img, s) /\ Contents(r.image, s) = << >>
                   /\ Present(r.image) = Present(img) \ {s}
                   /\ \A t \in Sections \ {s} : r.image.section[t] = img.section[t]
<1> DEFINE r == DoDelete(img, s)
           w == Without(img, s)
           x == Trimmed(w)
<1>1. img \in Image
  BY DEF LaidOut
<1>2. CASE r.image = img
  <2>1. OthersKept(img, img, s)
    BY DEF OthersKept
  <2> HIDE DEF r
  <2> QED BY <1>2, <2>1 DEF r
<1>3. CASE r.image = w /\ r.rc = "IMAGE_ERROR" /\ Final(img, s)
  <2>1. LaidOut(w) /\ OthersKept(img, w, s) /\ Contents(w, s) = << >>
    BY WithoutLayout
  <2>2. Present(w) = Present(img) \ {s} /\ \A t \in Sections \ {s} : w.section[t] = img.section[t]
    BY <1>1, WithoutFields
  <2> HIDE DEF r, w
  <2> QED BY <1>3, <2>1, <2>2 DEF r
<1>4. CASE r.image = x /\ r.rc = "OK" /\ Final(img, s) /\ Present(img) # {s}
  <2>1. /\ LaidOut(x) /\ OthersKept(img, x, s) /\ Contents(x, s) = << >>
        /\ x.section = w.section /\ Present(x) = Present(img) \ {s}
    BY <1>4, TrimmedLayout
  <2>2. \A t \in Sections \ {s} : w.section[t] = img.section[t]
    BY <1>1, WithoutFields
  <2> HIDE DEF r, w, x
  <2> QED BY <1>4, <2>1, <2>2 DEF r
<1>5. \/ r.image = img
      \/ r.image = w /\ r.rc = "IMAGE_ERROR" /\ Final(img, s)
      \/ r.image = x /\ r.rc = "OK" /\ Final(img, s) /\ Present(img) # {s}
  BY DEF DoDelete, Final
<1> HIDE DEF r, w, x
<1> QED BY <1>2, <1>3, <1>4, <1>5 DEF r

(* The arguments of an append are a section and data.                      *)
LEMMA AppendArguments ==
  ASSUME NEW s \in Targets, NEW data \in Samples[s], NEW allocation \in Allocations
  PROVE  s \in Sections /\ data \in Seq(Cells) /\ allocation \in 0 .. BufferSize
BY XipAssumption

(* The inductive invariant of the layout API: sections share no byte,      *)
(* each lies in the image, and the image, a multiple of its final          *)
(* alignment, fits the buffer. Without the last part a delete could align  *)
(* the end of the image past the buffer.                                   *)
THEOREM LayoutKept == LayoutSpec => []LaidOut(image)
<1>1. Init => LaidOut(image)
  BY ImagesAssumption DEF Init
<1>2. ASSUME LaidOut(image), [LayoutNext]_vars
      PROVE  LaidOut(image)'
  <2>1. CASE UNCHANGED vars
    BY <1>2, <2>1 DEF vars, LaidOut, DisjointIn, Present, WithinImage
  <2>2. ASSUME NEW s \in Targets, NEW allocation \in Allocations, NEW data \in Samples[s],
               AppendData(s, data, allocation)
        PROVE  LaidOut(image)'
    <3>1. image' = DoAppend(image, s, data, allocation).image
      BY <2>2 DEF AppendData
    <3>2. LaidOut(DoAppend(image, s, data, allocation).image)
      BY <1>2, AppendArguments, AppendResult
    <3> QED BY <3>1, <3>2
  <2>3. ASSUME NEW s \in Targets, DeleteSection(s)
        PROVE  LaidOut(image)'
    <3>1. image' = DoDelete(image, s).image
      BY <2>3 DEF DeleteSection
    <3>2. s \in Sections
      BY XipAssumption
    <3>3. LaidOut(DoDelete(image, s).image)
      BY <1>2, <3>2, DeleteResult
    <3> QED BY <3>1, <3>3
  <2>4. ASSUME NEW s \in Targets, DuplicateSection(s)
        PROVE  LaidOut(image)'
    BY <1>2, <2>4 DEF DuplicateSection
  <2> QED BY <1>2, <2>1, <2>2, <2>3, <2>4 DEF LayoutNext
<1> QED BY <1>1, <1>2, PTL DEF LayoutSpec

(* The two variables of the image library keep their types through any     *)
(* sequence of appends, deletes and copies.                                *)
THEOREM LayoutTypeOK == LayoutSpec => []ImageTypeOK
<1> DEFINE Ops == {"none", "append", "delete", "duplicate", "write", "normalize", "set", "open"}
<1>1. Init => call.op \in Ops
  BY DEF Init, Call
<1>2. ASSUME call.op \in Ops, [LayoutNext]_vars
      PROVE  (call.op \in Ops)'
  BY <1>2 DEF LayoutNext, AppendData, DeleteSection, DuplicateSection, Call, vars
<1>3. LayoutSpec => [](call.op \in Ops)
  BY <1>1, <1>2, PTL DEF LayoutSpec
<1>4. LaidOut(image) /\ call.op \in Ops => ImageTypeOK
  BY DEF LaidOut, DisjointIn, ImageTypeOK
<1> QED BY <1>3, <1>4, LayoutKept, PTL

(* No sequence of sbe_xip_append and sbe_xip_delete_section makes two      *)
(* sections share a byte or leave the image, whatever the images, the      *)
(* data and the alignments.                                                *)
THEOREM LayoutDisjoint == LayoutSpec => []Disjoint
<1>1. LaidOut(image) => Disjoint
  BY DEF LaidOut, Disjoint
<1> QED BY <1>1, LayoutKept, PTL

(* A call of sbe_xip_append or sbe_xip_delete_section never changes the    *)
(* contents or the place of a section other than its own, whether it       *)
(* succeeds or fails.                                                      *)
THEOREM LayoutOthersUntouched == LayoutSpec => OthersUntouched
<1>1. ASSUME LaidOut(image), [LayoutNext]_vars
      PROVE  [call'.op \in {"append", "delete"} => OthersKept(image, image', call'.section)]_vars
  <2> SUFFICES ASSUME LayoutNext, call'.op \in {"append", "delete"}
               PROVE  OthersKept(image, image', call'.section)
    BY <1>1
  <2>1. ASSUME NEW s \in Targets, NEW allocation \in Allocations, NEW data \in Samples[s],
               AppendData(s, data, allocation)
        PROVE  OthersKept(image, image', call'.section)
    <3>1. image' = DoAppend(image, s, data, allocation).image /\ call'.section = s
      BY <2>1 DEF AppendData, Call
    <3>2. OthersKept(image, DoAppend(image, s, data, allocation).image, s)
      BY <1>1, AppendArguments, AppendResult
    <3> QED BY <3>1, <3>2
  <2>2. ASSUME NEW s \in Targets, DeleteSection(s)
        PROVE  OthersKept(image, image', call'.section)
    <3>1. image' = DoDelete(image, s).image /\ call'.section = s
      BY <2>2 DEF DeleteSection, Call
    <3>2. s \in Sections
      BY XipAssumption
    <3>3. OthersKept(image, DoDelete(image, s).image, s)
      BY <1>1, <3>2, DeleteResult
    <3> QED BY <3>1, <3>3
  <2>3. ASSUME NEW s \in Targets, DuplicateSection(s)
        PROVE  FALSE
    BY <2>3 DEF DuplicateSection, Call
  <2> QED BY <2>1, <2>2, <2>3 DEF LayoutNext
<1> QED BY <1>1, LayoutKept, PTL DEF LayoutSpec, OthersUntouched

(* An append or a delete that is refused leaves the size, the section      *)
(* table and every section as they were.                                   *)
THEOREM LayoutFailureRestores == LayoutSpec => FailureRestores
<1>1. ASSUME LaidOut(image), [LayoutNext]_vars
      PROVE  [call'.op \in {"append", "delete"} /\ call'.rc \notin {"OK", "IMAGE_ERROR"} =>
                 Restored(image, image')]_vars
  <2> SUFFICES ASSUME LayoutNext, call'.op \in {"append", "delete"}, call'.rc \notin {"OK", "IMAGE_ERROR"}
               PROVE  Restored(image, image')
    BY <1>1
  <2>1. ASSUME NEW s \in Targets, NEW allocation \in Allocations, NEW data \in Samples[s],
               AppendData(s, data, allocation)
        PROVE  Restored(image, image')
    <3> DEFINE r == DoAppend(image, s, data, allocation)
    <3>1. image' = r.image /\ call'.rc = r.rc
      BY <2>1 DEF AppendData, Call
    <3>2. Restored(image, r.image) \/ r.rc = "OK"
      BY <1>1, AppendArguments, AppendResult
    <3> QED BY <3>1, <3>2
  <2>2. ASSUME NEW s \in Targets, DeleteSection(s)
        PROVE  Restored(image, image')
    <3> DEFINE r == DoDelete(image, s)
    <3>1. image' = r.image /\ call'.rc = r.rc
      BY <2>2 DEF DeleteSection, Call
    <3>2. s \in Sections
      BY XipAssumption
    <3>3. r.image = image \/ r.rc \in {"OK", "IMAGE_ERROR"}
      BY <1>1, <3>2, DeleteResult
    <3> QED BY <3>1, <3>3 DEF Restored
  <2>3. ASSUME NEW s \in Targets, DuplicateSection(s)
        PROVE  FALSE
    BY <2>3 DEF DuplicateSection, Call
  <2> QED BY <2>1, <2>2, <2>3 DEF LayoutNext
<1> QED BY <1>1, LayoutKept, PTL DEF LayoutSpec, FailureRestores

(* Two sections that are present start at different offsets, and in the    *)
(* order in which they lie.                                                *)
LEMMA OrderedSections ==
  ASSUME NEW img, LaidOut(img), NEW s \in Present(img), NEW t \in Present(img)
  PROVE  /\ s \in Sections /\ t \in Sections
         /\ img.section[s].offset \in Nat /\ img.section[t].offset \in Nat
         /\ s # t => img.section[s].offset # img.section[t].offset
         /\ End(img.section[s]) <= img.section[t].offset => img.section[s].offset < img.section[t].offset
<1>1. img \in Image /\ DisjointIn(img)
  BY DEF LaidOut
<1>2. s \in Sections /\ t \in Sections
  BY DEF Present
<1> DEFINE a == img.section[s].offset
           b == img.section[t].offset
           c == End(img.section[s])
           d == End(img.section[t])
<1>3. a \in Nat /\ b \in Nat /\ c \in Nat /\ d \in Nat
  BY <1>1, <1>2, SectionType
<1>4. a < c /\ b < d
  BY <1>1, <1>2, SectionType
<1>5. s # t => c <= b \/ d <= a
  BY <1>1 DEF DisjointIn
<1> HIDE DEF a, b, c, d
<1>6. /\ s # t => a # b
      /\ c <= b => a < b
  BY <1>3, <1>4, <1>5
<1> QED BY <1>2, <1>3, <1>6 DEF a, b, c, d

(* No section lies above s.                                                *)
TopIn(img, s) == s \in Present(img) /\ \A t \in Present(img) \ {s} : <<t, s>> \in BelowIn(img)

(* The final section is on top of all others, and below none.              *)
LEMMA FinalOnTop ==
  ASSUME NEW img, LaidOut(img), NEW s \in Sections, Final(img, s)
  PROVE  TopIn(img, s) /\ \A t \in Present(img) : <<s, t>> \notin BelowIn(img)
<1>1. s \in Present(img)
  BY DEF Final
<1>2. ASSUME NEW t \in Present(img) \ {s}
      PROVE  <<t, s>> \in BelowIn(img)
  <2>1. img.section[t].offset < img.section[s].offset
    BY <1>1, FinalIsLast, OrderedSections
  <2> QED BY <1>1, <2>1 DEF BelowIn
<1>3. ASSUME NEW t \in Present(img), <<s, t>> \in BelowIn(img)
      PROVE  FALSE
  <2>1. img.section[s].offset < img.section[t].offset
    BY <1>3 DEF BelowIn
  <2>2. img.section[s].offset \in Nat /\ img.section[t].offset \in Nat
    BY <1>1, OrderedSections
  <2>3. t # s
    BY <2>1, <2>2
  <2>4. img.section[t].offset < img.section[s].offset
    BY <1>2, <2>3 DEF BelowIn
  <2> QED BY <2>1, <2>2, <2>4
<1> QED BY <1>1, <1>2, <1>3 DEF TopIn

(* A new section is on top of those that were there; a section that grows  *)
(* stays where it was.                                                     *)
LEMMA AppendedBelow ==
  ASSUME NEW img, LaidOut(img), NEW img2, LaidOut(img2), NEW s \in Sections, NEW data,
         Appended(img, img2, s, data)
  PROVE  /\ s \notin Present(img) => BelowIn(img2) = BelowIn(img) \cup {<<t, s>> : t \in Present(img)}
         /\ s \in Present(img) => BelowIn(img2) = BelowIn(img)
<1>1. /\ Present(img2) = Present(img) \cup {s}
      /\ \A t \in Sections \ {s} : img2.section[t] = img.section[t]
      /\ \A t \in Present(img) \ {s} : End(img.section[t]) <= img2.section[s].offset
      /\ s \in Present(img) => img2.section[s].offset = img.section[s].offset
  BY DEF Appended
<1>2. ASSUME NEW t \in Present(img) \ {s}
      PROVE  /\ <<t, s>> \in BelowIn(img2) /\ <<s, t>> \notin BelowIn(img2)
  <2>1. t \in Present(img2) /\ s \in Present(img2) /\ t \in Sections
    BY <1>1 DEF Present
  <2>2. img2.section[t] = img.section[t]
    BY <1>1, <2>1
  <2>3. img2.section[t].offset < img2.section[s].offset
    BY <1>1, <2>1, <2>2, OrderedSections
  <2>4. img2.section[t].offset \in Nat /\ img2.section[s].offset \in Nat
    BY <2>1, OrderedSections
  <2> QED BY <2>1, <2>3, <2>4 DEF BelowIn
<1>3. ASSUME NEW t \in Present(img) \ {s}, NEW u \in Present(img) \ {s}
      PROVE  <<t, u>> \in BelowIn(img2) <=> <<t, u>> \in BelowIn(img)
  <2>1. t \in Sections \ {s} /\ u \in Sections \ {s} /\ t \in Present(img2) /\ u \in Present(img2)
    BY <1>1 DEF Present
  <2> QED BY <1>1, <2>1 DEF BelowIn
<1>4. <<s, s>> \notin BelowIn(img2) /\ <<s, s>> \notin BelowIn(img)
  <2>1. s \in Present(img2) => img2.section[s].offset \in Nat
    BY OrderedSections
  <2>2. s \in Present(img) => img.section[s].offset \in Nat
    BY OrderedSections
  <2> QED BY <2>1, <2>2 DEF BelowIn
<1>5. /\ BelowIn(img2) \subseteq Present(img2) \X Present(img2)
      /\ BelowIn(img) \subseteq Present(img) \X Present(img)
  BY DEF BelowIn
<1>6. CASE s \notin Present(img)
  <2>1. ASSUME NEW t \in Present(img2), NEW u \in Present(img2)
        PROVE  <<t, u>> \in BelowIn(img2) <=> <<t, u>> \in BelowIn(img) \cup {<<v, s>> : v \in Present(img)}
    <3>1. <<t, u>> \in BelowIn(img) => t \in Present(img) /\ u \in Present(img)
      BY <1>5
    <3>2. <<t, u>> \in {<<v, s>> : v \in Present(img)} <=> t \in Present(img) /\ u = s
      OBVIOUS
    <3> QED BY <1>1, <1>2, <1>3, <1>4, <1>6, <3>1, <3>2
  <2>2. BelowIn(img) \cup {<<v, s>> : v \in Present(img)} \subseteq Present(img2) \X Present(img2)
    BY <1>1, <1>5
  <2>3. BelowIn(img2) = BelowIn(img) \cup {<<v, s>> : v \in Present(img)}
    BY <1>5, <2>1, <2>2
  <2> QED BY <1>6, <2>3
<1>7. CASE s \in Present(img)
  <2>1. Present(img2) = Present(img)
    BY <1>1, <1>7
  <2>2. ASSUME NEW t \in Present(img), NEW u \in Present(img)
        PROVE  <<t, u>> \in BelowIn(img2) <=> <<t, u>> \in BelowIn(img)
    <3>1. t \in Sections /\ u \in Sections
      BY DEF Present
    <3>2. img2.section[t].offset = img.section[t].offset /\ img2.section[u].offset = img.section[u].offset
      BY <1>1, <1>7, <3>1
    <3> QED BY <2>1, <3>2 DEF BelowIn
  <2>3. BelowIn(img2) = BelowIn(img)
    BY <1>5, <2>1, <2>2
  <2> QED BY <1>7, <2>3
<1> QED BY <1>6, <1>7

(* Deleting the final section changes the order of no other two.           *)
LEMMA DeletedBelow ==
  ASSUME NEW img, LaidOut(img), NEW img2, LaidOut(img2), NEW s \in Sections, Final(img, s),
         Present(img2) = Present(img) \ {s},
         \A t \in Sections \ {s} : img2.section[t] = img.section[t]
  PROVE  BelowIn(img2) = {p \in BelowIn(img) : p[2] # s}
<1>1. /\ BelowIn(img2) \subseteq Present(img2) \X Present(img2)
      /\ BelowIn(img) \subseteq Present(img) \X Present(img)
  BY DEF BelowIn
<1>2. ASSUME NEW t \in Present(img), NEW u \in Present(img)
      PROVE  <<t, u>> \in BelowIn(img2) <=> <<t, u>> \in BelowIn(img) /\ u # s
  <2>1. CASE t = s
    <3>1. <<t, u>> \notin BelowIn(img)
      BY <2>1, FinalOnTop
    <3>2. <<t, u>> \notin BelowIn(img2)
      BY <1>1, <2>1
    <3> QED BY <3>1, <3>2
  <2>2. CASE u = s
    BY <1>1, <2>2
  <2>3. CASE t # s /\ u # s
    <3>1. t \in Sections \ {s} /\ u \in Sections \ {s} /\ t \in Present(img2) /\ u \in Present(img2)
      BY <2>3 DEF Present
    <3> QED BY <2>3, <3>1 DEF BelowIn
  <2> QED BY <2>1, <2>2, <2>3
<1>3. BelowIn(img2) \subseteq Present(img) \X Present(img)
  BY <1>1
<1>4. \A p \in Present(img) \X Present(img) : p = <<p[1], p[2]>> /\ p[1] \in Present(img) /\ p[2] \in Present(img)
  OBVIOUS
<1>5. \A p \in Present(img) \X Present(img) : p \in BelowIn(img2) <=> p \in BelowIn(img) /\ p[2] # s
  BY <1>2, <1>4
<1> QED BY <1>1, <1>3, <1>5

(* The sections with a size are those with contents, and top means the     *)
(* same in the table and in the stack.                                     *)
LEMMA StackPresent ==
  ASSUME LaidOut(image)
  PROVE  /\ Stack!Present = Present(image)
         /\ \A s \in Sections : Stack!IsTop(s) <=> TopIn(image, s)
         /\ ContentsOf(image) \in [Sections -> Seq(Cells)]
<1>1. \A s \in Sections : Contents(image, s) \in Seq(Cells) /\ (Contents(image, s) # << >> <=> s \in Present(image))
  BY ContentsType
<1>2. \A s \in Sections : ContentsOf(image)[s] = Contents(image, s)
  BY DEF ContentsOf
<1>3. Stack!Present = Present(image)
  BY <1>1, <1>2 DEF Stack!Present, Present
<1>4. \A s \in Sections : Stack!IsTop(s) <=> TopIn(image, s)
  BY <1>3 DEF Stack!IsTop, TopIn
<1>5. ContentsOf(image) \in [Sections -> Seq(Cells)]
  BY <1>1 DEF ContentsOf
<1> QED BY <1>3, <1>4, <1>5

(* A restored image is the same stack.                                     *)
LEMMA StackStutters ==
  ASSUME Restored(image, image')
  PROVE  UNCHANGED <<ContentsOf(image), BelowIn(image)>>
<1>1. /\ ContentsOf(image) = [t \in Sections |-> Contents(image, t)]
      /\ ContentsOf(image)' = [t \in Sections |-> Contents(image', t)]
  BY DEF ContentsOf, Contents
<1>2. ContentsOf(image)' = ContentsOf(image)
  BY <1>1 DEF Restored
<1>3. BelowIn(image)' = BelowIn(image)
  BY DEF Restored, BelowIn, Present
<1> QED BY <1>2, <1>3

(* A successful append pushes a section or extends the one on top.         *)
LEMMA StackGrows ==
  ASSUME LaidOut(image), LaidOut(image'), NEW s \in Sections,
         NEW data \in Samples[s], data # << >>,
         Appended(image, image', s, data), OthersKept(image, image', s)
  PROVE  Stack!StackNext
<1> DEFINE c == ContentsOf(image)
           c2 == ContentsOf(image)'
<1>1. /\ c = [t \in Sections |-> Contents(image, t)]
      /\ c2 = [t \in Sections |-> Contents(image', t)]
  BY DEF ContentsOf, Contents
<1>2. data \in (UNION {Samples[t] : t \in Sections}) \ {<< >>} /\ data \in Seq(Cells)
  BY XipAssumption
<1>3. c2 = [c EXCEPT ![s] = Contents(image, s) \o data]
  <2>1. Contents(image', s) = Contents(image, s) \o data
    BY DEF Appended
  <2>2. \A t \in Sections \ {s} : Contents(image', t) = Contents(image, t)
    BY DEF OthersKept
  <2> DEFINE new == Contents(image, s) \o data
  <2> HIDE DEF new
  <2> QED BY <1>1, <2>1, <2>2 DEF new
<1>4. CASE s \notin Present(image)
  <2>1. Contents(image, s) = << >>
    BY <1>4, ContentsType
  <2>2. << >> \o data = data
    BY <1>2, ConcatEmptySeq
  <2>3. BelowIn(image') = BelowIn(image) \cup {<<t, s>> : t \in Present(image)}
    BY <1>4, AppendedBelow
  <2>4. BelowIn(image)' = BelowIn(image')
    BY DEF BelowIn, Present
  <2>5. Stack!Push(s, data)
    BY <1>3, <1>4, <2>1, <2>2, <2>3, <2>4, StackPresent DEF Stack!Push
  <2> QED BY <1>2, <2>5 DEF Stack!StackNext
<1>5. CASE s \in Present(image)
  <2>1. TopIn(image, s)
    BY <1>5, FinalOnTop DEF Appended
  <2>2. BelowIn(image') = BelowIn(image)
    BY <1>5, AppendedBelow
  <2>3. BelowIn(image)' = BelowIn(image')
    BY DEF BelowIn, Present
  <2>4. c[s] = Contents(image, s)
    BY <1>1
  <2>5. Stack!Extend(s, data)
    BY <1>3, <2>1, <2>2, <2>3, <2>4, StackPresent DEF Stack!Extend
  <2> QED BY <1>2, <2>5 DEF Stack!StackNext
<1> QED BY <1>4, <1>5

(* A successful delete pops the section on top.                            *)
LEMMA StackShrinks ==
  ASSUME LaidOut(image), LaidOut(image'), NEW s \in Sections, Final(image, s),
         Contents(image', s) = << >>, Present(image') = Present(image) \ {s},
         OthersKept(image, image', s)
  PROVE  Stack!StackNext
<1> DEFINE c == ContentsOf(image)
           c2 == ContentsOf(image)'
<1>1. /\ c = [t \in Sections |-> Contents(image, t)]
      /\ c2 = [t \in Sections |-> Contents(image', t)]
  BY DEF ContentsOf, Contents
<1>2. c2 = [c EXCEPT ![s] = << >>]
  BY <1>1 DEF OthersKept
<1>3. \A t \in Sections \ {s} : image'.section[t] = image.section[t]
  BY DEF OthersKept
<1>4. BelowIn(image') = {p \in BelowIn(image) : p[2] # s}
  BY <1>3, DeletedBelow
<1>5. BelowIn(image)' = BelowIn(image')
  BY DEF BelowIn, Present
<1>6. TopIn(image, s)
  BY FinalOnTop
<1>7. Stack!Pop(s)
  BY <1>2, <1>4, <1>5, <1>6, StackPresent DEF Stack!Pop
<1> QED BY <1>7 DEF Stack!StackNext

(* The image library implements the stack of sections its header file      *)
(* describes: every call that returns is a push, an extension of the top,  *)
(* a pop or no change.                                                     *)
THEOREM LayoutImplementsStack == LayoutSpec => ImplementsStack
<1>1. ASSUME Init
      PROVE  Stack!StackInit
  <2>1. LaidOut(image)
    BY <1>1, ImagesAssumption DEF Init
  <2>2. ASSUME NEW s \in Present(image), NEW t \in Present(image), s # t
        PROVE  <<s, t>> \in BelowIn(image) <=> <<t, s>> \notin BelowIn(image)
    <3>1. /\ image.section[s].offset \in Nat /\ image.section[t].offset \in Nat
          /\ image.section[s].offset # image.section[t].offset
      BY <2>1, <2>2, OrderedSections
    <3> QED BY <3>1 DEF BelowIn
  <2> QED BY <2>1, <2>2, StackPresent DEF Stack!StackInit
<1>2. ASSUME LaidOut(image), LaidOut(image)', [LayoutNext]_vars
      PROVE  [Stack!StackNext]_<<ContentsOf(image), BelowIn(image)>>
  <2>0. LaidOut(image')
    BY <1>2 DEF LaidOut, DisjointIn, Present, WithinImage
  <2>1. CASE UNCHANGED vars
    BY <2>1 DEF vars, ContentsOf, Contents, BelowIn, Present
  <2>2. ASSUME NEW s \in Targets, NEW allocation \in Allocations, NEW data \in Samples[s],
               AppendData(s, data, allocation)
        PROVE  Stack!StackNext \/ UNCHANGED <<ContentsOf(image), BelowIn(image)>>
    <3>1. image' = DoAppend(image, s, data, allocation).image /\ s \in Sections
      BY <2>2, AppendArguments DEF AppendData
    <3>2. /\ OthersKept(image, image', s)
          /\ Restored(image, image') \/ (data # << >> /\ Appended(image, image', s, data))
      BY <1>2, <3>1, AppendArguments, AppendResult
    <3> QED BY <1>2, <2>0, <3>1, <3>2, StackStutters, StackGrows
  <2>3. ASSUME NEW s \in Targets, DeleteSection(s)
        PROVE  Stack!StackNext \/ UNCHANGED <<ContentsOf(image), BelowIn(image)>>
    <3> DEFINE r == DoDelete(image, s)
    <3>1. image' = r.image /\ s \in Sections
      BY <2>3, XipAssumption DEF DeleteSection
    <3>2. OthersKept(image, image', s)
      BY <1>2, <3>1, DeleteResult
    <3>3. \/ image' = image
          \/ Final(image, s) /\ Contents(image', s) = << >> /\ Present(image') = Present(image) \ {s}
      BY <1>2, <3>1, DeleteResult
    <3>4. image' = image => Restored(image, image')
      BY DEF Restored
    <3> QED BY <1>2, <2>0, <3>1, <3>2, <3>3, <3>4, StackStutters, StackShrinks
  <2>4. ASSUME NEW s \in Targets, DuplicateSection(s)
        PROVE  UNCHANGED <<ContentsOf(image), BelowIn(image)>>
    BY <2>4 DEF DuplicateSection, ContentsOf, Contents, BelowIn, Present
  <2> QED BY <1>2, <2>1, <2>2, <2>3, <2>4 DEF LayoutNext
<1> QED BY <1>1, <1>2, LayoutKept, PTL DEF LayoutSpec, ImplementsStack, Stack!StackSpec
=============================================================================
