-------------------------- MODULE DeltaScan_proofs --------------------------
(***************************************************************************)
(* The rings of the reference image, for every set of runs, requests,      *)
(* reference image and place where a write may end: the file that          *)
(* p8_delta_scan_w accepts holds the blocks of all requests it has         *)
(* completed, in order and nothing else, in .rings and .dcrings.           *)
(***************************************************************************)
EXTENDS DeltaScan, XipImage_proofs

(***************************************************************************)
(* Where the blocks of a section start.  Starts walks from header to       *)
(* header; the set it yields is the least one with the first cell that is  *)
(* closed under the step from a block to the next.                         *)
(***************************************************************************)
NextOf(c, k) == k + c[k].size
Closed(c, S) == \A k \in S : NextOf(c, k) \in k + 1 .. Len(c) => NextOf(c, k) \in S
Reached(c, k) == {j \in 1 .. Len(c) : \A S \in SUBSET (1 .. Len(c)) : k \in S /\ Closed(c, S) => j \in S}
Walk(c, f) == [k \in 1 .. Len(c) |->
    LET next == k + c[k].size
    IN  {k} \cup (IF next \in k + 1 .. Len(c) THEN f[next] ELSE {})]

(* The cells reached from a cell are closed, and lie in any closed set     *)
(* that holds the cell.                                                    *)
LEMMA ReachedLeast ==
  ASSUME NEW c, Len(c) \in Nat, NEW k \in 1 .. Len(c)
  PROVE  /\ Reached(c, k) \subseteq 1 .. Len(c) /\ k \in Reached(c, k)
         /\ Closed(c, Reached(c, k))
         /\ \A S \in SUBSET (1 .. Len(c)) : k \in S /\ Closed(c, S) => Reached(c, k) \subseteq S
<1>1. Reached(c, k) \subseteq 1 .. Len(c) /\ k \in Reached(c, k)
  BY DEF Reached
<1>2. ASSUME NEW j \in Reached(c, k), NextOf(c, j) \in j + 1 .. Len(c)
      PROVE  NextOf(c, j) \in Reached(c, k)
  <2>1. j \in 1 .. Len(c) /\ NextOf(c, j) \in 1 .. Len(c)
    BY <1>1, <1>2
  <2>2. ASSUME NEW S \in SUBSET (1 .. Len(c)), k \in S, Closed(c, S)
        PROVE  NextOf(c, j) \in S
    <3>1. j \in S
      BY <2>2 DEF Reached
    <3> QED BY <3>1, <2>2, <1>2 DEF Closed
  <2> QED BY <2>1, <2>2 DEF Reached
<1>3. Closed(c, Reached(c, k))
  BY <1>2 DEF Closed
<1>4. \A S \in SUBSET (1 .. Len(c)) : k \in S /\ Closed(c, S) => Reached(c, k) \subseteq S
  BY DEF Reached
<1> QED BY <1>1, <1>3, <1>4

(* One step of the walk.                                                   *)
LEMMA ReachedStep ==
  ASSUME NEW c, Len(c) \in Nat, NEW k \in 1 .. Len(c)
  PROVE  Reached(c, k) = {k} \cup (IF NextOf(c, k) \in k + 1 .. Len(c) THEN Reached(c, NextOf(c, k)) ELSE {})
<1> DEFINE next == NextOf(c, k)
           rest == IF next \in k + 1 .. Len(c) THEN Reached(c, next) ELSE {}
<1>1. /\ Reached(c, k) \subseteq 1 .. Len(c) /\ k \in Reached(c, k) /\ Closed(c, Reached(c, k))
      /\ \A S \in SUBSET (1 .. Len(c)) : k \in S /\ Closed(c, S) => Reached(c, k) \subseteq S
  BY ReachedLeast
<1>2. CASE next \in k + 1 .. Len(c)
  <2>1. next \in 1 .. Len(c)
    BY <1>2
  <2>2. /\ Reached(c, next) \subseteq 1 .. Len(c) /\ next \in Reached(c, next) /\ Closed(c, Reached(c, next))
        /\ \A S \in SUBSET (1 .. Len(c)) : next \in S /\ Closed(c, S) => Reached(c, next) \subseteq S
    BY <2>1, ReachedLeast
  <2>3. next \in Reached(c, k)
    BY <1>1, <1>2 DEF Closed
  <2>4. Reached(c, next) \subseteq Reached(c, k)
    BY <1>1, <2>2, <2>3
  <2>5. Closed(c, {k} \cup Reached(c, next))
    BY <2>2 DEF Closed
  <2>6. Reached(c, k) \subseteq {k} \cup Reached(c, next)
    BY <1>1, <2>2, <2>5
  <2> QED BY <1>1, <1>2, <2>4, <2>6
<1>3. CASE next \notin k + 1 .. Len(c)
  <2>1. Closed(c, {k})
    BY <1>3 DEF Closed
  <2>2. Reached(c, k) \subseteq {k}
    BY <1>1, <2>1
  <2> QED BY <1>1, <1>3, <2>2
<1> QED BY <1>2, <1>3

(* The walk of Starts, a function of itself, yields the cells reached: two *)
(* such functions could only differ after a last cell where they do.       *)
LEMMA StartsReached ==
  ASSUME NEW c, Len(c) \in Nat \ {0}, c # << >>
  PROVE  Starts(c) = Reached(c, 1)
<1> DEFINE f == [k \in 1 .. Len(c) |-> Reached(c, k)]
<1>1. f = Walk(c, f)
  <2>1. ASSUME NEW k \in 1 .. Len(c)
        PROVE  f[k] = Walk(c, f)[k]
    <3>1. NextOf(c, k) \in k + 1 .. Len(c) => f[NextOf(c, k)] = Reached(c, NextOf(c, k))
      OBVIOUS
    <3> HIDE DEF f
    <3>2. Walk(c, f)[k] = {k} \cup (IF NextOf(c, k) \in k + 1 .. Len(c) THEN f[NextOf(c, k)] ELSE {})
      BY DEF Walk, NextOf
    <3>3. f[k] = Reached(c, k)
      BY DEF f
    <3> QED BY <3>1, <3>2, <3>3, ReachedStep
  <2> QED BY <2>1 DEF Walk
<1> HIDE DEF f
<1> DEFINE from == CHOOSE g : g = Walk(c, g)
<1>2. from = Walk(c, from)
  BY <1>1
<1> HIDE DEF from
<1>3. Starts(c) = from[1]
  BY DEF Starts, from, Walk
<1> DEFINE Bad == {d \in 0 .. Len(c) - 1 : from[Len(c) - d] # Reached(c, Len(c) - d)}
<1>4. Bad = {}
  <2>1. SUFFICES ASSUME Bad # {} PROVE FALSE
    OBVIOUS
  <2>2. PICK d \in Bad : \A x \in Bad : d <= x
    <3>1. Bad \subseteq Nat
      OBVIOUS
    <3> HIDE DEF Bad
    <3> QED BY <2>1, <3>1, LeastNatural
  <2> DEFINE k == Len(c) - d
  <2>3. k \in 1 .. Len(c) /\ from[k] # Reached(c, k)
    BY <2>2
  <2>4. ASSUME NEW j \in k + 1 .. Len(c) PROVE from[j] = Reached(c, j)
    <3>1. Len(c) - j \in 0 .. Len(c) - 1 /\ Len(c) - j < d /\ Len(c) - (Len(c) - j) = j
      BY <2>2, <2>3
    <3>2. d \in Nat
      BY <2>2
    <3> DEFINE x == Len(c) - j
    <3>3. x < d /\ x \in Nat
      BY <3>1
    <3>4. x \in Bad => d <= x
      BY <2>2
    <3> HIDE DEF x
    <3>5. x \notin Bad
      BY <3>2, <3>3, <3>4
    <3> QED BY <3>1, <3>5 DEF x
  <2> HIDE DEF k, Bad
  <2>5. from[k] = {k} \cup (IF NextOf(c, k) \in k + 1 .. Len(c) THEN from[NextOf(c, k)] ELSE {})
    <3>1. Walk(c, from)[k] = {k} \cup (IF NextOf(c, k) \in k + 1 .. Len(c) THEN from[NextOf(c, k)] ELSE {})
      BY <2>3 DEF Walk, NextOf
    <3> QED BY <3>1, <1>2
  <2> QED BY <2>3, <2>4, <2>5, ReachedStep
<1>5. Len(c) - 1 \notin Bad /\ Len(c) - 1 \in 0 .. Len(c) - 1 /\ Len(c) - (Len(c) - 1) = 1
  BY <1>4
<1> QED BY <1>3, <1>5

(* The starts in data that are not empty: closed, with the first cell, and *)
(* least.                                                                  *)
LEMMA StartsLeast ==
  ASSUME NEW X, NEW c \in Seq(X)
  PROVE  /\ c = << >> => Starts(c) = {}
         /\ Starts(c) \subseteq 1 .. Len(c)
         /\ c # << >> => 1 \in Starts(c)
         /\ Closed(c, Starts(c))
         /\ \A S \in SUBSET (1 .. Len(c)) : 1 \in S /\ Closed(c, S) => Starts(c) \subseteq S
<1>1. CASE c = << >>
  BY <1>1 DEF Starts, Closed
<1>2. CASE c # << >>
  <2>1. Len(c) \in Nat \ {0} /\ 1 \in 1 .. Len(c)
    BY <1>2
  <2> QED BY <1>2, <2>1, StartsReached, ReachedLeast
<1> QED BY <1>1, <1>2

(* Data that blocks fill has a last block, which ends where the data does. *)
LEMMA LastBlock ==
  ASSUME NEW X, NEW c \in Seq(X), Tiled(c), c # << >>
  PROVE  \E k \in Starts(c) : NextOf(c, k) = Len(c) + 1
<1> DEFINE D == {Len(c) - k : k \in Starts(c)}
<1>1. Starts(c) \subseteq 1 .. Len(c) /\ 1 \in Starts(c) /\ Len(c) \in Nat
  BY StartsLeast
<1>2. D \subseteq Nat /\ D # {}
  BY <1>1
<1>3. PICK d \in D : \A x \in D : d <= x
  <2> HIDE DEF D
  <2> QED BY <1>2, LeastNatural
<1>4. PICK k \in Starts(c) : d = Len(c) - k
  BY <1>3
<1>5. c[k].size \in Nat \ {0} /\ NextOf(c, k) \in Starts(c) \cup {Len(c) + 1}
  BY <1>4 DEF Tiled, NextOf
<1>6. ASSUME NextOf(c, k) \in Starts(c) PROVE FALSE
  <2>1. NextOf(c, k) > k /\ NextOf(c, k) \in 1 .. Len(c) /\ k \in 1 .. Len(c)
    BY <1>1, <1>4, <1>5, <1>6 DEF NextOf
  <2>2. Len(c) - NextOf(c, k) \in D
    BY <1>6
  <2>3. d <= Len(c) - NextOf(c, k)
    BY <1>3, <2>2
  <2> QED BY <2>1, <2>3, <1>4, <1>1
<1> QED BY <1>4, <1>5, <1>6

(* A block at the end of data that blocks fill adds one start.             *)
LEMMA StartsAppend ==
  ASSUME NEW X, NEW c \in Seq(X), NEW b \in Seq(X), Tiled(c), b # << >>, b[1].size = Len(b)
  PROVE  Starts(c \o b) = Starts(c) \cup {Len(c) + 1} /\ Tiled(c \o b)
<1> DEFINE e == c \o b
           L == Len(c)
           S == Starts(c) \cup {L + 1}
<1>1. /\ e \in Seq(X) /\ L \in Nat /\ Len(b) \in Nat \ {0} /\ Len(e) = L + Len(b)
      /\ \A k \in 1 .. L : e[k] = c[k]
      /\ e[L + 1] = b[1]
  BY EmptySeq
<1> HIDE DEF e
<1>2. /\ c = << >> => Starts(c) = {}
      /\ Starts(c) \subseteq 1 .. L
      /\ c # << >> => 1 \in Starts(c)
      /\ \A T \in SUBSET (1 .. L) : 1 \in T /\ Closed(c, T) => Starts(c) \subseteq T
  BY StartsLeast
<1>3. /\ Starts(e) \subseteq 1 .. Len(e) /\ 1 \in Starts(e) /\ Closed(e, Starts(e))
      /\ \A T \in SUBSET (1 .. Len(e)) : 1 \in T /\ Closed(e, T) => Starts(e) \subseteq T
  <2>1. e # << >>
    BY <1>1
  <2> QED BY <1>1, <2>1, StartsLeast
<1> HIDE DEF L
<1>4. \A k \in 1 .. L : NextOf(e, k) = NextOf(c, k)
  BY <1>1 DEF NextOf
<1>5. NextOf(e, L + 1) = Len(e) + 1
  BY <1>1 DEF NextOf
<1>6. \A k \in Starts(c) : c[k].size \in Nat \ {0} /\ NextOf(c, k) \in S
  BY DEF Tiled, NextOf, L
<1>7. Starts(e) \subseteq S
  <2>1. 1 \in S
    BY <1>1, <1>2 DEF L
  <2>2. S \in SUBSET (1 .. Len(e))
    BY <1>1, <1>2
  <2>3. ASSUME NEW k \in S, NextOf(e, k) \in k + 1 .. Len(e)
        PROVE  NextOf(e, k) \in S
    <3>1. k # L + 1
      BY <2>3, <1>5, <1>1
    <3>2. k \in Starts(c)
      BY <2>3, <3>1
    <3> QED BY <3>2, <1>2, <1>4, <1>6
  <2>4. Closed(e, S)
    BY <2>3 DEF Closed
  <2> HIDE DEF S
  <2> QED BY <2>1, <2>2, <2>4, <1>3
<1>8. Starts(c) \subseteq Starts(e)
  <2> DEFINE T == Starts(e) \cap (1 .. L)
  <2>1. CASE c = << >>
    BY <2>1, <1>2
  <2>2. CASE c # << >>
    <3>1. L \in Nat \ {0}
      BY <2>2, <1>1 DEF L
    <3>2. T \in SUBSET (1 .. L) /\ 1 \in T
      BY <1>3, <3>1
    <3>3. ASSUME NEW k \in T, NextOf(c, k) \in k + 1 .. L
          PROVE  NextOf(c, k) \in T
      <4>1. k \in 1 .. L /\ NextOf(e, k) = NextOf(c, k)
        BY <1>4
      <4>2. NextOf(e, k) \in k + 1 .. Len(e)
        BY <4>1, <3>3, <1>1
      <4>3. NextOf(e, k) \in Starts(e)
        BY <4>2, <1>3 DEF Closed
      <4> QED BY <4>1, <4>3, <3>3
    <3>4. Closed(c, T)
      BY <3>3 DEF Closed, L
    <3> HIDE DEF T
    <3>5. Starts(c) \subseteq T
      BY <3>2, <3>4, <1>2
    <3> QED BY <3>5 DEF T
  <2> QED BY <2>1, <2>2
<1>9. L + 1 \in Starts(e)
  <2>1. CASE c = << >>
    BY <2>1, <1>3 DEF L
  <2>2. CASE c # << >>
    <3>1. PICK k \in Starts(c) : NextOf(c, k) = L + 1
      BY <2>2, LastBlock DEF L
    <3>2. k \in 1 .. L /\ NextOf(e, k) = L + 1
      BY <3>1, <1>2, <1>4
    <3>3. NextOf(e, k) \in k + 1 .. Len(e)
      BY <3>2, <1>1
    <3> QED BY <3>1, <3>2, <3>3, <1>3, <1>8 DEF Closed
  <2> QED BY <2>1, <2>2
<1>10. Starts(e) = S
  BY <1>7, <1>8, <1>9
<1>11. ASSUME NEW k \in S
       PROVE  e[k].size \in Nat \ {0} /\ k + e[k].size \in S \cup {Len(e) + 1}
  <2>1. CASE k = L + 1
    BY <2>1, <1>1, <1>5 DEF NextOf
  <2>2. CASE k \in Starts(c)
    BY <2>2, <1>1, <1>2, <1>4, <1>6 DEF NextOf
  <2> QED BY <2>1, <2>2
<1>12. Tiled(e)
  BY <1>10, <1>11 DEF Tiled
<1> QED BY <1>10, <1>12 DEF e, L

-----------------------------------------------------------------------------
(***************************************************************************)
(* One call on an image that rings can be added to.  Nothing lies between  *)
(* its end and the last section, so that what is appended or deleted is    *)
(* exactly what the image grows or shrinks by.                             *)
(***************************************************************************)
Ready(img) == LaidOut(img) /\ Extensible(img)

(* Every cell is aligned to one cell.                                      *)
LEMMA AlignOne ==
  ASSUME NEW n \in Nat
  PROVE  Align(n, 1) = n
BY DEF Align

(* The final section is the one that reaches where any does.               *)
LEMMA FinalReaches ==
  ASSUME NEW img, LaidOut(img), NEW s \in Sections, Final(img, s), NEW e \in Nat,
         Covered(img, e - 1), \A t \in Present(img) : End(img.section[t]) <= e
  PROVE  End(img.section[s]) = e
<1>1. PICK t \in Present(img) : e - 1 \in img.section[t].offset .. End(img.section[t]) - 1
  BY DEF Covered
<1>2. t \in Sections /\ s \in Present(img)
  BY DEF Present, Final
<1>3. /\ img.section[t].offset \in Nat /\ End(img.section[t]) \in Nat
      /\ img.section[s].offset \in Nat /\ End(img.section[s]) \in Nat
      /\ img.section[s].offset < End(img.section[s])
  <2>1. /\ End(img.section[s]) = img.section[s].offset + img.section[s].size
        /\ img.section[s].size # 0 /\ img.section[s].size \in Nat
    BY <1>2, SectionType DEF LaidOut
  <2>2. /\ img.section[t].offset \in Nat /\ End(img.section[t]) \in Nat
        /\ img.section[s].offset \in Nat /\ End(img.section[s]) \in Nat
    BY <1>2, SectionType DEF LaidOut
  <2> QED BY <2>1, <2>2
<1>4. End(img.section[t]) = e
  BY <1>1, <1>3
<1>5. End(img.section[s]) <= e
  BY <1>2
<1>6. t # s => End(img.section[t]) <= img.section[s].offset
  BY <1>1, FinalIsLast
<1> QED BY <1>3, <1>4, <1>5, <1>6

(* A section that is appended to starts its new cells where the image      *)
(* ended.                                                                  *)
LEMMA StartIsEnd ==
  ASSUME NEW img, Ready(img), NEW s \in RingSections, s \in Present(img) => Final(img, s)
  PROVE  AppendStart(img, s) = img.size
<1>1. s \in Sections /\ img \in Image
  BY RingAssumption DEF RingSections, Ready, LaidOut
<1>2. img.size \in Nat
  BY <1>1, ImageType
<1>3. CASE s \in Present(img)
  <2>1. \A t \in Present(img) : End(img.section[t]) <= img.size
    BY DEF Ready, LaidOut, DisjointIn, WithinImage
  <2>2. Covered(img, img.size - 1)
    BY DEF Ready, Extensible, Abutting
  <2>3. End(img.section[s]) = img.size
    BY <1>1, <1>2, <1>3, <2>1, <2>2, FinalReaches DEF Ready
  <2> QED BY <1>3, <2>3 DEF AppendStart
<1>4. CASE s \notin Present(img)
  BY <1>2, <1>4, AlignOne DEF AppendStart, Ready, Extensible
<1> QED BY <1>3, <1>4

(* A cell stays covered when sections are added or grow.                   *)
LEMMA CoveredGrows ==
  ASSUME NEW img \in Image, NEW r \in Image, NEW i \in Int, Covered(img, i), Present(img) \subseteq Present(r),
         \A t \in Present(img) : /\ r.section[t].offset = img.section[t].offset
                                 /\ img.section[t].size <= r.section[t].size
  PROVE  Covered(r, i)
<1>1. PICK t \in Present(img) : i \in img.section[t].offset .. End(img.section[t]) - 1
  BY DEF Covered
<1>2. t \in Sections /\ t \in Present(r)
  BY DEF Present
<1>3. /\ img.section[t].offset \in Nat /\ img.section[t].size \in Nat /\ r.section[t].size \in Nat
      /\ End(img.section[t]) = img.section[t].offset + img.section[t].size
      /\ End(r.section[t]) = r.section[t].offset + r.section[t].size
  BY <1>2, SectionType
<1>4. /\ r.section[t].offset = img.section[t].offset /\ img.section[t].size <= r.section[t].size
  OBVIOUS
<1>5. i \in r.section[t].offset .. End(r.section[t]) - 1
  BY <1>1, <1>3, <1>4
<1> QED BY <1>2, <1>5 DEF Covered

(* The slots stay where sections that hold them do.                        *)
LEMMA SlotsKept ==
  ASSUME NEW img, SlotsHeld(img), NEW r, Present(img) \ RingSections \subseteq Present(r),
         \A t \in Present(img) \ RingSections : r.section[t] = img.section[t]
  PROVE  SlotsHeld(r)
<1> SUFFICES ASSUME NEW name \in RingName, NEW i \in 0 .. Elements(name) - 1
             PROVE  \E s \in Present(r) \ RingSections :
                       (SlotOf[name] + i) - LinkAddress \in r.section[s].offset .. End(r.section[s]) - 1
  BY DEF SlotsHeld
<1>1. PICK s \in Present(img) \ RingSections :
         (SlotOf[name] + i) - LinkAddress \in img.section[s].offset .. End(img.section[s]) - 1
  BY DEF SlotsHeld
<1> QED BY <1>1

(* What calls that add rings leave alone: the places of the other          *)
(* sections, and what they hold beside the slots of the rings' pointers.   *)
IsSlot(a) == \E name \in RingName : \E i \in 0 .. Elements(name) - 1 : a = (SlotOf[name] + i) - LinkAddress
KeptFrom(base, img) == \A t \in Sections \ RingSections :
    /\ img.section[t] = base.section[t]
    /\ \A a \in base.section[t].offset .. End(base.section[t]) - 1 : ~ IsSlot(a) => img.mem[a] = base.mem[a]

(* A call leaves alone what several calls in a row do.                     *)
LEMMA KeptThrough ==
  ASSUME NEW base, NEW img, NEW r, KeptFrom(base, img), KeptFrom(img, r)
  PROVE  KeptFrom(base, r)
BY DEF KeptFrom

(* A section that holds what it held, where it was, is left alone.         *)
LEMMA KeptByContents ==
  ASSUME NEW img, LaidOut(img), NEW r,
         \A t \in Sections \ RingSections : r.section[t] = img.section[t] /\ Contents(r, t) = Contents(img, t)
  PROVE  KeptFrom(img, r)
<1> SUFFICES ASSUME NEW t \in Sections \ RingSections, NEW a \in img.section[t].offset .. End(img.section[t]) - 1
             PROVE  r.mem[a] = img.mem[a]
  BY DEF KeptFrom
<1> DEFINE o == img.section[t].offset
           n == img.section[t].size
           k == a - o + 1
<1>1. o \in Nat /\ n \in Nat /\ End(img.section[t]) = o + n
  BY SectionType DEF LaidOut
<1>2. k \in 1 .. n /\ o + k - 1 = a
  BY <1>1
<1>3. /\ Contents(img, t) = [j \in 1 .. n |-> img.mem[o + j - 1]]
      /\ Contents(r, t) = [j \in 1 .. n |-> r.mem[o + j - 1]]
  BY DEF Contents
<1> HIDE DEF o, n, k
<1>4. Contents(img, t)[k] = img.mem[a] /\ Contents(r, t)[k] = r.mem[a]
  BY <1>2, <1>3
<1> QED BY <1>4

(* The program of the P8 image only ever writes zero to a slot.            *)
SlotsStay(base, img) == \A a : IsSlot(a) => img.mem[a] \in {base.mem[a], Word(0)}
LeftAlone(base, img) == KeptFrom(base, img) /\ SlotsStay(base, img)

LEMMA AloneThrough ==
  ASSUME NEW base, NEW img, NEW r, LeftAlone(base, img), LeftAlone(img, r)
  PROVE  LeftAlone(base, r)
<1>1. KeptFrom(base, r)
  BY KeptThrough DEF LeftAlone
<1>2. SlotsStay(base, r)
  BY DEF LeftAlone, SlotsStay
<1> QED BY <1>1, <1>2 DEF LeftAlone

(* A slot lies in a section of the image.                                  *)
LEMMA SlotInBuffer ==
  ASSUME NEW img, Ready(img), NEW a, IsSlot(a)
  PROVE  /\ a \in 0 .. BufferSize - 1
         /\ \E t \in Present(img) \ RingSections : a \in img.section[t].offset .. End(img.section[t]) - 1
<1>1. PICK t \in Present(img) \ RingSections : a \in img.section[t].offset .. End(img.section[t]) - 1
  BY DEF Ready, Extensible, SlotsHeld, IsSlot
<1>2. t \in Sections /\ img \in Image
  BY DEF Present, Ready, LaidOut
<1>3. img.section[t].offset \in Nat /\ End(img.section[t]) \in Nat /\ img.size \in Nat
  BY <1>2, SectionType, ImageType
<1>4. End(img.section[t]) <= img.size /\ img.size <= BufferSize
  BY DEF LaidOut, DisjointIn, WithinImage, Ready
<1>5. a \in 0 .. BufferSize - 1
  BY <1>1, <1>3, <1>4, XipAssumption
<1> QED BY <1>1, <1>5

LEMMA AloneByContents ==
  ASSUME NEW img, Ready(img), NEW r,
         \A t \in Sections \ RingSections : r.section[t] = img.section[t] /\ Contents(r, t) = Contents(img, t)
  PROVE  LeftAlone(img, r)
<1>1. KeptFrom(img, r)
  BY KeptByContents DEF Ready
<1>2. ASSUME NEW a, IsSlot(a) PROVE r.mem[a] = img.mem[a]
  <2>1. PICK t \in Present(img) \ RingSections : a \in img.section[t].offset .. End(img.section[t]) - 1
    BY <1>2, SlotInBuffer
  <2>2. t \in Sections \ RingSections
    BY DEF Present
  <2> DEFINE o == img.section[t].offset
             n == img.section[t].size
             k == a - o + 1
  <2>3. o \in Nat /\ n \in Nat /\ End(img.section[t]) = o + n
    BY <2>2, SectionType DEF LaidOut, Ready
  <2>4. k \in 1 .. n /\ o + k - 1 = a
    BY <2>1, <2>3
  <2>5. /\ Contents(img, t) = [j \in 1 .. n |-> img.mem[o + j - 1]]
        /\ Contents(r, t) = [j \in 1 .. n |-> r.mem[o + j - 1]]
    BY <2>2 DEF Contents
  <2> HIDE DEF o, n, k
  <2>6. Contents(img, t)[k] = img.mem[a] /\ Contents(r, t)[k] = r.mem[a]
    BY <2>4, <2>5
  <2> QED BY <2>2, <2>6
<1> QED BY <1>1, <1>2 DEF LeftAlone, SlotsStay

(* What an append to .rings or .dcrings that succeeds does.                *)
Grown(img, r, s, data) ==
    /\ Ready(r) /\ QuickCheck(r, TRUE) = "OK" /\ r.size = img.size + Len(data)
    /\ Present(r) = Present(img) \cup {s}
    /\ Contents(r, s) = Contents(img, s) \o data /\ LeftAlone(img, r)
    /\ \A t \in Sections \ {s} : Contents(r, t) = Contents(img, t)
LEMMA AppendGrows ==
  ASSUME NEW img, Ready(img), NEW s \in RingSections, NEW data \in Seq(Cells), data # << >>,
         NEW allocation \in 0 .. BufferSize, DoAppend(img, s, data, allocation).rc = "OK"
  PROVE  Grown(img, DoAppend(img, s, data, allocation).image, s, data)
<1> DEFINE w == Written(img, s, data, allocation)
           r == Extended(w, s, data)
<1>1. s \in Sections /\ img \in Image /\ LaidOut(img)
  BY RingAssumption DEF RingSections, Ready, LaidOut
<1>2. /\ DoAppend(img, s, data, allocation).image = r
      /\ s \in Present(img) => Final(img, s)
      /\ Align(AppendStart(img, s) + Len(data), FinalAlignment) <= allocation
  BY <1>1, AppendCases
<1>3. img.size \in Nat /\ Len(data) \in Nat \ {0}
  BY <1>1, ImageType, EmptySeq
<1>4. AppendStart(img, s) = img.size
  BY <1>2, StartIsEnd
<1>5. Align(AppendStart(img, s) + Len(data), FinalAlignment) = img.size + Len(data)
  BY <1>3, <1>4, AlignOne, RingAssumption
<1>6. img.size + Len(data) <= BufferSize
  BY <1>2, <1>3, <1>5, XipAssumption
<1>7. /\ LaidOut(r) /\ Present(r) = Present(img) \cup {s}
      /\ \A t \in Sections \ {s} : r.section[t] = img.section[t]
      /\ r.section[s].size = img.section[s].size + Len(data)
      /\ r.section[s].offset + img.section[s].size = img.size
      /\ s \in Present(img) => r.section[s].offset = img.section[s].offset
  BY <1>1, <1>2, <1>4, <1>5, <1>6, ExtendedLayout
<1>8. OthersKept(img, r, s) /\ Contents(r, s) = Contents(img, s) \o data
  BY <1>1, <1>2, <1>5, <1>6, ExtendedContents
<1>9. r.size = img.size + Len(data) /\ r.section[s].alignment = img.section[s].alignment
  <2>1. LaidOut(w) /\ w.section = img.section /\ AppendStart(w, s) = AppendStart(img, s)
    BY <1>1, <1>2, WrittenKeeps
  <2>2. w \in Image /\ AppendStart(w, s) \in Nat
    BY <1>3, <1>4, <2>1 DEF LaidOut
  <2> HIDE DEF w
  <2> QED BY <1>1, <1>5, <2>1, <2>2, ExtendedFields
<1>20. QuickCheck(r, TRUE) = "OK"
  <2>1. AppendCheck(img, s, data, allocation) = "OK"
    BY DEF DoAppend
  <2>2. QuickCheck(img, TRUE) = "OK"
    BY <2>1 DEF AppendCheck
  <2>3. r.magic = img.magic /\ r.normalized = img.normalized
    BY <1>1 DEF Extended, Written, Image
  <2> QED BY <2>2, <2>3 DEF QuickCheck
<1> HIDE DEF w, r
<1>10. r \in Image
  BY <1>7 DEF LaidOut
<1>11. /\ r.section[s].offset \in Nat /\ r.section[s].size \in Nat /\ img.section[s].size \in Nat
       /\ End(r.section[s]) = r.section[s].offset + r.section[s].size
       /\ s \notin Present(img) => img.section[s].size = 0
  BY <1>1, <1>10, SectionType
<1>12. \A t \in Present(img) : /\ r.section[t].offset = img.section[t].offset
                               /\ img.section[t].size <= r.section[t].size
  <2> TAKE t \in Present(img)
  <2>1. t \in Sections /\ img.section[t].size \in Nat
    BY <1>1, SectionType DEF Present
  <2>2. CASE t = s
    BY <1>3, <1>7, <1>11, <2>2
  <2>3. CASE t # s
    BY <1>7, <2>1, <2>3
  <2> QED BY <2>2, <2>3
<1>13. \A i \in Int : Covered(img, i) => Covered(r, i)
  BY <1>1, <1>7, <1>10, <1>12, CoveredGrows
<1>14. Abutting(img)
  BY DEF Ready, Extensible
<1>15. Covered(r, r.size - 1)
  <2> DEFINE o == r.section[s].offset
             n == img.section[s].size
             e == End(r.section[s])
  <2>a. o \in Nat /\ n \in Nat /\ o + n = img.size /\ e = o + (n + Len(data)) /\ r.size = img.size + Len(data)
    BY <1>7, <1>9, <1>11
  <2> HIDE DEF o, n, e
  <2>b. r.size - 1 \in o .. e - 1
    BY <1>3, <2>a
  <2>1. r.size - 1 \in r.section[s].offset .. End(r.section[s]) - 1
    BY <2>b DEF o, e
  <2> QED BY <1>7, <2>1 DEF Covered
<1>16. ASSUME NEW u \in RingSections \cap Present(r)
       PROVE  Covered(r, r.section[u].offset - 1)
  <2>1. u \in Sections
    BY DEF Present
  <2>2. CASE u \in Present(img)
    <3>1. Covered(img, img.section[u].offset - 1)
      BY <1>14, <2>2 DEF Abutting
    <3>2. img.section[u].offset - 1 \in Int
      BY <1>1, <2>1, SectionType
    <3> QED BY <1>12, <1>13, <2>2, <3>1, <3>2
  <2>3. CASE u \notin Present(img)
    <3>1. u = s /\ r.section[s].offset = img.size
      BY <1>7, <1>11, <2>3
    <3>2. Covered(img, img.size - 1) /\ img.size - 1 \in Int
      BY <1>3, <1>14 DEF Abutting
    <3> QED BY <1>13, <3>1, <3>2
  <2> QED BY <2>2, <2>3
<1>17. SlotsHeld(r)
  <2>1. \A t \in Present(img) \ RingSections : t \in Sections \ {s}
    BY DEF Present
  <2> QED BY <1>7, <2>1, SlotsKept DEF Ready, Extensible
<1>18. \A t \in RingSections : r.section[t].alignment = 1
  <2> TAKE t \in RingSections
  <2>1. t \in Sections /\ img.section[t].alignment = 1
    BY RingAssumption DEF RingSections, Ready, Extensible
  <2> QED BY <1>7, <1>9, <2>1
<1>22. \A t \in RingSections \ Present(r) : r.section[t].offset = 0
  <2> TAKE t \in RingSections \ Present(r)
  <2>1. t \in Sections \ {s} /\ t \notin Present(img)
    BY <1>7, RingAssumption DEF RingSections
  <2>2. img.section[t].offset = 0
    BY <2>1 DEF Ready, Extensible
  <2> QED BY <1>7, <2>1, <2>2
<1>19. Extensible(r)
  BY <1>7, <1>15, <1>16, <1>17, <1>18, <1>22 DEF Extensible, Abutting, Ready
<1>21. LeftAlone(img, r)
  <2>1. \A t \in Sections \ RingSections : t \in Sections \ {s}
    OBVIOUS
  <2> QED BY <1>1, <1>7, <1>8, <2>1, AloneByContents DEF OthersKept
<1> QED BY <1>2, <1>7, <1>8, <1>9, <1>19, <1>20, <1>21 DEF Grown, Ready, OthersKept, r

(* What deleting .rings or .dcrings does when it is present and the call   *)
(* succeeds.                                                               *)
Shrunk(img, r, s) ==
    /\ Ready(r) /\ r.size = img.size - img.section[s].size
    /\ Present(r) = Present(img) \ {s} /\ LeftAlone(img, r)
    /\ \A t \in Sections \ {s} : Contents(r, t) = Contents(img, t)
LEMMA DeleteShrinks ==
  ASSUME NEW img, Ready(img), NEW s \in RingSections, s \in Present(img), DoDelete(img, s).rc = "OK"
  PROVE  Shrunk(img, DoDelete(img, s).image, s)
<1> DEFINE w == Without(img, s)
           r == Trimmed(w)
           last == CHOOSE t \in Sections : Final(w, t)
           o == img.section[s].offset
<1>1. s \in Sections /\ img \in Image /\ LaidOut(img) /\ TOC \in Present(img) /\ TOC # s
  BY RingAssumption DEF RingSections, Ready, LaidOut, Extensible, TOC, RINGS, DCRINGS
<1>2. DoDelete(img, s).image = r /\ Final(img, s) /\ Present(img) # {s}
  <2>1. Present(img) # {s}
    BY <1>1
  <2>2. QuickCheck(img, TRUE) = "OK"
    BY DEF DoDelete
  <2>3. Final(img, s)
    BY <2>2 DEF DoDelete
  <2> QED BY <2>1, <2>2, <2>3 DEF DoDelete
<1>3. /\ LaidOut(w) /\ w \in Image
      /\ \A t \in Sections \ {s} : w.section[t] = img.section[t]
      /\ w.section[s].alignment = img.section[s].alignment
      /\ Present(w) = Present(img) \ {s}
  BY <1>1, WithoutLayout, WithoutFields
<1>4. /\ LaidOut(r) /\ OthersKept(img, r, s)
      /\ r.section = w.section /\ Present(r) = Present(img) \ {s}
  BY <1>1, <1>2, TrimmedLayout
<1>5. last \in Sections /\ Final(w, last)
  <2>1. Present(w) # {}
    BY <1>1, <1>3
  <2> HIDE DEF w
  <2> QED BY <1>3, <2>1, LastExists
<1>6. r.size = End(w.section[last])
  <2>1. r.size = Align(End(w.section[last]), FinalAlignment)
    BY <1>3 DEF Trimmed, Image
  <2>2. End(w.section[last]) \in Nat
    BY <1>3, <1>5, SectionType
  <2> QED BY <2>1, <2>2, AlignOne, RingAssumption
<1> HIDE DEF w, r, last
<1>7. /\ o \in Nat /\ img.section[s].size \in Nat /\ End(img.section[s]) = o + img.section[s].size
      /\ img.size \in Nat
  BY <1>1, SectionType, ImageType
<1>8. Covered(w, o - 1) /\ \A t \in Present(w) : End(w.section[t]) <= o
  <2>1. PICK t \in Present(img) : o - 1 \in img.section[t].offset .. End(img.section[t]) - 1
    BY DEF Ready, Extensible, Abutting, Covered
  <2>2. t # s /\ t \in Sections
    BY <1>7, <2>1 DEF Present
  <2>3. Covered(w, o - 1)
    BY <1>3, <2>1, <2>2 DEF Covered
  <2>4. ASSUME NEW u \in Present(w) PROVE End(w.section[u]) <= o
    <3>1. u \in Present(img) \ {s} /\ u \in Sections \ {s}
      BY <1>3 DEF Present
    <3> QED BY <1>1, <1>2, <1>3, <3>1, FinalIsLast
  <2> QED BY <2>3, <2>4
<1>9. r.size = o
  BY <1>3, <1>5, <1>6, <1>7, <1>8, FinalReaches
<1>10. End(img.section[s]) = img.size
  <2>1. \A t \in Present(img) : End(img.section[t]) <= img.size
    BY <1>1 DEF LaidOut, DisjointIn, WithinImage
  <2>2. Covered(img, img.size - 1)
    BY DEF Ready, Extensible, Abutting
  <2> QED BY <1>1, <1>2, <1>7, <2>1, <2>2, FinalReaches
<1>11. \A i : Covered(w, i) => Covered(r, i)
  BY <1>3, <1>4 DEF Covered
<1>12. ASSUME NEW u \in RingSections \cap Present(r)
       PROVE  Covered(r, r.section[u].offset - 1)
  <2>1. u \in Sections \ {s} /\ u \in Present(img) /\ u \in RingSections
    BY <1>4 DEF Present
  <2>2. PICK t \in Present(img) : img.section[u].offset - 1 \in img.section[t].offset .. End(img.section[t]) - 1
    BY <2>1 DEF Ready, Extensible, Abutting, Covered
  <2>3. img.section[u].offset \in Nat /\ img.section[u].offset <= o
    <3>1. img.section[u].offset \in Nat
      BY <1>1, <2>1, SectionType
    <3>2. img.section[u].offset < o \/ img.section[u].offset = o
      BY <1>2, <2>1 DEF Final
    <3> QED BY <1>7, <3>1, <3>2
  <2>4. t # s /\ t \in Sections
    BY <1>7, <2>2, <2>3 DEF Present
  <2>5. Covered(w, img.section[u].offset - 1)
    BY <1>3, <2>2, <2>4 DEF Covered
  <2> QED BY <1>3, <1>4, <1>11, <2>1, <2>5
<1>13. SlotsHeld(r)
  <2>1. \A t \in Present(img) \ RingSections : t \in Sections \ {s}
    BY DEF Present
  <2>2. Present(img) \ RingSections \subseteq Present(r)
    BY <1>4
  <2> QED BY <1>3, <1>4, <2>1, <2>2, SlotsKept DEF Ready, Extensible
<1>14. \A t \in RingSections : r.section[t].alignment = 1
  <2> TAKE t \in RingSections
  <2>1. t \in Sections /\ img.section[t].alignment = 1
    BY RingAssumption DEF RingSections, Ready, Extensible
  <2> QED BY <1>3, <1>4, <2>1
<1>18. \A t \in RingSections \ Present(r) : r.section[t].offset = 0
  <2> TAKE t \in RingSections \ Present(r)
  <2>1. CASE t = s
    BY <1>1, <1>4, <2>1 DEF w, Without, Image
  <2>2. CASE t # s
    <3>1. t \in Sections \ {s} /\ t \notin Present(img)
      BY <1>4, <2>2, RingAssumption DEF RingSections
    <3>2. img.section[t].offset = 0
      BY <3>1 DEF Ready, Extensible
    <3> QED BY <1>3, <1>4, <3>1, <3>2
  <2> QED BY <2>1, <2>2
<1>15. Extensible(r)
  BY <1>1, <1>4, <1>8, <1>9, <1>11, <1>12, <1>13, <1>14, <1>18 DEF Extensible, Abutting
<1>16. r.size = img.size - img.section[s].size
  BY <1>7, <1>9, <1>10
<1>17. LeftAlone(img, r)
  <2>1. \A t \in Sections \ RingSections : t \in Sections \ {s}
    OBVIOUS
  <2> QED BY <1>1, <1>3, <1>4, <2>1, AloneByContents DEF OthersKept
<1> QED BY <1>2, <1>4, <1>15, <1>16, <1>17 DEF Shrunk, Ready, OthersKept

(* A doubleword is written over memory or nothing changes.                 *)
LEMMA WriteCases ==
  ASSUME NEW img, NEW address, NEW data
  PROVE  \/ DoWriteDoubleword(img, address, data)
               = [img EXCEPT !.mem = Overlay(img.mem, address - LinkAddress, data)]
         \/ DoWriteDoubleword(img, address, data) = [img EXCEPT !.mem = img.mem]
BY DEF DoWriteDoubleword

(* Writing a pointer to a slot changes neither the layout nor the rings.   *)
LEMMA PointerWritten ==
  ASSUME NEW img, Ready(img), NEW name \in RingName, NEW i \in 0 .. Elements(name) - 1
  PROVE  LET r == DoWriteDoubleword(img, SlotOf[name] + i, <<Word(0)>>)
         IN  /\ Ready(r) /\ r.size = img.size /\ Present(r) = Present(img)
             /\ QuickCheck(r, TRUE) = QuickCheck(img, TRUE) /\ LeftAlone(img, r)
             /\ \A t \in RingSections : Contents(r, t) = Contents(img, t)
<1> DEFINE slot == SlotOf[name] + i
           at == slot - LinkAddress
           mem == Overlay(img.mem, at, <<Word(0)>>)
           r == DoWriteDoubleword(img, slot, <<Word(0)>>)
<1>1. img \in Image /\ LaidOut(img) /\ SlotsHeld(img)
  BY DEF Ready, LaidOut, Extensible
<1>2. PICK u \in Present(img) \ RingSections : at \in img.section[u].offset .. End(img.section[u]) - 1
  BY <1>1 DEF SlotsHeld
<1>3. u \in Sections
  BY DEF Present
<1>4. img.section[u].offset \in Nat /\ End(img.section[u]) \in Nat
  BY <1>1, <1>3, SectionType
<1>5. at \in Nat
  BY <1>2, <1>4
<1>6. <<Word(0)>> \in Seq(Cells) /\ Len(<<Word(0)>>) = 1
  BY ScanAssumption
<1>7. /\ mem \in [0 .. BufferSize - 1 -> Cells]
      /\ \A j \in 0 .. BufferSize - 1 : j # at => mem[j] = img.mem[j]
  <2>1. img.mem \in [0 .. BufferSize - 1 -> Cells]
    BY <1>1, ImageType
  <2>2. mem \in [0 .. BufferSize - 1 -> Cells]
    BY <1>5, <1>6, <2>1, OverlayCells
  <2>3. \A j \in 0 .. BufferSize - 1 : mem[j] = IF j \in at .. at + 1 - 1 THEN <<Word(0)>>[j - at + 1] ELSE img.mem[j]
    BY <1>6, <2>1 DEF Overlay
  <2>4. \A j \in 0 .. BufferSize - 1 : j # at => j \notin at .. at + 1 - 1
    BY <1>5, XipAssumption
  <2> HIDE DEF mem, at
  <2> QED BY <2>2, <2>3, <2>4
<1>8. r = img \/ r = [img EXCEPT !.mem = mem]
  <2>1. img.mem \in [0 .. BufferSize - 1 -> Cells] /\ img = [img EXCEPT !.mem = img.mem]
    BY <1>1, ImageType
  <2> HIDE DEF slot
  <2>2. r = [img EXCEPT !.mem = mem] \/ r = [img EXCEPT !.mem = img.mem]
    BY WriteCases
  <2> HIDE DEF r, mem
  <2> QED BY <2>1, <2>2
<1> HIDE DEF r, mem
<1>9. CASE r = img
  BY <1>9 DEF r, LeftAlone, KeptFrom, SlotsStay
<1>10. CASE r = [img EXCEPT !.mem = mem]
  <2>1. /\ r \in Image /\ r.mem = mem /\ r.size = img.size /\ r.section = img.section
        /\ Present(r) = Present(img) /\ DisjointIn(r)
    BY <1>1, <1>7, <1>10, MemoryReplaced DEF LaidOut
  <2>2. Ready(r)
    BY <1>1, <2>1 DEF Ready, LaidOut, Extensible, Abutting, Covered, SlotsHeld
  <2>3. ASSUME NEW t \in RingSections
        PROVE  Contents(r, t) = Contents(img, t)
    <3>1. t \in Sections
      BY RingAssumption DEF RingSections
    <3>2. ASSUME NEW k \in 1 .. img.section[t].size
          PROVE  r.mem[img.section[t].offset + k - 1] = img.mem[img.section[t].offset + k - 1]
      <4> DEFINE o == img.section[t].offset
                 e == End(img.section[t])
                 a == img.section[u].offset
                 b == End(img.section[u])
                 n == img.section[t].size
      <4>1. o \in Nat /\ e = o + n /\ n \in Nat /\ t \in Present(img)
        BY <1>1, <3>1, SectionType
      <4>2. e <= BufferSize /\ BufferSize \in Nat
        <5>1. e <= img.size /\ img.size <= BufferSize
          BY <1>1, <4>1 DEF LaidOut, DisjointIn, WithinImage
        <5>2. img.size \in Nat /\ e \in Nat /\ BufferSize \in Nat
          BY <1>1, <3>1, ImageType, SectionType, XipAssumption
        <5> HIDE DEF e
        <5> QED BY <5>1, <5>2
      <4>3. e <= a \/ b <= o
        BY <1>1, <1>2, <4>1 DEF LaidOut, DisjointIn
      <4>4. a \in Nat /\ b \in Nat /\ at \in a .. b - 1
        BY <1>2, <1>4
      <4>6. k \in 1 .. n
        OBVIOUS
      <4> HIDE DEF o, e, a, b, n, at
      <4>5. o + k - 1 \in 0 .. BufferSize - 1 /\ o + k - 1 # at
        BY <4>1, <4>2, <4>3, <4>4, <4>6
      <4> QED BY <1>7, <2>1, <4>5 DEF o
    <3> QED BY <2>1, <3>2 DEF Contents
  <2>4. QuickCheck(r, TRUE) = QuickCheck(img, TRUE)
    <3>1. r.magic = img.magic /\ r.normalized = img.normalized
      BY <1>1, <1>10 DEF Image
    <3> QED BY <3>1 DEF QuickCheck
  <2>5. ASSUME NEW t \in Sections \ RingSections, NEW a \in img.section[t].offset .. End(img.section[t]) - 1, ~ IsSlot(a)
        PROVE  r.mem[a] = img.mem[a]
    <3>1. img.section[t].offset \in Nat /\ End(img.section[t]) \in Nat
          /\ End(img.section[t]) = img.section[t].offset + img.section[t].size
          /\ (t \in Present(img) <=> img.section[t].size # 0)
      BY <1>1, SectionType
    <3>2. t \in Present(img)
      BY <3>1
    <3>3. img.size \in Nat /\ End(img.section[t]) <= img.size /\ img.size <= BufferSize
      BY <1>1, <3>2, ImageType DEF LaidOut, DisjointIn, WithinImage
    <3>4. a \in 0 .. BufferSize - 1
      BY <3>1, <3>3, XipAssumption, SMTT(30)
    <3>5. a # at
      BY <2>5 DEF IsSlot
    <3> QED BY <1>7, <2>1, <3>4, <3>5
  <2>6. KeptFrom(img, r)
    BY <2>1, <2>5 DEF KeptFrom
  <2>7. ASSUME NEW a, IsSlot(a) PROVE r.mem[a] \in {img.mem[a], Word(0)}
    <3>1. a \in 0 .. BufferSize - 1
      BY <1>1, <2>7, SlotInBuffer DEF Ready
    <3>2. CASE a # at
      BY <1>7, <2>1, <3>1, <3>2
    <3>3. CASE a = at
      <4>1. mem[at] = Word(0)
        <5>1. img.mem \in [0 .. BufferSize - 1 -> Cells]
          BY <1>1, ImageType
        <5>2. mem[at] = IF at \in at .. at + 1 - 1 THEN <<Word(0)>>[at - at + 1] ELSE img.mem[at]
          BY <1>6, <3>1, <3>3, <5>1 DEF Overlay, mem
        <5>3. at \in at .. at + 1 - 1 /\ at - at + 1 = 1
          BY <1>5
        <5> QED BY <5>2, <5>3
      <4> QED BY <2>1, <3>3, <4>1
    <3> QED BY <3>2, <3>3
  <2>8. LeftAlone(img, r)
    BY <2>6, <2>7 DEF LeftAlone, SlotsStay
  <2> QED BY <2>1, <2>2, <2>3, <2>4, <2>8 DEF r
<1> QED BY <1>8, <1>9, <1>10

-----------------------------------------------------------------------------
(***************************************************************************)
(* Adding a ring.  RingOf is the block that goes to the file: of the       *)
(* element of a #G ring the request's chiplet selects, or of any other     *)
(* ring or its override.                                                   *)
(***************************************************************************)
RingOf(req) == Rs4Block(SlotFor(req), DdOf(req.dd), req.phase, req.override, req.data)
Accepted == {req \in Requests : Arguments(req) = "OK"}
SlotIndex(req) == IF VpdType(req.name) = "none" THEN req.override ELSE VectorIndex(req.chiplet)

(* The block of an RS4 ring: a header that tells its length, and the data. *)
BlockFunction(h, data) == [k \in 1 .. 1 + Len(data) |-> IF k = 1 THEN h ELSE Body(data[k - 1])]
LEMMA BlockCells ==
  ASSUME NEW back, NEW dd, NEW phase, NEW override, NEW data \in Seq(Nat)
  PROVE  LET b == Rs4Block(back, dd, phase, override, data)
         IN  /\ Len(b) = 1 + Len(data) /\ DOMAIN b = 1 .. Len(b)
             /\ b[1] = Header(back, Len(b), dd, phase, override)
             /\ \A k \in DOMAIN data : b[k + 1] = Body(data[k])
             /\ b = BlockFunction(Header(back, 1 + Len(data), dd, phase, override), data)
<1> DEFINE h == Header(back, 1 + Len(data), dd, phase, override)
           tail == [k \in DOMAIN data |-> Body(data[k])]
           T == {Body(n) : n \in Nat} \cup {h}
<1>1. tail \in Seq(T) /\ Len(tail) = Len(data) /\ DOMAIN data = 1 .. Len(data) /\ Len(data) \in Nat
  <2>1. DOMAIN data = 1 .. Len(data) /\ Len(data) \in Nat /\ \A k \in 1 .. Len(data) : data[k] \in Nat
    OBVIOUS
  <2>2. tail = [k \in 1 .. Len(data) |-> Body(data[k])]
    BY <2>1
  <2>3. \A k \in 1 .. Len(data) : Body(data[k]) \in T
    BY <2>1
  <2> HIDE DEF T
  <2>4. [k \in 1 .. Len(data) |-> Body(data[k])] \in Seq(T)
    BY <2>1, <2>3
  <2>5. Len([k \in 1 .. Len(data) |-> Body(data[k])]) = Len(data)
    BY <2>1
  <2> HIDE DEF tail
  <2> QED BY <2>1, <2>2, <2>4, <2>5
<1>2. <<h>> \in Seq(T) /\ Len(<<h>>) = 1 /\ <<h>>[1] = h
  OBVIOUS
<1>3. \A k \in DOMAIN data : tail[k] = Body(data[k])
  OBVIOUS
<1>4. Rs4Block(back, dd, phase, override, data) = <<h>> \o tail
  BY DEF Rs4Block
<1> HIDE DEF h, tail, T
<1> DEFINE b == <<h>> \o tail
<1>5. b = [k \in 1 .. 1 + Len(data) |-> IF k <= 1 THEN <<h>>[k] ELSE tail[k - 1]]
  <2>1. tail \in Seq(T) /\ Len(tail) = Len(data) /\ Len(tail) \in Nat
    BY <1>1
  <2>2. <<h>> \o tail = [k \in 1 .. 1 + Len(tail) |-> IF k <= 1 THEN <<h>>[k] ELSE tail[k - 1]]
    BY <1>2, <2>1
  <2> QED BY <2>1, <2>2
<1>6. \A k \in 1 .. 1 + Len(data) : (IF k <= 1 THEN <<h>>[k] ELSE tail[k - 1])
                                      = (IF k = 1 THEN h ELSE Body(data[k - 1]))
  <2> TAKE k \in 1 .. 1 + Len(data)
  <2>1. CASE k = 1
    BY <1>2, <2>1
  <2>2. CASE k # 1
    <3>1. k - 1 \in DOMAIN data /\ ~ (k <= 1)
      BY <1>1, <2>2
    <3> QED BY <1>3, <2>2, <3>1
  <2> QED BY <2>1, <2>2
<1>7. b = [k \in 1 .. 1 + Len(data) |-> IF k = 1 THEN h ELSE Body(data[k - 1])]
  BY <1>5, <1>6
<1>8. Len(b) = 1 + Len(data)
  BY <1>1, <1>2
<1> HIDE DEF b
<1>9. DOMAIN b = 1 .. Len(b) /\ b[1] = h
  BY <1>1, <1>7, <1>8
<1>10. \A k \in DOMAIN data : b[k + 1] = Body(data[k])
  BY <1>1, <1>7
<1> QED BY <1>4, <1>7, <1>8, <1>9, <1>10 DEF b, h, BlockFunction

(* What main has accepted.                                                 *)
LEMMA AcceptedFacts ==
  ASSUME NEW req \in Accepted
  PROVE  /\ req \in Requests /\ req.name \in RingName /\ req.override \in {0, 1} /\ req.data \in Seq(Nat)
         /\ req.name # NoName
         /\ VpdType(req.name) # "none" => req.override = 0
         /\ SlotFor(req) = SlotOf[req.name] + SlotIndex(req)
         /\ SlotOf[req.name] \in Nat /\ SlotIndex(req) \in 0 .. Elements(req.name) - 1
         /\ RingOf(req) \in Seq(Cells) /\ RingOf(req) # << >>
         /\ Len(RingOf(req)) = 1 + Len(req.data)
         /\ RingOf(req)[1] = Header(SlotFor(req), Len(RingOf(req)), DdOf(req.dd), req.phase, req.override)
         /\ \A k \in DOMAIN req.data : RingOf(req)[k + 1] = Body(req.data[k])
<1>1. /\ req \in Requests /\ Arguments(req) = "OK"
      /\ req.name \in RingName /\ req.override \in Nat /\ req.chiplet \in Nat /\ req.data \in Seq(Nat)
  BY ScanAssumption DEF Accepted
<1>2. req.override \in {0, 1}
  BY <1>1 DEF Arguments
<1>3. VpdType(req.name) # "none" => req.override = 0
  <2>1. VpdType(req.name) \in {"G", "R", "none"}
    BY DEF VpdType
  <2> QED BY <1>1, <1>2, <2>1 DEF Arguments
<1>4. SlotOf[req.name] \in Nat /\ req.name # NoName
  BY <1>1, RingAssumption
<1>5. SlotIndex(req) \in 0 .. Elements(req.name) - 1 /\ SlotIndex(req) \in 0 .. MaxElements - 1
  <2>1. CidExLow \in Nat /\ CidExHigh \in CidExLow .. CidExLow + 31
    BY RingAssumption DEF MaxElements
  <2>2. CASE VpdType(req.name) = "none"
    BY <1>2, <2>2 DEF SlotIndex, Elements, MaxElements
  <2>3. CASE VpdType(req.name) # "none"
    <3>1. VectorIndex(req.chiplet) \in 0 .. CidExHigh - CidExLow
      BY <1>1, <2>1 DEF VectorIndex
    <3> QED BY <2>1, <2>3, <3>1 DEF SlotIndex, Elements, MaxElements
  <2> QED BY <2>2, <2>3
<1>6. SlotFor(req) = SlotOf[req.name] + SlotIndex(req)
  BY DEF SlotFor, SlotIndex
<1>7. RingOf(req) \in Seq(Cells)
  BY <1>1, <1>5, <1>6, ScanAssumption DEF RingOf
<1>8. /\ Len(RingOf(req)) = 1 + Len(req.data)
      /\ RingOf(req)[1] = Header(SlotFor(req), Len(RingOf(req)), DdOf(req.dd), req.phase, req.override)
      /\ \A k \in DOMAIN req.data : RingOf(req)[k + 1] = Body(req.data[k])
  BY <1>1, BlockCells DEF RingOf
<1>9. RingOf(req) # << >>
  <2>1. Len(req.data) \in Nat
    BY <1>1
  <2>2. Len(RingOf(req)) # 0
    BY <1>8, <2>1
  <2> QED BY <2>2
<1> QED BY <1>1, <1>2, <1>3, <1>4, <1>5, <1>6, <1>7, <1>8, <1>9

(* What write_rs4_ring_to_ref_image does in memory: a block more in one of *)
(* the two sections, and the other one as it was.                          *)
RingAdded(img, r, s, block) ==
    /\ Ready(r) /\ QuickCheck(r, TRUE) = "OK" /\ r.size = img.size + Len(block)
    /\ Contents(r, s) = Contents(img, s) \o block /\ LeftAlone(img, r)
    /\ \A t \in RingSections \ {s} : Contents(r, t) = Contents(img, t)

(* The steps of a ring that goes to .rings.                                *)
LEMMA AddToRingsSteps ==
  ASSUME NEW img, NEW req, AddToRings(img, req).rc = "OK"
  PROVE  LET off == TakeOff(img, RINGS, BufferSize)
             app == DoAppend(off.image, RINGS, BlockOf(req), RefMax)
             put == PutBack(app.image, img, RINGS, RefMax)
         IN  /\ off.rc = "OK" /\ app.rc = "OK" /\ put.rc = "OK"
             /\ AddToRings(img, req).image = put.image
BY DEF AddToRings, Answer, Validated

(* TakeOff and PutBack: .dcrings deleted and appended again, or nothing    *)
(* done when there is no .dcrings.                                         *)
LEMMA TakenOff ==
  ASSUME NEW img, NEW size, TakeOff(img, RINGS, size).rc = "OK"
  PROVE  LET off == TakeOff(img, RINGS, size).image
         IN  \/ DCRINGS \notin Present(img) /\ off = img
             \/ DCRINGS \in Present(img) /\ DoDelete(img, DCRINGS).rc = "OK" /\ off = DoDelete(img, DCRINGS).image
<1>1. CASE DCRINGS \notin Present(img)
  BY <1>1 DEF TakeOff, Answer
<1>2. CASE DCRINGS \in Present(img)
  <2>1. CASE img.section[DCRINGS].size > size
    BY <1>2, <2>1 DEF TakeOff, Answer
  <2>2. CASE ~ (img.section[DCRINGS].size > size)
    <3>1. "rc" \in DOMAIN DoDelete(img, DCRINGS)
      BY DEF DoDelete
    <3>2. TakeOff(img, RINGS, size) = IF DoDelete(img, DCRINGS).rc = "OK" THEN DoDelete(img, DCRINGS)
                                      ELSE [DoDelete(img, DCRINGS) EXCEPT !.rc = "SECTION_DELETE"]
      BY <1>2, <2>2 DEF TakeOff, Mapped
    <3> QED BY <1>2, <3>1, <3>2
  <2> QED BY <2>1, <2>2
<1> QED BY <1>1, <1>2

(* What is put back is what had been in .dcrings.                          *)
LEMMA HasBeenPutBack ==
  ASSUME NEW img, NEW old, NEW max, PutBack(img, old, RINGS, max).rc = "OK"
  PROVE  LET put == PutBack(img, old, RINGS, max).image
             app == DoAppend(img, DCRINGS, Contents(old, DCRINGS), max)
         IN  \/ DCRINGS \notin Present(old) /\ put = img
             \/ DCRINGS \in Present(old) /\ app.rc = "OK" /\ put = app.image
<1> DEFINE app == DoAppend(img, DCRINGS, Contents(old, DCRINGS), max)
           r == [rc |-> app.rc, image |-> app.image]
<1>1. CASE DCRINGS \notin Present(old)
  BY <1>1 DEF PutBack, Answer
<1>2. CASE DCRINGS \in Present(old)
  <2>1. PutBack(img, old, RINGS, max) = IF r.rc = "OK" THEN r ELSE [r EXCEPT !.rc = AppendCode(r.rc)]
    BY <1>2 DEF PutBack, Mapped
  <2>2. r.rc = app.rc /\ r.image = app.image /\ "rc" \in DOMAIN r
    OBVIOUS
  <2>3. r.rc # "OK" => AppendCode(r.rc) # "OK"
    BY DEF AppendCode
  <2> HIDE DEF r, app
  <2>4. r.rc = "OK"
    BY <2>1, <2>2, <2>3
  <2> QED BY <1>2, <2>1, <2>2, <2>4 DEF app
<1> QED BY <1>1, <1>2

(* A ring that is not of the VPD goes to the end of .rings, and .dcrings   *)
(* comes back as it was.                                                   *)
LEMMA AddedToRings ==
  ASSUME NEW img, Ready(img), NEW req \in Accepted, VpdType(req.name) = "none", AddRing(img, req).rc = "OK"
  PROVE  RingAdded(img, AddRing(img, req).image, RINGS, RingOf(req))
<1> DEFINE block == RingOf(req)
           off == TakeOff(img, RINGS, BufferSize)
           app == DoAppend(off.image, RINGS, BlockOf(req), RefMax)
           put == PutBack(app.image, img, RINGS, RefMax)
           r == AddRing(img, req).image
           old == Contents(img, DCRINGS)
<1>1. block \in Seq(Cells) /\ block # << >> /\ Len(block) \in Nat
  BY AcceptedFacts
<1>2. BlockOf(req) = block
  BY DEF BlockOf, RingOf, SlotFor
<1>3. off.rc = "OK" /\ app.rc = "OK" /\ put.rc = "OK" /\ r = put.image
  BY AddToRingsSteps DEF AddRing
<1>4. RINGS \in RingSections /\ DCRINGS \in RingSections /\ RINGS # DCRINGS /\ RingSections \subseteq Sections
  BY RingAssumption DEF RingSections, RINGS, DCRINGS
<1>5. \A t \in RingSections \ {RINGS} : t = DCRINGS
  BY DEF RingSections
<1>6. img \in Image /\ LaidOut(img) /\ RefMax \in 0 .. BufferSize
  BY ScanAssumption DEF Ready, LaidOut
<1>7. CASE DCRINGS \notin Present(img)
  <2>1. off.image = img
    BY <1>3, <1>7, TakenOff
  <2>2. app = DoAppend(img, RINGS, block, RefMax)
    BY <1>2, <2>1
  <2> HIDE DEF off, block, r
  <2>3. Grown(img, app.image, RINGS, block)
    BY <1>1, <1>3, <1>4, <1>6, <2>2, AppendGrows
  <2> HIDE DEF app
  <2>4. r = app.image
    BY <1>3, <1>7, HasBeenPutBack
  <2> QED BY <1>4, <1>5, <2>3, <2>4 DEF Grown, RingAdded, r, block
<1>8. CASE DCRINGS \in Present(img)
  <2> DEFINE r1 == DoDelete(img, DCRINGS).image
             r2 == app.image
  <2>1. DoDelete(img, DCRINGS).rc = "OK" /\ off.image = r1
    BY <1>3, <1>8, TakenOff
  <2>2. app = DoAppend(r1, RINGS, block, RefMax)
    BY <1>2, <2>1
  <2> HIDE DEF off, block, r
  <2>3. Shrunk(img, r1, DCRINGS)
    BY <1>4, <1>8, <2>1, DeleteShrinks
  <2> HIDE DEF r1
  <2>4. Grown(r1, r2, RINGS, block)
    <3>1. Ready(r1)
      BY <2>3 DEF Shrunk
    <3> QED BY <1>1, <1>3, <1>4, <1>6, <2>2, <3>1, AppendGrows
  <2> HIDE DEF app
  <2>5. old \in Seq(Cells) /\ old # << >> /\ Len(old) = img.section[DCRINGS].size
    BY <1>4, <1>6, <1>8, ContentsType
  <2> HIDE DEF old
  <2>6. /\ DoAppend(r2, DCRINGS, old, RefMax).rc = "OK"
        /\ r = DoAppend(r2, DCRINGS, old, RefMax).image
    BY <1>3, <1>8, HasBeenPutBack DEF old
  <2>7. Grown(r2, r, DCRINGS, old)
    <3>1. Ready(r2)
      BY <2>4 DEF Grown
    <3> HIDE DEF r2
    <3> QED BY <1>4, <1>6, <2>5, <2>6, <3>1, AppendGrows
  <2>8. Contents(r2, DCRINGS) = << >>
    <3>1. LaidOut(r2) /\ DCRINGS \notin Present(r2)
      BY <1>4, <2>3, <2>4 DEF Shrunk, Grown, Ready
    <3> QED BY <1>4, <3>1, ContentsType
  <2> HIDE DEF r2
  <2>9. Contents(r, DCRINGS) = old
    BY <2>5, <2>7, <2>8 DEF Grown
  <2>10. Contents(r, RINGS) = Contents(img, RINGS) \o block
    BY <1>4, <2>3, <2>4, <2>7 DEF Grown, Shrunk
  <2>11. r.size = img.size + Len(block)
    <3>1. img.size \in Nat /\ img.section[DCRINGS].size \in Nat
      BY <1>4, <1>6, ImageType, SectionType
    <3>2. /\ r1.size = img.size - img.section[DCRINGS].size /\ r2.size = r1.size + Len(block)
          /\ r.size = r2.size + img.section[DCRINGS].size
      BY <2>3, <2>4, <2>5, <2>7 DEF Grown, Shrunk
    <3> QED BY <1>1, <3>1, <3>2
  <2>12. LeftAlone(img, r)
    <3>1. LeftAlone(img, r1) /\ LeftAlone(r1, r2) /\ LeftAlone(r2, r)
      BY <2>3, <2>4, <2>7 DEF Grown, Shrunk
    <3> HIDE DEF app
    <3> QED BY <3>1, AloneThrough
  <2> QED BY <1>5, <2>7, <2>9, <2>10, <2>11, <2>12 DEF Grown, RingAdded, r, block, old
<1> QED BY <1>7, <1>8

(* The steps of write_ring_block_to_image for a block of .dcrings.         *)
LEMMA WriteToDcringsSteps ==
  ASSUME NEW img, NEW name \in RingName, NEW block, NEW idx \in Nat, NEW size,
         WriteRingBlock(img, name, block, idx, 0, 0, RefMax, DCRINGS, size).rc = "OK"
  PROVE  LET back == SlotOf[name] + idx
             app  == DoAppend(img, DCRINGS, [block EXCEPT ![1].back = back], RefMax)
         IN  /\ app.rc = "OK"
             /\ WriteRingBlock(img, name, block, idx, 0, 0, RefMax, DCRINGS, size).image
                   = DoWriteDoubleword(app.image, back, <<Word(0)>>)
<1> DEFINE back == SlotOf[name] + idx
           ring == [block EXCEPT ![1].back = back]
           app == DoAppend(img, DCRINGS, ring, RefMax)
           put == PutBack(app.image, img, DCRINGS, RefMax)
           linked == Link(put.image, DCRINGS, app.offset, back)
<1>1. RefMax - 0 = RefMax
  BY ScanAssumption, XipAssumption
<1>2. BackPointer(name, idx, 0, 0) = back
  BY RingAssumption DEF BackPointer
<1>0. DCRINGS # RINGS
  BY DEF DCRINGS, RINGS
<1>3. TakeOff(img, DCRINGS, size) = Answer("OK", img) /\ \A i : PutBack(i, img, DCRINGS, RefMax) = Answer("OK", i)
  BY <1>0 DEF TakeOff, PutBack
<1>4. name # NoName
  BY RingAssumption
<1> DEFINE back2 == BackPointer(name, idx, 0, 0)
           off2 == TakeOff(img, DCRINGS, size)
           app2 == DoAppend(off2.image, DCRINGS, [block EXCEPT ![1].back = back2], RefMax - 0)
           put2 == PutBack(app2.image, img, DCRINGS, RefMax)
           linked2 == Link(put2.image, DCRINGS, app2.offset, back2)
           w == WriteRingBlock(img, name, block, idx, 0, 0, RefMax, DCRINGS, size)
<1>5. app2.rc = "OK" /\ linked2.rc = "OK" /\ w.image = linked2.image
  BY <1>0, <1>4 DEF WriteRingBlock, Answer, Validated, AppendCode
<1>6. off2.image = img /\ back2 = back
  BY <1>2, <1>3 DEF Answer
<1>7. app2 = app
  BY <1>1, <1>6
<1>8. put2.image = app.image
  <2> HIDE DEF app2, app
  <2> QED BY <1>3, <1>7 DEF Answer
<1> HIDE DEF back2, off2, app2, put2, back, app, w
<1>9. linked2 = Link(app.image, DCRINGS, app.offset, back)
  BY <1>6, <1>7, <1>8
<1> HIDE DEF linked2
<1>10. linked2.image = DoWriteDoubleword(app.image, back, <<Word(0)>>)
  BY <1>0, <1>5, <1>9 DEF Link, Answer
<1> QED BY <1>5, <1>7, <1>10 DEF back, app, w

(* The call yields a return code on every path.                            *)
LEMMA WriteYieldsAnswer ==
  ASSUME NEW img, NEW name \in RingName, NEW block, NEW idx, NEW size
  PROVE  "rc" \in DOMAIN WriteRingBlock(img, name, block, idx, 0, 0, RefMax, DCRINGS, size)
<1>1. DCRINGS # RINGS /\ name # NoName
  BY RingAssumption DEF DCRINGS, RINGS
<1>2. \A i : /\ TakeOff(i, DCRINGS, size) = Answer("OK", i)
             /\ PutBack(i, img, DCRINGS, RefMax) = Answer("OK", i)
  BY <1>1 DEF TakeOff, PutBack
<1>3. \A i, offset, back : "rc" \in DOMAIN Link(i, DCRINGS, offset, back)
  BY DEF Link, Answer
<1> DEFINE back == BackPointer(name, idx, 0, 0)
           off == TakeOff(img, DCRINGS, size)
           app == DoAppend(off.image, DCRINGS, [block EXCEPT ![1].back = back], RefMax - 0)
           put == PutBack(app.image, img, DCRINGS, RefMax)
           linked == Link(put.image, DCRINGS, app.offset, back)
           w == WriteRingBlock(img, name, block, idx, 0, 0, RefMax, DCRINGS, size)
<1>4. \/ w = Answer("KEYWORD_NOT_FOUND", img) \/ w = off \/ w = put \/ w = linked
      \/ w = Answer(AppendCode(app.rc), app.image) \/ w = Validated(put.image) \/ w = Validated(linked.image)
  BY <1>1 DEF WriteRingBlock
<1>5. "rc" \in DOMAIN off /\ "rc" \in DOMAIN put /\ "rc" \in DOMAIN linked
  BY <1>2, <1>3 DEF Answer
<1> HIDE DEF off, app, put, linked, w
<1>6. \A rc, i : "rc" \in DOMAIN Answer(rc, i)
  BY DEF Answer
<1>7. \A i : "rc" \in DOMAIN Validated(i)
  BY DEF Validated, Answer
<1>8. "rc" \in DOMAIN w
  BY <1>4, <1>5, <1>6, <1>7
<1> QED BY <1>8 DEF w

(* A #G ring goes to the end of .dcrings, and .rings is as it was: the     *)
(* forward pointer is written to a slot of the ring's own.                 *)
LEMMA AddedToDcrings ==
  ASSUME NEW img, Ready(img), NEW req \in Accepted, VpdType(req.name) # "none", AddRing(img, req).rc = "OK"
  PROVE  RingAdded(img, AddRing(img, req).image, DCRINGS, RingOf(req))
<1> DEFINE block == Rs4Block(0, DdOf(req.dd), req.phase, 0, req.data)
           idx == VectorIndex(req.chiplet)
           write == WriteRingBlock(img, req.name, block, idx, 0, 0, RefMax, DCRINGS, RingBuffer)
           back == SlotOf[req.name] + idx
           ring == [block EXCEPT ![1].back = back]
           app == DoAppend(img, DCRINGS, ring, RefMax)
           r == AddRing(img, req).image
<1>1. /\ req.name \in RingName /\ req.data \in Seq(Nat) /\ req.override = 0
      /\ SlotFor(req) = back /\ idx \in 0 .. Elements(req.name) - 1 /\ SlotOf[req.name] \in Nat
      /\ RingOf(req) \in Seq(Cells) /\ RingOf(req) # << >>
  BY AcceptedFacts DEF SlotIndex
<1>2. idx \in Nat
  BY RingAssumption, ScanAssumption DEF VectorIndex, Accepted
<1>3. ring = RingOf(req)
  <2> DEFINE n == 1 + Len(req.data)
             h0 == Header(0, n, DdOf(req.dd), req.phase, 0)
             h1 == Header(back, n, DdOf(req.dd), req.phase, 0)
  <2>1. block = BlockFunction(h0, req.data)
    BY <1>1, BlockCells
  <2>2. RingOf(req) = BlockFunction(h1, req.data)
    BY <1>1, BlockCells DEF RingOf
  <2>3. [h0 EXCEPT !.back = back] = h1
    BY DEF Header
  <2>4. 1 \in 1 .. n
    BY <1>1
  <2> HIDE DEF h0, h1, block, back
  <2>5. block[1] = h0
    BY <2>1, <2>4 DEF BlockFunction
  <2>6. ring = [block EXCEPT ![1] = h1]
    BY <2>3, <2>5
  <2> QED BY <2>1, <2>2, <2>6 DEF BlockFunction
<1>4. write.rc = "OK" /\ r = write.image
  <2> DEFINE v == WriteVpdRingIpl(img, RefMax, req, DdOf(req.dd), req.phase, req.name, DCRINGS)
  <2>1. "rc" \in DOMAIN write
    BY <1>1, WriteYieldsAnswer
  <2>2. \/ v = Answer("KEYWORD_NOT_FOUND", img) \/ v = Answer("RING_TOO_LARGE", img)
        \/ v = IF write.rc = "OK" THEN write ELSE [write EXCEPT !.rc = VpdBlockCode(write.rc)]
    BY DEF WriteVpdRingIpl, Mapped
  <2>3. AddRing(img, req) = IF v.rc = "OK" THEN v ELSE [v EXCEPT !.rc = "GENERIC"]
    BY DEF AddRing, Mapped
  <2>4. write.rc # "OK" => VpdBlockCode(write.rc) # "OK"
    BY DEF VpdBlockCode
  <2> HIDE DEF write, v
  <2>5. "rc" \in DOMAIN v /\ (v.rc = "OK" => write.rc = "OK" /\ v = write)
    BY <2>1, <2>2, <2>4 DEF Answer
  <2>6. v.rc = "OK"
    BY <2>3, <2>5
  <2> QED BY <2>3, <2>5, <2>6
<1>5. app.rc = "OK" /\ r = DoWriteDoubleword(app.image, back, <<Word(0)>>)
  <2> HIDE DEF block, idx
  <2> QED BY <1>1, <1>2, <1>4, WriteToDcringsSteps
<1> HIDE DEF r, block
<1>6. DCRINGS \in RingSections /\ RINGS # DCRINGS /\ RingSections \subseteq Sections
  BY RingAssumption DEF RingSections, RINGS, DCRINGS
<1>7. Grown(img, app.image, DCRINGS, RingOf(req))
  BY <1>1, <1>3, <1>5, <1>6, AppendGrows, ScanAssumption
<1> HIDE DEF app, ring
<1>8. /\ Ready(r) /\ r.size = app.image.size /\ QuickCheck(r, TRUE) = QuickCheck(app.image, TRUE)
      /\ LeftAlone(app.image, r)
      /\ \A t \in RingSections : Contents(r, t) = Contents(app.image, t)
  <2>1. Ready(app.image)
    BY <1>7 DEF Grown
  <2> HIDE DEF idx
  <2> QED BY <1>1, <1>5, <2>1, PointerWritten
<1>9. LeftAlone(img, r)
  BY <1>7, <1>8, AloneThrough DEF Grown
<1> QED BY <1>6, <1>7, <1>8, <1>9 DEF Grown, RingAdded, r

(* Adding a ring, whichever section it goes to.                            *)
LEMMA AddRingAdds ==
  ASSUME NEW img, Ready(img), NEW req \in Accepted, AddRing(img, req).rc = "OK"
  PROVE  RingAdded(img, AddRing(img, req).image, RingSection(req.name), RingOf(req))
BY AddedToRings, AddedToDcrings DEF RingSection

-----------------------------------------------------------------------------
(***************************************************************************)
(* The sections reflect the requests: pos says where the block of each     *)
(* starts.  Blocks of one section are in the order of their requests, and  *)
(* nothing else starts in it.                                              *)
(***************************************************************************)
Goes(s, rings) == {k \in DOMAIN rings : RingSection(rings[k].name) = s}
Holds(c, p, block) ==
    /\ p + Len(block) - 1 <= Len(c)
    /\ \A i \in 1 .. Len(block) : c[p + i - 1] = block[i]
Placed(c, s, rings, pos) ==
    /\ Tiled(c) /\ Starts(c) = {pos[k] : k \in Goes(s, rings)}
    /\ \A k \in Goes(s, rings) : Holds(c, pos[k], RingOf(rings[k]))
    /\ \A j, k \in Goes(s, rings) : j < k => pos[j] < pos[k]
Reflects(img, rings) == \E pos \in [DOMAIN rings -> Nat \ {0}] :
    \A s \in RingSections : Placed(Contents(img, s), s, rings, pos)

(* Sections that hold nothing reflect no request.                          *)
LEMMA EmptyReflects ==
  ASSUME NEW img, \A s \in RingSections : Contents(img, s) = << >>
  PROVE  Reflects(img, << >>)
<1> DEFINE pos == [k \in {} |-> 1]
<1>1. DOMAIN << >> = {} /\ \A s : Goes(s, << >>) = {}
  BY DEF Goes
<1>2. Starts(<< >>) = {} /\ Tiled(<< >>)
  BY DEF Starts, Tiled
<1>3. \A s \in RingSections : Placed(Contents(img, s), s, << >>, pos)
  BY <1>1, <1>2 DEF Placed
<1>4. pos \in [DOMAIN << >> -> Nat \ {0}]
  BY <1>1
<1> HIDE DEF pos
<1> QED BY <1>3, <1>4 DEF Reflects

MorePlaces(pos, n, p) == [k \in 1 .. n + 1 |-> IF k = n + 1 THEN p ELSE pos[k]]

(* The places after a request more, in the section it goes to and in the   *)
(* other one.                                                              *)
LEMMA PlacedMore ==
  ASSUME NEW c \in Seq(Cells), NEW s \in RingSections, NEW rings \in Seq(Accepted), NEW req \in Accepted,
         NEW pos \in [DOMAIN rings -> Nat \ {0}], Placed(c, s, rings, pos), NEW p \in Nat \ {0},
         RingSection(req.name) = s => p = Len(c) + 1
  PROVE  /\ RingSection(req.name) = s => Placed(c \o RingOf(req), s, Append(rings, req), MorePlaces(pos, Len(rings), p))
         /\ RingSection(req.name) # s => Placed(c, s, Append(rings, req), MorePlaces(pos, Len(rings), p))
<1> DEFINE n == Len(rings)
           pos2 == MorePlaces(pos, n, p)
           rings2 == Append(rings, req)
           K == Goes(s, rings)
           K2 == Goes(s, rings2)
           block == RingOf(req)
<1>1. /\ n \in Nat /\ DOMAIN rings = 1 .. n /\ DOMAIN rings2 = 1 .. n + 1
      /\ \A k \in 1 .. n : rings2[k] = rings[k] /\ rings[k] \in Accepted
      /\ rings2[n + 1] = req
  OBVIOUS
<1>2. /\ \A k \in 1 .. n : pos2[k] = pos[k] /\ pos[k] \in Nat \ {0}
      /\ pos2[n + 1] = p
  <2>1. n + 1 \in 1 .. n + 1 /\ \A k \in 1 .. n : k \in 1 .. n + 1 /\ k # n + 1
    BY <1>1
  <2> HIDE DEF n
  <2>2. /\ \A k \in 1 .. n : pos2[k] = pos[k]
        /\ pos2[n + 1] = p
    BY <2>1 DEF MorePlaces
  <2> QED BY <1>1, <2>2
<1> HIDE DEF n, pos2, rings2, block
<1>3. K \subseteq 1 .. n /\ K2 = K \cup (IF RingSection(req.name) = s THEN {n + 1} ELSE {})
  BY <1>1 DEF Goes
<1>4. /\ Tiled(c) /\ Starts(c) = {pos[k] : k \in K}
      /\ \A k \in K : Holds(c, pos[k], RingOf(rings[k]))
      /\ \A j, k \in K : j < k => pos[j] < pos[k]
  BY DEF Placed
<1> HIDE DEF K, K2
<1>5. CASE RingSection(req.name) # s
  <2>1. K2 = K
    BY <1>3, <1>5
  <2>2. Starts(c) = {pos2[k] : k \in K2}
    BY <1>2, <1>3, <1>4, <2>1
  <2>3. \A k \in K2 : Holds(c, pos2[k], RingOf(rings2[k]))
    BY <1>1, <1>2, <1>3, <1>4, <2>1
  <2>4. \A j, k \in K2 : j < k => pos2[j] < pos2[k]
    BY <1>2, <1>3, <1>4, <2>1
  <2> QED BY <1>4, <1>5, <2>2, <2>3, <2>4 DEF Placed, K2, rings2, pos2, n
<1>6. CASE RingSection(req.name) = s
  <2> DEFINE c2 == c \o block
             m == Len(c)
  <2>1. block \in Seq(Cells) /\ block # << >> /\ block[1].size = Len(block) /\ Len(block) \in Nat
    <3>1. block \in Seq(Cells) /\ block # << >>
      BY AcceptedFacts DEF block
    <3>2. block[1] = Header(SlotFor(req), Len(block), DdOf(req.dd), req.phase, req.override)
      BY AcceptedFacts DEF block
    <3> QED BY <3>1, <3>2 DEF Header
  <2>2. Starts(c2) = Starts(c) \cup {m + 1} /\ Tiled(c2)
    BY <1>4, <2>1, StartsAppend
  <2>3. /\ m \in Nat /\ Len(c2) = m + Len(block)
        /\ \A i \in 1 .. m : c2[i] = c[i]
        /\ \A i \in 1 .. Len(block) : c2[m + i] = block[i]
    BY <2>1
  <2> HIDE DEF c2, m
  <2>4. p = m + 1
    BY <1>6 DEF m
  <2>5. K2 = K \cup {n + 1}
    BY <1>3, <1>6
  <2>6. Starts(c2) = {pos2[k] : k \in K2}
    BY <1>2, <1>3, <1>4, <2>2, <2>4, <2>5
  <2>7. \A k \in K : pos[k] <= m
    <3>1. Starts(c) \subseteq 1 .. m
      BY StartsLeast DEF m
    <3> QED BY <1>4, <3>1, <2>3
  <2>8. ASSUME NEW k \in K2 PROVE Holds(c2, pos2[k], RingOf(rings2[k]))
    <3>1. CASE k = n + 1
      <4>1. Holds(c2, m + 1, block)
        <5>1. m + 1 + Len(block) - 1 <= Len(c2)
          BY <2>1, <2>3
        <5>2. \A i \in 1 .. Len(block) : m + 1 + i - 1 = m + i
          BY <2>1, <2>3
        <5> QED BY <5>1, <5>2, <2>3 DEF Holds
      <4> QED BY <1>1, <1>2, <2>4, <3>1, <4>1 DEF block
    <3>2. CASE k \in K
      <4> DEFINE q == pos[k]
                 b == RingOf(rings[k])
      <4>1. /\ k \in 1 .. n /\ q \in Nat \ {0} /\ Len(b) \in Nat
            /\ q + Len(b) - 1 <= m /\ \A i \in 1 .. Len(b) : c[q + i - 1] = b[i]
        <5>1. k \in 1 .. n
          BY <1>3, <3>2
        <5>2. b \in Seq(Cells)
          BY <1>1, <5>1, AcceptedFacts
        <5> HIDE DEF b
        <5>3. Holds(c, q, b)
          BY <1>4, <3>2 DEF b
        <5> QED BY <1>2, <5>1, <5>2, <5>3 DEF Holds, m
      <4> HIDE DEF q, b
      <4>2. q + Len(b) - 1 <= Len(c2)
        BY <4>1, <2>1, <2>3
      <4>3. \A i \in 1 .. Len(b) : q + i - 1 \in 1 .. m
        BY <4>1, <2>3
      <4>4. Holds(c2, q, b)
        BY <4>1, <4>2, <4>3, <2>3 DEF Holds
      <4> QED BY <1>1, <1>2, <4>1, <4>4 DEF q, b
    <3> QED BY <2>5, <3>1, <3>2
  <2>9. ASSUME NEW j \in K2, NEW k \in K2, j < k PROVE pos2[j] < pos2[k]
    <3>1. j \in K
      BY <1>1, <1>3, <2>5, <2>9
    <3>2. CASE k = n + 1
      BY <1>2, <1>3, <2>3, <2>4, <2>7, <3>1, <3>2
    <3>3. CASE k \in K
      BY <1>2, <1>3, <1>4, <2>9, <3>1, <3>3
    <3> QED BY <2>5, <3>2, <3>3
  <2>10. Placed(c2, s, rings2, pos2)
    BY <2>2, <2>6, <2>8, <2>9 DEF Placed, K2
  <2> QED BY <1>6, <2>10 DEF c2, rings2, pos2, n, block
<1> QED BY <1>5, <1>6

(* A ring added in memory to an image that reflects the requests makes it  *)
(* reflect one more.                                                       *)
LEMMA ReflectsMore ==
  ASSUME NEW img, Ready(img), NEW r, NEW rings \in Seq(Accepted), NEW req \in Accepted, Reflects(img, rings),
         RingAdded(img, r, RingSection(req.name), RingOf(req))
  PROVE  Reflects(r, Append(rings, req))
<1> DEFINE t == RingSection(req.name)
           p == Len(Contents(img, t)) + 1
<1>1. PICK pos \in [DOMAIN rings -> Nat \ {0}] : \A s \in RingSections : Placed(Contents(img, s), s, rings, pos)
  BY DEF Reflects
<1> DEFINE pos2 == MorePlaces(pos, Len(rings), p)
<1>2. t \in RingSections /\ RingSections \subseteq Sections /\ LaidOut(img)
  BY RingAssumption DEF RingSections, RingSection, Ready
<1>3. \A s \in RingSections : Contents(img, s) \in Seq(Cells)
  BY <1>2, ContentsType
<1>4. p \in Nat \ {0}
  BY <1>2, <1>3
<1>5. \A s \in RingSections : Contents(r, s) = IF t = s THEN Contents(img, s) \o RingOf(req) ELSE Contents(img, s)
  BY DEF RingAdded
<1> HIDE DEF p
<1>6. \A s \in RingSections : Placed(Contents(r, s), s, Append(rings, req), pos2)
  <2> TAKE s \in RingSections
  <2>1. t = s => p = Len(Contents(img, s)) + 1
    BY DEF p
  <2> DEFINE c == Contents(img, s)
  <2>2. c \in Seq(Cells) /\ Placed(c, s, rings, pos)
    BY <1>1, <1>3
  <2>3. Contents(r, s) = IF t = s THEN c \o RingOf(req) ELSE c
    BY <1>5
  <2> HIDE DEF c
  <2> QED BY <1>4, <2>1, <2>2, <2>3, PlacedMore DEF c
<1>7. DOMAIN Append(rings, req) = 1 .. Len(rings) + 1 /\ DOMAIN rings = 1 .. Len(rings) /\ Len(rings) \in Nat
  OBVIOUS
<1>8. pos2 \in [DOMAIN Append(rings, req) -> Nat \ {0}]
  BY <1>4, <1>7 DEF MorePlaces
<1> HIDE DEF pos2
<1> QED BY <1>6, <1>8 DEF Reflects

-----------------------------------------------------------------------------
(***************************************************************************)
(* The inductive invariant.  A run that works has the image of the file,   *)
(* which nobody else changes while it holds the lock; a file that passes   *)
(* the check of a run reflects all that has been added.  A write that ends *)
(* early leaves a longer image than its file, since every ring makes the   *)
(* image grow: the check fails from then on.                               *)
(***************************************************************************)
Working(w) ==
    /\ writer[w].pc = "open" /\ writer[w].request \in Accepted /\ writer[w].image = file.image
    /\ AddRing(file.image, writer[w].request).rc = "OK" /\ Whole
WritersOK ==
    /\ DOMAIN writer = Writers
    /\ \A w \in Writers : writer[w] = Idle \/ Working(w)
    /\ \A v, w \in Writers : writer[v] = Idle \/ writer[w] = Idle \/ v = w
FileOK ==
    /\ file = [image |-> file.image, length |-> file.length]
    /\ added \in Seq(Accepted)
    /\ Whole => Ready(file.image) /\ Reflects(file.image, added)
    /\ Whole => \E base \in Images : LeftAlone(base, file.image)
    /\ Whole /\ added # << >> => QuickCheck(file.image, TRUE) = "OK"
FileInvariant == chip = "p8" => WritersOK /\ FileOK

(* It holds at first: no ring is in the reference image.                   *)
LEMMA ScanStarts == ScanInit => FileInvariant
<1> SUFFICES ASSUME ScanInit PROVE WritersOK /\ FileOK
  BY DEF FileInvariant
<1>1. PICK img \in Images : file = [image |-> img, length |-> img.size]
  BY DEF ScanInit
<1>2. /\ file.image = img /\ LaidOut(img) /\ Extensible(img) /\ RingSections \cap Present(img) = {}
  BY <1>1, ImagesAssumption, ScanAssumption
<1>3. WritersOK
  BY DEF ScanInit, WritersOK
<1>4. \A s \in RingSections : Contents(img, s) = << >>
  <2> TAKE s \in RingSections
  <2>1. s \in Sections /\ s \notin Present(img)
    BY <1>2, RingAssumption DEF RingSections
  <2> QED BY <1>2, <2>1, ContentsType
<1>5. added = << >>
  BY DEF ScanInit
<1>6. Reflects(img, added)
  BY <1>4, <1>5, EmptyReflects
<1>7. file = [image |-> file.image, length |-> file.length]
  BY <1>1
<1>8. LeftAlone(img, file.image)
  BY <1>2 DEF LeftAlone, KeptFrom, SlotsStay
<1> QED BY <1>2, <1>3, <1>5, <1>6, <1>7, <1>8 DEF FileOK, Ready

(* What the write of a run leaves in the file: what was there, an image    *)
(* that is longer than the file, or the image with the ring.               *)
LEMMA FileWritten ==
  ASSUME NEW f, Ready(f.image), f = [image |-> f.image, length |-> f.image.size],
         NEW img, Ready(img), NEW grown \in Nat \ {0}, img.size = f.image.size + grown,
         NEW n \in 0 .. img.size
  PROVE  LET g == FileAfter(f, img, n)
         IN  \/ n = 0 /\ g = f
             \/ n # 0 /\ n # img.size /\ g.length # g.image.size
             \/ n = img.size /\ g.image = img
<1> DEFINE g == FileAfter(f, img, n)
<1>1. /\ img \in Image /\ f.image \in Image /\ img.size \in Nat /\ f.image.size \in Nat
      /\ f.length = f.image.size
  BY ImageType DEF Ready, LaidOut
<1>2. CASE n = img.size
  BY <1>2 DEF FileAfter
<1>3. CASE n = 0
  <2>1. n # img.size
    BY <1>1, <1>3
  <2> DEFINE mem == [i \in DOMAIN f.image.mem |-> IF i < n THEN img.mem[i] ELSE f.image.mem[i]]
  <2>2. g = [image |-> [f.image EXCEPT !.mem = mem], length |-> f.length]
    BY <1>1, <1>3, <2>1 DEF FileAfter
  <2>3. f.image.mem \in [0 .. BufferSize - 1 -> Cells]
    BY <1>1, ImageType
  <2>4. mem = f.image.mem
    <3>1. \A i \in 0 .. BufferSize - 1 : ~ (i < n)
      BY <1>3, XipAssumption
    <3> QED BY <2>3, <3>1
  <2>5. [f.image EXCEPT !.mem = f.image.mem] = f.image
    BY <1>1, ImageType
  <2> HIDE DEF g, mem
  <2>6. g = [image |-> f.image, length |-> f.length]
    BY <2>2, <2>4, <2>5
  <2> QED BY <1>1, <1>3, <2>6 DEF g
<1>4. CASE n # 0 /\ n # img.size
  <2> DEFINE mem == [i \in DOMAIN img.mem |-> IF i < n THEN img.mem[i] ELSE f.image.mem[i]]
  <2>1. g = [image |-> [img EXCEPT !.mem = mem], length |-> IF n > f.length THEN n ELSE f.length]
    BY <1>4 DEF FileAfter
  <2>2. [img EXCEPT !.mem = mem].size = img.size
    BY <1>1 DEF Image
  <2> HIDE DEF g, mem
  <2>3. g.image.size = img.size /\ g.length = IF n > f.length THEN n ELSE f.length
    BY <2>1, <2>2
  <2>4. g.length # g.image.size
    BY <1>1, <1>4, <2>3
  <2> QED BY <1>4, <2>4 DEF g
<1> QED BY <1>2, <1>3, <1>4

(* A run that ends leaves the others as they were.                         *)
LEMMA RunEnds ==
  ASSUME WritersOK, NEW w \in Writers, writer' = [writer EXCEPT ![w] = Idle],
         file' = file \/ writer[w] # Idle
  PROVE  WritersOK'
<1>1. DOMAIN writer' = Writers /\ writer'[w] = Idle /\ \A v \in Writers \ {w} : writer'[v] = writer[v]
  BY DEF WritersOK
<1>2. \A v, u \in Writers : writer'[v] = Idle \/ writer'[u] = Idle \/ v = u
  BY <1>1 DEF WritersOK
<1>3. ASSUME NEW v \in Writers, writer'[v] # Idle PROVE Working(v)'
  <2>1. v # w /\ writer'[v] = writer[v] /\ writer[v] # Idle
    BY <1>1, <1>3
  <2>2. Working(v)
    BY <2>1 DEF WritersOK
  <2>3. writer[w] = Idle
    BY <2>1 DEF WritersOK
  <2>4. file' = file
    BY <2>3
  <2> QED BY <2>1, <2>2, <2>4 DEF Working, Whole
<1> QED BY <1>1, <1>2, <1>3 DEF WritersOK

(* The steps of p8_delta_scan_w.                                           *)
LEMMA OpenKeeps ==
  ASSUME chip = "p8", WritersOK, FileOK, NEW w \in Writers, Open(w)
  PROVE  WritersOK' /\ FileOK'
<1>1. PICK req \in Requests :
        /\ writer[w].pc = "idle" /\ Arguments(req) = "OK" /\ Unlocked /\ Whole
        /\ AddRing(file.image, req).rc = "OK"
        /\ writer' = [writer EXCEPT ![w] = [pc |-> "open", request |-> req, image |-> file.image]]
        /\ UNCHANGED <<chip, file, added>>
  BY DEF Open, Whole
<1>2. FileOK'
  BY <1>1 DEF FileOK, Whole
<1>3. \A v \in Writers : writer[v] = Idle
  BY <1>1 DEF Unlocked, Locked, WritersOK, Working
<1>4. /\ DOMAIN writer' = Writers
      /\ writer'[w] = [pc |-> "open", request |-> req, image |-> file.image]
      /\ \A v \in Writers \ {w} : writer'[v] = Idle
  BY <1>1, <1>3 DEF WritersOK
<1>5. Working(w)'
  BY <1>1, <1>4 DEF Working, Accepted, Whole
<1>6. WritersOK'
  BY <1>4, <1>5 DEF WritersOK
<1> QED BY <1>2, <1>6

(* The write: it leaves the file as it was, incomplete or with the ring,   *)
(* and only then has the request been added.                               *)
LEMMA WriteKeeps ==
  ASSUME chip = "p8", WritersOK, FileOK, NEW w \in Writers, WriteAndUnlock(w)
  PROVE  WritersOK' /\ FileOK'
<1> DEFINE req == writer[w].request
           new == AddRing(file.image, req).image
<1>1. Working(w) /\ writer[w] # Idle
  BY DEF WriteAndUnlock, WritersOK, Idle
<1>2. /\ req \in Accepted /\ writer[w].image = file.image /\ AddRing(file.image, req).rc = "OK" /\ Whole
  BY <1>1 DEF Working
<1>3. PICK n \in {m \in Torn : m < new.size} \cup {0, new.size} :
        /\ file' = FileAfter(file, new, n)
        /\ added' = IF n = new.size THEN Append(added, req) ELSE added
        /\ writer' = [writer EXCEPT ![w] = Idle]
  BY <1>2 DEF WriteAndUnlock
<1>4. WritersOK'
  BY <1>1, <1>3, RunEnds
<1>5. /\ Ready(file.image) /\ Reflects(file.image, added) /\ added \in Seq(Accepted)
      /\ added # << >> => QuickCheck(file.image, TRUE) = "OK"
  BY <1>2 DEF FileOK
<1> HIDE DEF req
<1>6. RingAdded(file.image, new, RingSection(req.name), RingOf(req))
  BY <1>2, <1>5, AddRingAdds
<1>7. Ready(new) /\ QuickCheck(new, TRUE) = "OK" /\ new.size = file.image.size + Len(RingOf(req))
  BY <1>6 DEF RingAdded
<1>8. Len(RingOf(req)) \in Nat \ {0} /\ file.image.size \in Nat
  <2>1. RingOf(req) \in Seq(Cells) /\ RingOf(req) # << >>
    BY <1>2, AcceptedFacts
  <2> QED BY <1>5, <2>1, ImageType DEF Ready, LaidOut
<1> HIDE DEF new
<1>9. n \in 0 .. new.size
  BY <1>7, <1>8, ScanAssumption
<1>10. file = [image |-> file.image, length |-> file.image.size]
  <2>1. file = [image |-> file.image, length |-> file.length] /\ file.length = file.image.size
    BY <1>2 DEF FileOK, Whole, FileCheck
  <2> QED BY <2>1
<1>15. file' = [image |-> file'.image, length |-> file'.length]
  <2>1. file' = FileAfter(file, new, n)
    BY <1>3
  <2>2. \E img, m : FileAfter(file, new, n) = [image |-> img, length |-> m]
    BY DEF FileAfter
  <2>3. PICK img, m : file' = [image |-> img, length |-> m]
    BY <2>1, <2>2
  <2>4. file'.image = img /\ file'.length = m
    BY <2>3
  <2> QED BY <2>3, <2>4
<1>11. \/ n = 0 /\ file' = file
       \/ n # 0 /\ n # new.size /\ file'.length # file'.image.size
       \/ n = new.size /\ file'.image = new
  BY <1>3, <1>5, <1>7, <1>8, <1>9, <1>10, FileWritten
<1>12. CASE n = 0 /\ file' = file
  <2>1. added' = added
    BY <1>3, <1>7, <1>8, <1>12
  <2>2. Whole' = Whole
    BY <1>12 DEF Whole
  <2> QED BY <1>2, <1>4, <1>5, <1>12, <1>15, <2>1, <2>2 DEF FileOK
<1>13. CASE n # new.size /\ file'.length # file'.image.size
  <2>1. added' = added
    BY <1>3, <1>13
  <2>2. ~ Whole'
    BY <1>13 DEF Whole, FileCheck
  <2> QED BY <1>4, <1>5, <1>15, <2>1, <2>2 DEF FileOK
<1>14. CASE n = new.size /\ file'.image = new
  <2>1. added' = Append(added, req) /\ added' \in Seq(Accepted)
    BY <1>2, <1>3, <1>5, <1>14
  <2>2. Reflects(new, Append(added, req))
    BY <1>2, <1>5, <1>6, ReflectsMore
  <2>3. \E base \in Images : LeftAlone(base, new)
    BY <1>2, <1>6, AloneThrough DEF FileOK, RingAdded
  <2> QED BY <1>4, <1>7, <1>14, <1>15, <2>1, <2>2, <2>3 DEF FileOK
<1> QED BY <1>11, <1>12, <1>13, <1>14

(* A run that is stopped leaves the file to the others.                    *)
LEMMA StoppedKeeps ==
  ASSUME WritersOK, FileOK, NEW w \in Writers, Stopped(w)
  PROVE  WritersOK' /\ FileOK'
<1>1. writer' = [writer EXCEPT ![w] = Idle] /\ file' = file /\ added' = added
  BY DEF Stopped
<1>2. WritersOK'
  BY <1>1, RunEnds
<1> QED BY <1>1, <1>2 DEF FileOK, Whole

(* The invariant of the reference image file: at most one run works on it, *)
(* and what passes a run's check reflects all requests completed.          *)
THEOREM FileInductive == ScanSpec => []FileInvariant
<1>1. ScanInit => FileInvariant
  BY ScanStarts
<1>2. FileInvariant /\ [ScanNext]_scanVars => FileInvariant'
  <2> SUFFICES ASSUME FileInvariant, [ScanNext]_scanVars, chip' = "p8"
               PROVE  WritersOK' /\ FileOK'
    BY DEF FileInvariant
  <2>1. chip = "p8" /\ WritersOK /\ FileOK
    <3>1. chip' = chip
      BY DEF ScanNext, Open, WriteAndUnlock, CentaurOpen, CentaurTruncate, CentaurWrite, Stopped, scanVars
    <3> QED BY <3>1 DEF FileInvariant
  <2>2. CASE UNCHANGED scanVars
    BY <2>1, <2>2 DEF scanVars, WritersOK, FileOK, Working, Whole
  <2>3. ASSUME NEW w \in Writers, Open(w) PROVE WritersOK' /\ FileOK'
    BY <2>1, <2>3, OpenKeeps
  <2>4. ASSUME NEW w \in Writers, WriteAndUnlock(w) PROVE WritersOK' /\ FileOK'
    BY <2>1, <2>4, WriteKeeps
  <2>5. ASSUME NEW w \in Writers, CentaurOpen(w) \/ CentaurTruncate(w) \/ CentaurWrite(w) PROVE FALSE
    BY <2>1, <2>5 DEF CentaurOpen, CentaurTruncate, CentaurWrite
  <2>6. ASSUME NEW w \in Writers, Stopped(w) PROVE WritersOK' /\ FileOK'
    BY <2>1, <2>6, StoppedKeeps
  <2> QED BY <2>2, <2>3, <2>4, <2>5, <2>6 DEF ScanNext
<1> QED BY <1>1, <1>2, PTL DEF ScanSpec

-----------------------------------------------------------------------------
(***************************************************************************)
(* What a reader of the file finds.  A slot tells the name and the element *)
(* it belongs to, because the slots of two names do not overlap.           *)
(***************************************************************************)
LEMMA PairOfSlot ==
  ASSUME NEW name \in RingName, NEW i \in 0 .. Elements(name) - 1
  PROVE  PairRing(SlotOf[name] + i) = <<name, i>>
<1> DEFINE back == SlotOf[name] + i
           near == {x \in RingName \X (0 .. MaxElements - 1) : SlotOf[x[1]] = back - x[2]}
           z == CHOOSE x \in near : \A y \in near : x[2] <= y[2]
<1>1. /\ \A n \in RingName : SlotOf[n] \in Nat
      /\ \A n, m \in RingName : n # m => SlotOf[m] \notin SlotOf[n] .. SlotOf[n] + Elements(n) - 1
  BY RingAssumption
<1>2. Elements(name) \in 1 .. MaxElements
  BY RingAssumption DEF Elements, MaxElements
<1>3. i \in 0 .. MaxElements - 1
  BY <1>2 DEF MaxElements
<1>4. <<name, i>> \in near
  BY <1>1, <1>3 DEF MaxElements
<1>5. ASSUME NEW y \in near PROVE i <= y[2]
  <2> DEFINE n == y[1]
             j == y[2]
  <2>1. n \in RingName /\ j \in 0 .. MaxElements - 1 /\ SlotOf[n] = back - j
    OBVIOUS
  <2> HIDE DEF n, j
  <2>2. ASSUME j < i PROVE FALSE
    <3>1. SlotOf[n] \in SlotOf[name] + 1 .. SlotOf[name] + Elements(name) - 1
      BY <1>1, <1>2, <2>1, <2>2 DEF MaxElements
    <3>2. n = name
      BY <1>1, <1>2, <2>1, <3>1 DEF MaxElements
    <3> QED BY <1>1, <3>1, <3>2
  <2>3. i <= j
    BY <2>1, <2>2 DEF MaxElements
  <2> QED BY <2>3 DEF j
<1>6. z \in near /\ \A y \in near : z[2] <= y[2]
  <2>1. \E x \in near : \A y \in near : x[2] <= y[2]
    <3>1. <<name, i>>[2] = i
      OBVIOUS
    <3> HIDE DEF near
    <3> QED BY <1>4, <1>5, <3>1
  <2> HIDE DEF near
  <2> QED BY <2>1
<1>7. z[2] = i
  <2>1. z[2] <= i
    BY <1>4, <1>6
  <2>2. z[2] \in Nat
    <3>1. z \in RingName \X (0 .. MaxElements - 1)
      BY <1>6
    <3> HIDE DEF z, near
    <3> QED BY <3>1 DEF MaxElements
  <2>3. i <= z[2]
    <3> HIDE DEF near
    <3> QED BY <1>5, <1>6
  <2>4. i \in Nat
    BY <1>3 DEF MaxElements
  <2> HIDE DEF z, near, back
  <2> QED BY <2>1, <2>2, <2>3, <2>4
<1>8. z = <<z[1], z[2]>> /\ z[1] \in RingName /\ SlotOf[z[1]] = back - z[2]
  <2>1. z \in near
    BY <1>6
  <2> HIDE DEF z, back
  <2> QED BY <2>1
<1>9. PairRing(back) = z
  BY DEF PairRing
<1> HIDE DEF z, near
<1>10. z[1] = name
  BY <1>1, <1>2, <1>7, <1>8 DEF MaxElements
<1> QED BY <1>7, <1>8, <1>9, <1>10

(* Where the block of a request lies in the image.                         *)
PlaceIn(img, s, pos, k) == img.section[s].offset + pos[k] - 1
LEMMA BlockInImage ==
  ASSUME NEW img, Ready(img), NEW s \in RingSections, NEW rings \in Seq(Accepted),
         NEW pos \in [DOMAIN rings -> Nat \ {0}], Placed(Contents(img, s), s, rings, pos),
         NEW k \in Goes(s, rings)
  PROVE  LET at == PlaceIn(img, s, pos, k)
             b == RingOf(rings[k])
         IN  /\ rings[k] \in Accepted /\ at \in Nat /\ at + Len(b) <= BufferSize
             /\ \A i \in 1 .. Len(b) : img.mem[at + i - 1] = b[i]
             /\ img.mem[at] = Header(SlotFor(rings[k]), Len(b), DdOf(rings[k].dd), rings[k].phase, rings[k].override)
<1> DEFINE o == img.section[s].offset
           n == img.section[s].size
           c == Contents(img, s)
           p == pos[k]
           b == RingOf(rings[k])
           at == PlaceIn(img, s, pos, k)
<1>1. k \in DOMAIN rings /\ rings[k] \in Accepted /\ p \in Nat \ {0}
  BY DEF Goes
<1>2. /\ b # << >> /\ Len(b) \in Nat \ {0}
      /\ b[1] = Header(SlotFor(rings[k]), Len(b), DdOf(rings[k].dd), rings[k].phase, rings[k].override)
  <2>1. b \in Seq(Cells) /\ b # << >>
    BY <1>1, AcceptedFacts
  <2>2. b[1] = Header(SlotFor(rings[k]), Len(b), DdOf(rings[k].dd), rings[k].phase, rings[k].override)
    BY <1>1, AcceptedFacts
  <2> HIDE DEF b
  <2> QED BY <2>1, <2>2, EmptySeq
<1>3. LaidOut(img) /\ img \in Image /\ s \in Sections
  BY RingAssumption DEF RingSections, Ready, LaidOut
<1>4. /\ o \in Nat /\ n \in Nat /\ Len(c) = n /\ End(img.section[s]) = o + n
      /\ \A m \in 1 .. n : c[m] = img.mem[o + m - 1]
  <2>1. Len(c) = n /\ o \in Nat /\ n \in Nat /\ End(img.section[s]) = o + n
    BY <1>3, ContentsType, SectionType
  <2>2. \A m \in 1 .. n : c[m] = img.mem[o + m - 1]
    BY DEF Contents
  <2> QED BY <2>1, <2>2
<1>5. p + Len(b) - 1 <= n /\ \A i \in 1 .. Len(b) : c[p + i - 1] = b[i]
  <2>1. Holds(c, p, b)
    BY DEF Placed
  <2> HIDE DEF c, b, p
  <2> QED BY <1>4, <2>1 DEF Holds
<1>6. o + n <= BufferSize
  <2>1. p <= n
    BY <1>1, <1>2, <1>5, <1>4
  <2>2. s \in Present(img)
    BY <1>1, <1>3, <1>4, <2>1, SectionType
  <2>3. o + n <= img.size
    BY <1>4, <2>2 DEF LaidOut, DisjointIn, WithinImage, Ready
  <2> QED BY <1>3, <1>4, <2>3, ImageType, XipAssumption DEF LaidOut, DisjointIn
<1>7. at = o + p - 1
  BY DEF PlaceIn
<1> HIDE DEF o, n, c, p, b, at
<1>8. at \in Nat /\ at + Len(b) <= BufferSize
  BY <1>1, <1>2, <1>4, <1>5, <1>6, <1>7, XipAssumption
<1>9. ASSUME NEW i \in 1 .. Len(b) PROVE img.mem[at + i - 1] = b[i]
  <2>1. p + i - 1 \in 1 .. n /\ o + (p + i - 1) - 1 = at + i - 1
    BY <1>1, <1>2, <1>4, <1>5, <1>7
  <2> QED BY <1>4, <1>5, <2>1
<1>10. img.mem[at] = b[1]
  <2>1. 1 \in 1 .. Len(b) /\ at + 1 - 1 = at
    BY <1>2, <1>8
  <2> QED BY <1>9, <2>1
<1> QED BY <1>1, <1>2, <1>8, <1>9, <1>10 DEF at, b

(* The blocks of a section are those of the requests that go to it.        *)
LEMMA BlocksPlaced ==
  ASSUME NEW img, NEW s, NEW rings, NEW pos, Placed(Contents(img, s), s, rings, pos)
  PROVE  Blocks(img, s) = {PlaceIn(img, s, pos, k) : k \in Goes(s, rings)}
<1>1. Starts(Contents(img, s)) = {pos[k] : k \in Goes(s, rings)}
  BY DEF Placed
<1> QED BY <1>1 DEF Blocks, PlaceIn

(* The block of a request is the ring that was asked for, under its name.  *)
LEMMA RingIsListed ==
  ASSUME NEW img, Ready(img), NEW s \in RingSections, NEW rings \in Seq(Accepted),
         NEW pos \in [DOMAIN rings -> Nat \ {0}], Placed(Contents(img, s), s, rings, pos),
         NEW k \in Goes(s, rings)
  PROVE  AddedIn(rings[k], img)
<1> DEFINE req == rings[k]
           at == PlaceIn(img, s, pos, k)
           b == RingOf(req)
           d == BlockOf(req)
           cells == [i \in 1 .. BufferSize |-> img.mem[i - 1]]
<1>1. /\ req \in Accepted /\ at \in Nat /\ at + Len(b) <= BufferSize
      /\ \A i \in 1 .. Len(b) : img.mem[at + i - 1] = b[i]
      /\ img.mem[at] = Header(SlotFor(req), Len(b), DdOf(req.dd), req.phase, req.override)
  BY BlockInImage
<1>2. /\ req.name \in RingName /\ req.data \in Seq(Nat) /\ req.override \in {0, 1}
      /\ VpdType(req.name) # "none" => req.override = 0
      /\ SlotFor(req) = SlotOf[req.name] + SlotIndex(req) /\ SlotIndex(req) \in 0 .. Elements(req.name) - 1
      /\ b \in Seq(Cells) /\ Len(b) = 1 + Len(req.data)
      /\ \A i \in DOMAIN req.data : b[i + 1] = Body(req.data[i])
  BY <1>1, AcceptedFacts
<1>3. at \in Blocks(img, RingSection(req.name))
  <2>1. RingSection(req.name) = s
    BY DEF Goes
  <2> QED BY <2>1, BlocksPlaced
<1>4. img.mem[at].size = Len(b) /\ img.mem[at].back = SlotFor(req) /\ img.mem[at].override = req.override
  BY <1>1 DEF Header
<1>5. /\ Len(d) = Len(b)
      /\ \A i \in DOMAIN req.data : d[i + 1] = Body(req.data[i])
  BY <1>2, BlockCells DEF BlockOf
<1>6. /\ Len(req.data) \in Nat /\ DOMAIN req.data = 1 .. Len(req.data)
      /\ \A i \in DOMAIN req.data : req.data[i] \in Nat
  <2>1. req.data \in Seq(Nat)
    BY <1>2
  <2> QED BY <2>1
<1>7. PairRing(img.mem[at].back) = <<req.name, SlotIndex(req)>>
  BY <1>2, <1>4, PairOfSlot
<1>8. TOC \in Present(img)
  BY DEF Ready, Extensible
<1>9. ListedName(img, at) = req.name
  BY <1>7, <1>8 DEF ListedName
<1>10. ListedOverride(img, at) = req.override
  <2>1. req.override % 2 = req.override
    BY <1>2
  <2> QED BY <1>2, <1>7, <1>8, <2>1 DEF ListedOverride, SlotIndex
<1> DEFINE h == Len(b)
           S == {Body(v) : v \in Nat}
<1>11. /\ h \in Nat /\ h = 1 + Len(req.data) /\ BufferSize \in Nat
       /\ \A i \in 2 .. h : b[i] \in S /\ d[i] = b[i]
  <2>1. ASSUME NEW i \in 2 .. h PROVE b[i] \in S /\ d[i] = b[i]
    <3>1. i - 1 \in DOMAIN req.data /\ (i - 1) + 1 = i
      <4>1. h \in Nat /\ h = 1 + Len(req.data)
        BY <1>2, <1>6
      <4> HIDE DEF h, S
      <4> QED BY <1>6, <4>1
    <3>2. b[i] = Body(req.data[i - 1]) /\ d[i] = Body(req.data[i - 1])
      BY <1>2, <1>5, <3>1
    <3>3. req.data[i - 1] \in Nat
      BY <1>6, <3>1
    <3> QED BY <3>2, <3>3
  <2>2. h = 1 + Len(req.data) /\ h \in Nat
    BY <1>2, <1>6
  <2>3. BufferSize \in Nat
    BY XipAssumption
  <2> HIDE DEF h, S, d, b
  <2> QED BY <2>1, <2>2, <2>3
<1>12. Block(img, at) = SubSeq(cells, at + 1, at + h)
  BY <1>4 DEF Block
<1>13. \A i \in 1 .. h : cells[at + i] = b[i]
  <2> TAKE i \in 1 .. h
  <2>1. at + i \in 1 .. BufferSize /\ at + i - 1 = (at + i) - 1
    BY <1>1, <1>11
  <2>2. cells[at + i] = img.mem[at + i - 1]
    BY <2>1
  <2> QED BY <1>1, <2>2
<1> HIDE DEF cells, S, h
<1>14. /\ Len(SubSeq(d, 2, h)) = Len(req.data) /\ SubSeq(d, 2, h) \in Seq(S)
       /\ \A i \in 1 .. Len(req.data) : SubSeq(d, 2, h)[i] = b[i + 1]
  <2> HIDE DEF d, b
  <2>1. /\ SubSeq(d, 2, h) \in Seq(S)
        /\ Len(SubSeq(d, 2, h)) = IF 2 <= h THEN h - 2 + 1 ELSE 0
        /\ \A i \in 1 .. h - 2 + 1 : SubSeq(d, 2, h)[i] = d[2 + i - 1]
    BY <1>11, SubSeqProperties
  <2>2. ASSUME NEW i \in 1 .. Len(req.data) PROVE SubSeq(d, 2, h)[i] = b[i + 1]
    <3>1. i \in 1 .. h - 2 + 1 /\ 2 + i - 1 = i + 1 /\ i + 1 \in 2 .. h
      BY <1>6, <1>11
    <3> QED BY <1>11, <2>1, <3>1
  <2> QED BY <1>6, <1>11, <2>1, <2>2
<1> DEFINE e == Block(img, at)
<1>15. /\ Len(e) = h /\ \A i \in 1 .. h : e[i] = b[i]
  <2>1. ASSUME NEW i \in at + 1 .. at + h PROVE cells[i] \in {b[j] : j \in 1 .. h}
    <3>1. i - at \in 1 .. h /\ at + (i - at) = i
      <4>1. at \in Nat /\ h \in Nat
        BY <1>1, <1>11
      <4> HIDE DEF at, e
      <4> QED BY <4>1
    <3> QED BY <1>13, <3>1
  <2> DEFINE B == {b[j] : j \in 1 .. h}
             lo == at + 1
             hi == at + h
  <2>2. lo \in Int /\ hi \in Int /\ \A i \in lo .. hi : cells[i] \in B
    BY <1>1, <1>11, <2>1
  <2>3. e = SubSeq(cells, lo, hi)
    BY <1>12
  <2> HIDE DEF e, B
  <2>4. /\ Len(e) = IF lo <= hi THEN hi - lo + 1 ELSE 0
        /\ \A i \in 1 .. hi - lo + 1 : e[i] = cells[lo + i - 1]
    <3> HIDE DEF lo, hi
    <3> QED BY <2>2, <2>3, SubSeqProperties
  <2>5. hi - lo + 1 = h /\ (lo <= hi <=> 1 <= h)
    BY <1>1, <1>11
  <2>6. ASSUME NEW i \in 1 .. h PROVE e[i] = b[i]
    <3>1. lo + i - 1 = at + i
      BY <1>1
    <3> QED BY <1>13, <2>4, <2>5, <3>1
  <2> QED BY <1>6, <1>11, <2>4, <2>5, <2>6
<1> HIDE DEF e
<1>16. /\ Len(SubSeq(e, 2, h)) = Len(req.data) /\ SubSeq(e, 2, h) \in Seq(S)
       /\ \A i \in 1 .. Len(req.data) : SubSeq(e, 2, h)[i] = b[i + 1]
  <2> HIDE DEF d, b
  <2>1. \A i \in 2 .. h : e[i] \in S
    BY <1>11, <1>15
  <2>2. /\ SubSeq(e, 2, h) \in Seq(S)
        /\ Len(SubSeq(e, 2, h)) = IF 2 <= h THEN h - 2 + 1 ELSE 0
        /\ \A i \in 1 .. h - 2 + 1 : SubSeq(e, 2, h)[i] = e[2 + i - 1]
    BY <1>11, <2>1, SubSeqProperties
  <2>3. ASSUME NEW i \in 1 .. Len(req.data) PROVE SubSeq(e, 2, h)[i] = b[i + 1]
    <3>1. i \in 1 .. h - 2 + 1 /\ 2 + i - 1 = i + 1 /\ i + 1 \in 1 .. h
      <4> DEFINE n == Len(req.data)
      <4>1. h \in Nat /\ h = 1 + n /\ n \in Nat /\ i \in 1 .. n
        BY <1>6, <1>11
      <4> HIDE DEF n, req, at
      <4> QED BY <4>1
    <3> QED BY <1>15, <2>2, <3>1
  <2> QED BY <1>6, <1>11, <2>2, <2>3
<1>17. SubSeq(e, 2, h) = SubSeq(d, 2, h)
  <2> DEFINE u == SubSeq(e, 2, h)
             v == SubSeq(d, 2, h)
  <2>1. u \in Seq(S) /\ v \in Seq(S) /\ Len(u) = Len(v) /\ Len(u) = Len(req.data)
    BY <1>14, <1>16
  <2>2. \A i \in 1 .. Len(req.data) : u[i] = v[i]
    BY <1>14, <1>16
  <2> HIDE DEF u, v, d, b, req
  <2>3. u = v
    BY <2>1, <2>2, SeqEqual
  <2> QED BY <2>3 DEF u, v
<1>18. SubSeq(Block(img, at), 2, img.mem[at].size) = SubSeq(d, 2, Len(d))
  BY <1>4, <1>5, <1>17 DEF e, h
<1> QED BY <1>3, <1>9, <1>10, <1>18 DEF AddedIn

(* NoRingLost for every set of runs, requests and ends of a write: a file  *)
(* that p8_delta_scan_w accepts has every ring whose write was complete,   *)
(* and lists it under its name.                                            *)
THEOREM RingsAreKept == ScanSpec => []NoRingLost
<1>1. FileInvariant => NoRingLost
  <2> SUFFICES ASSUME FileInvariant, chip = "p8", Whole, NEW k \in DOMAIN added
               PROVE  AddedIn(added[k], file.image)
    BY DEF NoRingLost
  <2> DEFINE s == RingSection(added[k].name)
  <2>1. Ready(file.image) /\ Reflects(file.image, added) /\ added \in Seq(Accepted)
    BY DEF FileInvariant, FileOK
  <2>2. PICK pos \in [DOMAIN added -> Nat \ {0}] :
           \A t \in RingSections : Placed(Contents(file.image, t), t, added, pos)
    BY <2>1 DEF Reflects
  <2>3. s \in RingSections /\ k \in Goes(s, added)
    BY DEF RingSection, RingSections, Goes
  <2> HIDE DEF s
  <2> QED BY <2>1, <2>2, <2>3, RingIsListed
<1> QED BY <1>1, FileInductive, PTL

(* The requests whose ring matches what a reader asks for.                 *)
Alike(rings, k, phase) ==
    {j \in DOMAIN rings : SameKey(rings[j], rings[k]) /\ rings[j].phase \in {phase, 2}}

(* What p8_delta_scan_r looks for are the blocks of exactly these.         *)
LEMMA WantedPlaced ==
  ASSUME NEW img, Ready(img), NEW rings \in Seq(Accepted), NEW k \in DOMAIN rings,
         NEW pos \in [DOMAIN rings -> Nat \ {0}], NEW phase \in {0, 1},
         LET s == RingSection(rings[k].name) IN Placed(Contents(img, s), s, rings, pos),
         SlotFor(rings[k]) = SlotOf[rings[k].name] + rings[k].override
  PROVE  LET s == RingSection(rings[k].name)
         IN  /\ Alike(rings, k, phase) \subseteq Goes(s, rings)
             /\ Wanted(img, rings[k].name, DdOf(rings[k].dd), phase, rings[k].override)
                   = {PlaceIn(img, s, pos, j) : j \in Alike(rings, k, phase)}
<1> DEFINE req == rings[k]
           s == RingSection(req.name)
           wanted == Wanted(img, req.name, DdOf(req.dd), phase, req.override)
           alike == Alike(rings, k, phase)
<1>1. s \in RingSections /\ Placed(Contents(img, s), s, rings, pos)
  BY DEF RingSection, RingSections
<1>2. req \in Accepted
  OBVIOUS
<1>3. alike \subseteq Goes(s, rings)
  BY DEF Alike, Goes, SameKey
<1>4. Blocks(img, s) = {PlaceIn(img, s, pos, j) : j \in Goes(s, rings)}
  BY <1>1, BlocksPlaced
<1> DEFINE asked(at) == LET h == img.mem[at]
                        IN  /\ h.back = SlotOf[req.name] + req.override
                            /\ Matches(h, DdOf(req.dd), phase) /\ h.override = req.override
<1>5. ASSUME NEW j \in Goes(s, rings)
      PROVE  asked(PlaceIn(img, s, pos, j)) <=> j \in alike
  <2> DEFINE q == rings[j]
             h == img.mem[PlaceIn(img, s, pos, j)]
  <2>1. q \in Accepted /\ h = Header(SlotFor(q), Len(RingOf(q)), DdOf(q.dd), q.phase, q.override)
    BY <1>1, BlockInImage
  <2>2. h.back = SlotFor(q) /\ h.dd = DdOf(q.dd) /\ h.phase = q.phase /\ h.override = q.override
    BY <2>1 DEF Header
  <2>3. j \in DOMAIN rings
    BY DEF Goes
  <2> HIDE DEF h
  <2>4. Matches(h, DdOf(req.dd), phase) <=> DdOf(q.dd) = DdOf(req.dd) /\ q.phase \in {phase, 2}
    BY <2>2 DEF Matches
  <2>5. SlotFor(q) = SlotFor(req) => q.name = req.name
    <3>1. /\ q.name \in RingName /\ SlotFor(q) = SlotOf[q.name] + SlotIndex(q)
          /\ SlotIndex(q) \in 0 .. Elements(q.name) - 1
      BY <2>1, AcceptedFacts
    <3>2. /\ req.name \in RingName /\ SlotFor(req) = SlotOf[req.name] + SlotIndex(req)
          /\ SlotIndex(req) \in 0 .. Elements(req.name) - 1
      BY <1>2, AcceptedFacts
    <3> HIDE DEF q, req
    <3>3. /\ PairRing(SlotFor(q)) = <<q.name, SlotIndex(q)>>
          /\ PairRing(SlotFor(req)) = <<req.name, SlotIndex(req)>>
      BY <3>1, <3>2, PairOfSlot
    <3> QED BY <3>3
  <2>6. j \in alike <=> SameKey(q, req) /\ q.phase \in {phase, 2}
    BY <2>3 DEF Alike
  <2>7. SlotOf[req.name] + req.override = SlotFor(req)
    OBVIOUS
  <2>8. asked(PlaceIn(img, s, pos, j)) <=> /\ SlotFor(q) = SlotFor(req)
                                           /\ Matches(h, DdOf(req.dd), phase) /\ q.override = req.override
    BY <2>2, <2>7 DEF h
  <2> HIDE DEF q, req, asked
  <2> QED BY <2>4, <2>5, <2>6, <2>8 DEF SameKey
<1>6. wanted = {at \in Blocks(img, s) : asked(at)}
  BY DEF Wanted
<1> HIDE DEF asked, wanted, alike
<1>7. wanted = {PlaceIn(img, s, pos, j) : j \in alike}
  BY <1>3, <1>4, <1>5, <1>6
<1> QED BY <1>3, <1>7 DEF wanted, alike

(* It finds the first of them.                                             *)
LEMMA FirstIsRead ==
  ASSUME NEW img, Ready(img), QuickCheck(img, TRUE) = "OK",
         NEW rings \in Seq(Accepted), NEW k \in DOMAIN rings, Reflects(img, rings), NEW phase \in {0, 1},
         rings[k].phase \in {phase, 2}, SlotFor(rings[k]) = SlotOf[rings[k].name] + rings[k].override
  PROVE  LET r == ReadRing(img, rings[k].name, DdOf(rings[k].dd), phase, rings[k].override)
         IN  /\ r.rc = "OK"
             /\ r.data = rings[CHOOSE j \in Alike(rings, k, phase) :
                                   \A i \in Alike(rings, k, phase) : j <= i].data
<1> DEFINE req == rings[k]
           s == RingSection(req.name)
           alike == Alike(rings, k, phase)
           m == CHOOSE j \in alike : \A i \in alike : j <= i
           wanted == Wanted(img, req.name, DdOf(req.dd), phase, req.override)
           at == CHOOSE a \in wanted : \A b \in wanted : a <= b
           r == ReadRing(img, req.name, DdOf(req.dd), phase, req.override)
<1>1. PICK pos \in [DOMAIN rings -> Nat \ {0}] : \A t \in RingSections : Placed(Contents(img, t), t, rings, pos)
  BY DEF Reflects
<1>2. s \in RingSections /\ Placed(Contents(img, s), s, rings, pos)
  BY <1>1 DEF RingSection, RingSections
<1> DEFINE place(j) == PlaceIn(img, s, pos, j)
<1>3. alike \subseteq Goes(s, rings) /\ wanted = {place(j) : j \in alike}
  BY <1>2, WantedPlaced
<1>4. k \in alike /\ alike \subseteq Nat
  BY DEF Alike, SameKey
<1>5. m \in alike /\ \A i \in alike : m <= i
  <2> HIDE DEF alike
  <2>1. \E j \in alike : \A i \in alike : j <= i
    BY <1>4, LeastNatural
  <2> QED BY <2>1
<1>6. \A j \in alike : place(j) \in Nat
  <2> TAKE j \in alike
  <2>1. j \in Goes(s, rings)
    BY <1>3
  <2> HIDE DEF s, alike
  <2> QED BY <1>2, <2>1, BlockInImage
<1>7. ASSUME NEW j \in alike PROVE place(m) <= place(j)
  <2>1. m \in Goes(s, rings) /\ j \in Goes(s, rings) /\ m <= j /\ m \in Nat /\ j \in Nat
    BY <1>3, <1>4, <1>5
  <2>2. img.section[s].offset \in Nat /\ pos[m] \in Nat /\ pos[j] \in Nat
    <3>1. img \in Image /\ s \in Sections
      BY <1>2, RingAssumption DEF RingSections, Ready, LaidOut
    <3>2. m \in DOMAIN rings /\ j \in DOMAIN rings
      BY <2>1 DEF Goes
    <3> QED BY <3>1, <3>2, SectionType
  <2>3. m < j => pos[m] < pos[j]
    BY <1>2, <2>1 DEF Placed
  <2> HIDE DEF m, s, alike
  <2>4. pos[m] <= pos[j]
    BY <2>1, <2>2, <2>3
  <2> QED BY <2>2, <2>4 DEF PlaceIn
<1>8. wanted # {} /\ at = place(m)
  <2> HIDE DEF wanted, alike, m, place
  <2>1. place(m) \in wanted /\ \A b \in wanted : place(m) <= b
    BY <1>3, <1>5, <1>7
  <2>2. at \in wanted /\ \A b \in wanted : at <= b
    BY <2>1
  <2>3. wanted \subseteq Nat
    BY <1>3, <1>6
  <2> HIDE DEF at
  <2> QED BY <2>1, <2>2, <2>3
<1> DEFINE q == rings[m]
           b == RingOf(q)
<1>9. m \in Goes(s, rings)
  BY <1>3, <1>5
<1>10. /\ q \in Accepted /\ at \in Nat
       /\ \A i \in 1 .. Len(b) : img.mem[at + i - 1] = b[i]
       /\ img.mem[at] = Header(SlotFor(q), Len(b), DdOf(q.dd), q.phase, q.override)
  <2>1. PlaceIn(img, s, pos, m) = at
    BY <1>8
  <2>2. ASSUME NEW j \in Goes(s, rings)
        PROVE  LET a == PlaceIn(img, s, pos, j)
                   c == RingOf(rings[j])
               IN  /\ rings[j] \in Accepted /\ a \in Nat
                   /\ \A i \in 1 .. Len(c) : img.mem[a + i - 1] = c[i]
                   /\ img.mem[a] = Header(SlotFor(rings[j]), Len(c), DdOf(rings[j].dd), rings[j].phase, rings[j].override)
    BY <1>2, BlockInImage
  <2> HIDE DEF req, m, s, at, wanted, alike, r
  <2> QED BY <1>9, <2>1, <2>2
<1>11. /\ q.data \in Seq(Nat) /\ Len(b) = 1 + Len(q.data)
       /\ \A i \in DOMAIN q.data : b[i + 1] = Body(q.data[i])
  <2> HIDE DEF m
  <2> QED BY <1>10, AcceptedFacts
<1>12. Found(img, req.name)
  BY DEF Found, Ready, Extensible
<1>13. r.rc = "OK" /\ r.data = [i \in 1 .. img.mem[at].size - 1 |-> img.mem[at + i].data]
  <2>1. r = [rc |-> "OK", data |-> [i \in 1 .. img.mem[at].size - 1 |-> img.mem[at + i].data]]
    BY <1>8, <1>12 DEF ReadRing, DataAt
  <2> HIDE DEF r, at
  <2> QED BY <2>1
<1> HIDE DEF at, b, q
<1>14. img.mem[at].size = Len(b)
  BY <1>10 DEF Header
<1>15. Len(q.data) \in Nat /\ q.data = [i \in 1 .. Len(q.data) |-> q.data[i]] /\ DOMAIN q.data = 1 .. Len(q.data)
  BY <1>11
<1>16. ASSUME NEW i \in 1 .. Len(q.data) PROVE img.mem[at + i].data = q.data[i]
  <2>1. i + 1 \in 1 .. Len(b) /\ at + (i + 1) - 1 = at + i
    BY <1>10, <1>11, <1>15
  <2>2. img.mem[at + i] = b[i + 1]
    BY <1>10, <2>1
  <2>3. img.mem[at + i] = Body(q.data[i])
    BY <1>11, <1>15, <2>2
  <2> QED BY <2>3 DEF Body
<1>17. r.data = q.data
  <2>1. Len(b) - 1 = Len(q.data)
    BY <1>11, <1>15
  <2> HIDE DEF r
  <2>2. r.data = [i \in 1 .. Len(q.data) |-> img.mem[at + i].data]
    BY <1>13, <1>14, <2>1
  <2> QED BY <1>15, <1>16, <2>2
<1> QED BY <1>13, <1>17 DEF q

(* ReadsBack for every set of runs, requests and ends of a write: what is  *)
(* read back of a ring is what the first request for it has added.         *)
THEOREM RingsReadBack == ScanSpec => []ReadsBack
<1>1. FileInvariant => ReadsBack
  <2> SUFFICES ASSUME FileInvariant, chip = "p8", Whole, NEW k \in DOMAIN added, NEW phase \in {0, 1},
                      added[k].phase \in {phase, 2},
                      SlotFor(added[k]) = SlotOf[added[k].name] + added[k].override
               PROVE  LET r == ReadRing(file.image, added[k].name, DdOf(added[k].dd), phase, added[k].override)
                          same == Alike(added, k, phase)
                      IN  r.rc = "OK" /\ r.data = added[CHOOSE j \in same : \A i \in same : j <= i].data
    BY DEF ReadsBack, Alike
  <2>1. Ready(file.image) /\ Reflects(file.image, added) /\ added \in Seq(Accepted)
    BY DEF FileInvariant, FileOK
  <2>2. QuickCheck(file.image, TRUE) = "OK"
    <3>1. added # << >>
      BY DOMAIN << >> = {}
    <3> QED BY <3>1 DEF FileInvariant, FileOK
  <2> QED BY <2>1, <2>2, FirstIsRead
<1> QED BY <1>1, FileInductive, PTL
=============================================================================
