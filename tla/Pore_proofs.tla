---------------------------- MODULE Pore_proofs -----------------------------
(***************************************************************************)
(* What the PORE runs on the way of a ring to the chip, proved.            *)
(*                                                                         *)
(* A ring comes through its RS4 code and through both programs that scan   *)
(* it, for every length and contents: the code is read back turn by turn,  *)
(* and each operation on the hardware changes the bits that a set of       *)
(* positions says.  The macros that programs are written with leave in     *)
(* their target the bits that they are named for.                          *)
(***************************************************************************)
EXTENDS PgasMacros, RingScan, SequenceTheorems, WellFoundedInduction, TLAPS

(* A non-empty set of natural numbers has a least element.                 *)
LEMMA LeastOf ==
  ASSUME NEW T, T \subseteq Nat, T # {}
  PROVE  \E m \in T : \A x \in T : m <= x
<1> DEFINE R == {ss \in Nat \X Nat : ss[1] < ss[2]}
<1>1. IsWellFoundedOn(R, Nat)
  BY NatLessThanWellFounded DEF OpToRel
<1>2. \A x, m \in Nat : <<x, m>> \notin R => m <= x
  OBVIOUS
<1> HIDE DEF R
<1>3. \E m \in T : \A x \in T : <<x, m>> \notin R
  BY <1>1, WFMin, Zenon
<1> QED BY <1>2, <1>3

-----------------------------------------------------------------------------
(***************************************************************************)
(* Nibbles and runs of them.                                               *)
(***************************************************************************)

(* A nibble is a number of four bits, and these are its bits.              *)
LEMMA NibbleIsBits ==
  ASSUME NEW s, NEW i \in Nat
  PROVE  /\ Nibble(s, i) \in 0 .. 15
         /\ NibbleBits(Nibble(s, i)) = {b \in 0 .. 3 : 4 * i + b \in s}
         /\ Nibble(s, i) = 0 <=> \A b \in 0 .. 3 : 4 * i + b \notin s
<1> DEFINE v == Nibble(s, i)
           w0 == IF 4 * i \in s THEN 1 ELSE 0
           w1 == IF 4 * i + 1 \in s THEN 1 ELSE 0
           w2 == IF 4 * i + 2 \in s THEN 1 ELSE 0
           w3 == IF 4 * i + 3 \in s THEN 1 ELSE 0
<1>1. w0 \in 0 .. 1 /\ w1 \in 0 .. 1 /\ w2 \in 0 .. 1 /\ w3 \in 0 .. 1
  OBVIOUS
<1>2. v = 8 * w0 + 4 * w1 + 2 * w2 + w3
  BY DEF Nibble
<1>3. /\ w0 = 1 <=> 4 * i + 0 \in s
      /\ w1 = 1 <=> 4 * i + 1 \in s
      /\ w2 = 1 <=> 4 * i + 2 \in s
      /\ w3 = 1 <=> 4 * i + 3 \in s
  OBVIOUS
<1> HIDE DEF v, w0, w1, w2, w3
<1>4. /\ v \in 0 .. 15
      /\ (v \div 8) % 2 = w0
      /\ (v \div 4) % 2 = w1
      /\ (v \div 2) % 2 = w2
      /\ (v \div 1) % 2 = w3
  BY <1>1, <1>2
<1>5. \A b \in 0 .. 3 : (v \div Weights[b + 1]) % 2 = 1 <=> 4 * i + b \in s
  <2> SUFFICES ASSUME NEW b \in 0 .. 3
               PROVE  (v \div Weights[b + 1]) % 2 = 1 <=> 4 * i + b \in s
    OBVIOUS
  <2>1. CASE b = 0
    BY <2>1, <1>3, <1>4 DEF Weights
  <2>2. CASE b = 1
    BY <2>2, <1>3, <1>4 DEF Weights
  <2>3. CASE b = 2
    BY <2>3, <1>3, <1>4 DEF Weights
  <2>4. CASE b = 3
    BY <2>4, <1>3, <1>4 DEF Weights
  <2> QED BY <2>1, <2>2, <2>3, <2>4
<1>6. NibbleBits(v) = {b \in 0 .. 3 : 4 * i + b \in s}
  BY <1>5 DEF NibbleBits
<1>7. v = 0 <=> \A b \in 0 .. 3 : 4 * i + b \notin s
  <2>1. (\A b \in 0 .. 3 : 4 * i + b \notin s)
          <=> 4 * i + 0 \notin s /\ 4 * i + 1 \notin s /\ 4 * i + 2 \notin s /\ 4 * i + 3 \notin s
    OBVIOUS
  <2> QED BY <2>1, <1>1, <1>2, <1>3
<1> QED BY <1>4, <1>6, <1>7 DEF v

(* The run of zero nibbles.                                                *)
LEMMA ZeroRunIs ==
  ASSUME NEW s, NEW n \in Nat, NEW i \in 0 .. n
  PROVE  /\ ZeroRun(s, i, n) \in 0 .. n - i
         /\ \A k \in i .. i + ZeroRun(s, i, n) - 1 : Nibble(s, k) = 0
         /\ i + ZeroRun(s, i, n) = n \/ Nibble(s, i + ZeroRun(s, i, n)) # 0
<1> DEFINE Ends(z) == i + z = n \/ Nibble(s, i + z) # 0
           T == {z \in 0 .. n - i : Ends(z)}
<1>1. n - i \in T
  OBVIOUS
<1>2. T \subseteq Nat
  OBVIOUS
<1>3. PICK z \in T : \A x \in T : z <= x
  <2> HIDE DEF T
  <2> QED BY <1>1, <1>2, LeastOf
<1>4. \A k \in i .. i + z - 1 : Nibble(s, k) = 0
  <2> SUFFICES ASSUME NEW k \in i .. i + z - 1
               PROVE  Nibble(s, k) = 0
    OBVIOUS
  <2>1. k - i \in 0 .. n - i /\ ~ (z <= k - i) /\ i + (k - i) = k
    BY <1>3
  <2>2. k - i \notin T
    BY <2>1, <1>3
  <2> QED BY <2>1, <2>2
<1>5. z \in 0 .. n - i /\ Ends(z)
  BY <1>3
<1>6. \E x \in 0 .. n - i : /\ \A k \in i .. i + x - 1 : Nibble(s, k) = 0
                            /\ i + x = n \/ Nibble(s, i + x) # 0
  BY <1>4, <1>5
<1> QED BY <1>6 DEF ZeroRun

(* The run of nibbles that are scanned.                                    *)
LEMMA ScanRunIs ==
  ASSUME NEW s, NEW n \in Nat, NEW i \in 0 .. n - 1
  PROVE  /\ ScanRun(s, i, n) \in 1 .. 15
         /\ i + ScanRun(s, i, n) <= n
         /\ RunEnds(s, i, ScanRun(s, i, n), n)
<1> DEFINE T == {d \in 1 .. 15 : RunEnds(s, i, d, n)}
<1>1. 15 \in T /\ T \subseteq Nat
  BY DEF RunEnds
<1>2. PICK d \in T : \A x \in T : d <= x
  <2> HIDE DEF T
  <2> QED BY <1>1, LeastOf
<1>3. d \in 1 .. 15 /\ RunEnds(s, i, d, n)
  BY <1>2
<1>4. \A k \in 1 .. d - 1 : ~ RunEnds(s, i, k, n)
  BY <1>2, <1>3
<1>5. \E x \in 1 .. 15 : RunEnds(s, i, x, n) /\ \A k \in 1 .. x - 1 : ~ RunEnds(s, i, k, n)
  BY <1>3, <1>4
<1>6. /\ ScanRun(s, i, n) \in 1 .. 15
      /\ RunEnds(s, i, ScanRun(s, i, n), n)
      /\ \A k \in 1 .. ScanRun(s, i, n) - 1 : ~ RunEnds(s, i, k, n)
  BY <1>5 DEF ScanRun
<1>7. i + ScanRun(s, i, n) <= n
  <2> SUFFICES ASSUME i + ScanRun(s, i, n) > n
               PROVE  FALSE
    BY <1>6
  <2>1. n - i \in 1 .. ScanRun(s, i, n) - 1
    BY <1>6
  <2>2. RunEnds(s, i, n - i, n)
    BY DEF RunEnds
  <2> QED BY <2>1, <2>2, <1>6
<1> QED BY <1>6, <1>7

-----------------------------------------------------------------------------
(***************************************************************************)
(* Stop codes: the octal digits of a count, the last of them marked.       *)
(***************************************************************************)
DigitsOf(f, N) == f = [c \in 0 .. N |-> IF c = 0 THEN <<>> ELSE f[c \div 8] \o <<c % 8>>]
ValueOf(f, code, i, j) == f = [k \in i - 1 .. j |-> IF k < i THEN 0 ELSE 8 * f[k - 1] + (code[k] % 8)]
Holds(code, i, w) == \A q \in 1 .. Len(w) : code[i + q - 1] = w[q]

(* The recursive definition of the digits has a solution.                  *)
LEMMA DigitsExist ==
  ASSUME NEW N \in Nat
  PROVE  \E f : DigitsOf(f, N)
<1> DEFINE T == {n \in 0 .. N : ~ \E f : DigitsOf(f, n)}
<1> SUFFICES ASSUME T # {} PROVE FALSE
  OBVIOUS
<1>1. PICK last \in T : \A x \in T : last <= x
  <2>1. T \subseteq Nat
    OBVIOUS
  <2> HIDE DEF T
  <2> QED BY <2>1, LeastOf
<1>2. last # 0
  <2> DEFINE g == [c \in 0 .. 0 |-> <<>>]
  <2>1. g = [c \in 0 .. 0 |-> IF c = 0 THEN <<>> ELSE g[c \div 8] \o <<c % 8>>]
    OBVIOUS
  <2> HIDE DEF g
  <2>2. DigitsOf(g, 0)
    BY <2>1 DEF DigitsOf
  <2> QED BY <1>1, <2>2
<1>3. last \in Nat \ {0} /\ last - 1 \in 0 .. N /\ ~ (last <= last - 1)
  BY <1>1, <1>2
<1>4. last - 1 \notin T
  <2> HIDE DEF T
  <2> QED BY <1>1, <1>3
<1>5. PICK g : DigitsOf(g, last - 1)
  BY <1>3, <1>4
<1> DEFINE h == [c \in 0 .. last |-> IF c = 0 THEN <<>> ELSE g[c \div 8] \o <<c % 8>>]
<1>6. \A c \in 0 .. last - 1 : h[c] = g[c]
  <2>1. \A c \in 0 .. last - 1 : g[c] = IF c = 0 THEN <<>> ELSE g[c \div 8] \o <<c % 8>>
    BY <1>5 DEF DigitsOf
  <2>2. \A c \in 0 .. last - 1 : c \in 0 .. last
    BY <1>3
  <2> QED BY <2>1, <2>2
<1>7. \A c \in 0 .. last : c # 0 => c \div 8 \in 0 .. last - 1
  BY <1>3
<1>8. h = [c \in 0 .. last |-> IF c = 0 THEN <<>> ELSE h[c \div 8] \o <<c % 8>>]
  <2>1. \A c \in 0 .. last : (IF c = 0 THEN <<>> ELSE g[c \div 8] \o <<c % 8>>)
                           = (IF c = 0 THEN <<>> ELSE h[c \div 8] \o <<c % 8>>)
    <3> HIDE DEF h
    <3> QED BY <1>6, <1>7
  <2> QED BY <2>1
<1> HIDE DEF h
<1>9. DigitsOf(h, last)
  BY <1>8 DEF DigitsOf
<1> QED BY <1>1, <1>9

(* There are no more digits than the count, and none of them is marked.    *)
LEMMA DigitsAre ==
  ASSUME NEW N \in Nat, NEW f, DigitsOf(f, N)
  PROVE  \A c \in 0 .. N : f[c] \in Seq(0 .. 7) /\ Len(f[c]) <= c
<1> DEFINE P(c) == f[c] \in Seq(0 .. 7) /\ Len(f[c]) <= c
           T == {c \in 0 .. N : ~ P(c)}
<1> SUFFICES ASSUME T # {} PROVE FALSE
  OBVIOUS
<1>1. PICK c \in T : \A x \in T : c <= x
  <2>1. T \subseteq Nat
    OBVIOUS
  <2> HIDE DEF T
  <2> QED BY <2>1, LeastOf
<1>2. f[c] = IF c = 0 THEN <<>> ELSE f[c \div 8] \o <<c % 8>>
  BY <1>1 DEF DigitsOf
<1>3. c # 0
  <2> SUFFICES ASSUME c = 0 PROVE FALSE
    OBVIOUS
  <2>1. f[c] = <<>>
    BY <1>2
  <2>2. <<>> \in Seq(0 .. 7) /\ Len(<<>>) = 0
    OBVIOUS
  <2>3. P(c)
    BY <2>1, <2>2
  <2> QED BY <2>3, <1>1
<1>4. c \div 8 \in 0 .. N /\ c \div 8 + 1 <= c /\ ~ (c <= c \div 8) /\ c % 8 \in 0 .. 7
  BY <1>1, <1>3
<1>5. P(c \div 8)
  <2>1. c \div 8 \notin T
    <3> HIDE DEF T
    <3> QED BY <1>1, <1>4
  <2> HIDE DEF P
  <2> QED BY <2>1, <1>4
<1>6. P(c)
  <2> DEFINE w == f[c \div 8]
             q == c \div 8
  <2>1. w \in Seq(0 .. 7) /\ Len(w) <= q
    BY <1>5
  <2>2. f[c] = w \o <<c % 8>>
    BY <1>2, <1>3
  <2> HIDE DEF w, q
  <2>3. w \o <<c % 8>> \in Seq(0 .. 7) /\ Len(w \o <<c % 8>>) = Len(w) + 1
    BY <2>1, <1>4
  <2>4. q \in Nat /\ q + 1 <= c /\ c \in Nat
    BY <1>4, <1>1 DEF q
  <2>5. Len(w) \in Nat
    BY <2>1
  <2>6. Len(w) + 1 <= c
    BY <2>1, <2>4, <2>5
  <2> QED BY <2>2, <2>3, <2>6
<1> QED BY <1>1, <1>6

(* A stop code is the digits of an eighth of the count, and the last one.  *)
LEMMA StopEncodeIs ==
  ASSUME NEW z \in Nat
  PROVE  \E f : DigitsOf(f, z) /\ StopEncode(z) = f[z \div 8] \o <<8 + (z % 8)>>
<1> DEFINE high == CHOOSE f : DigitsOf(f, z)
<1>1. DigitsOf(high, z)
  BY DigitsExist
<1>2. StopEncode(z) = high[z \div 8] \o <<8 + (z % 8)>>
  BY DEF StopEncode, DigitsOf
<1> QED BY <1>1, <1>2

LEMMA StopEncodeBounds ==
  ASSUME NEW z \in Nat
  PROVE  /\ StopEncode(z) \in Seq(0 .. 15)
         /\ Len(StopEncode(z)) \in Nat \ {0}
         /\ Len(StopEncode(z)) <= 1 + z
         /\ z >= 2 => Len(StopEncode(z)) <= z - 1
<1>1. PICK f : DigitsOf(f, z) /\ StopEncode(z) = f[z \div 8] \o <<8 + (z % 8)>>
  BY StopEncodeIs
<1> DEFINE q == z \div 8
           w == f[q]
           d == 8 + (z % 8)
<1>2. q \in 0 .. z /\ d \in 8 .. 15 /\ (z >= 2 => q + 1 <= z - 1)
  OBVIOUS
<1>3. w \in Seq(0 .. 7) /\ Len(w) <= q
  BY <1>1, <1>2, DigitsAre
<1>4. StopEncode(z) = w \o <<d>>
  BY <1>1
<1> HIDE DEF q, w, d
<1>5. w \o <<d>> \in Seq(0 .. 15) /\ Len(w \o <<d>>) = Len(w) + 1 /\ Len(w) \in Nat
  <2>1. w \in Seq(0 .. 15)
    BY <1>3
  <2> QED BY <2>1, <1>2
<1> QED BY <1>2, <1>3, <1>4, <1>5

(* The recursive definition of the value of a stop code has a solution.    *)
LEMMA ValueExists ==
  ASSUME NEW N \in Nat, NEW code, NEW i \in Nat
  PROVE  \E f : ValueOf(f, code, i, i - 1 + N)
<1> DEFINE Some(n) == \E f : ValueOf(f, code, i, i - 1 + n)
           T == {n \in 0 .. N : ~ Some(n)}
<1> SUFFICES ASSUME T # {} PROVE FALSE
  <2>1. (\A n \in 0 .. N : Some(n)) => Some(N)
    <3> HIDE DEF Some
    <3> QED OBVIOUS
  <2> QED BY <2>1
<1>1. PICK last \in T : \A x \in T : last <= x
  <2>1. T \subseteq Nat
    OBVIOUS
  <2> HIDE DEF T
  <2> QED BY <2>1, LeastOf
<1>2. last # 0
  <2> DEFINE g == [k \in i - 1 .. i - 1 |-> 0]
  <2>1. g = [k \in i - 1 .. i - 1 |-> IF k < i THEN 0 ELSE 8 * g[k - 1] + (code[k] % 8)]
    OBVIOUS
  <2> HIDE DEF g
  <2>2. ValueOf(g, code, i, i - 1)
    BY <2>1 DEF ValueOf
  <2> QED BY <1>1, <2>2
<1>3. last \in Nat \ {0} /\ last - 1 \in 0 .. N /\ ~ (last <= last - 1)
  BY <1>1, <1>2
<1>4. last - 1 \notin T
  <2> HIDE DEF T
  <2> QED BY <1>1, <1>3
<1>5. PICK g : ValueOf(g, code, i, i - 1 + last - 1)
  BY <1>3, <1>4
<1> DEFINE h == [k \in i - 1 .. i - 1 + last |-> IF k < i THEN 0 ELSE 8 * g[k - 1] + (code[k] % 8)]
<1>6. \A k \in i - 1 .. i - 1 + last - 1 : h[k] = g[k]
  <2>1. \A k \in i - 1 .. i - 1 + last - 1 : g[k] = IF k < i THEN 0 ELSE 8 * g[k - 1] + (code[k] % 8)
    BY <1>5 DEF ValueOf
  <2>2. \A k \in i - 1 .. i - 1 + last - 1 : k \in i - 1 .. i - 1 + last
    BY <1>3
  <2> QED BY <2>1, <2>2
<1>7. \A k \in i - 1 .. i - 1 + last : ~ (k < i) => k - 1 \in i - 1 .. i - 1 + last - 1
  BY <1>3
<1>8. h = [k \in i - 1 .. i - 1 + last |-> IF k < i THEN 0 ELSE 8 * h[k - 1] + (code[k] % 8)]
  <2>1. \A k \in i - 1 .. i - 1 + last : (IF k < i THEN 0 ELSE 8 * g[k - 1] + (code[k] % 8))
                           = (IF k < i THEN 0 ELSE 8 * h[k - 1] + (code[k] % 8))
    <3> HIDE DEF h
    <3> QED BY <1>6, <1>7
  <2> QED BY <2>1
<1> HIDE DEF h
<1>9. ValueOf(h, code, i, i - 1 + last)
  BY <1>8 DEF ValueOf
<1> QED BY <1>1, <1>9

(* Read back from where it is in the code, a stop code is where it was put *)
(* and has the value that was put there.                                   *)
LEMMA StopIsRead ==
  ASSUME NEW code \in Seq(0 .. 15), NEW i \in Nat \ {0}, NEW z \in Nat,
         Holds(code, i, StopEncode(z)), i + Len(StopEncode(z)) - 1 <= Len(code)
  PROVE  /\ Stop(code, i) = i + Len(StopEncode(z)) - 1
         /\ StopDecode(code, i) = z
<1>1. PICK f : DigitsOf(f, z) /\ StopEncode(z) = f[z \div 8] \o <<8 + (z % 8)>>
  BY StopEncodeIs
<1> DEFINE e == z \div 8
           w == f[e]
           m == Len(w)
           d == 8 + (z % 8)
<1>2. e \in 0 .. z /\ d \in 8 .. 15 /\ d % 8 = z % 8 /\ z = 8 * e + (z % 8)
  OBVIOUS
<1>3. w \in Seq(0 .. 7) /\ m \in Nat
  BY <1>1, <1>2, DigitsAre
<1>4. Len(StopEncode(z)) = m + 1
  <2>1. StopEncode(z) = w \o <<d>>
    BY <1>1
  <2> HIDE DEF w, d
  <2> QED BY <1>3, <2>1
<1>5. Holds(code, i, w) /\ code[i + m] = d
  <2> DEFINE x == w \o <<d>>
  <2>1. StopEncode(z) = x
    BY <1>1
  <2>2. x[m + 1] = d /\ \A q \in 1 .. m : x[q] = w[q]
    <3> HIDE DEF w, d
    <3> QED BY <1>3
  <2> HIDE DEF x, w, m, d
  <2>3. \A q \in 1 .. m + 1 : code[i + q - 1] = x[q]
    BY <2>1, <1>4 DEF Holds
  <2>4. m + 1 \in 1 .. m + 1 /\ i + (m + 1) - 1 = i + m /\ \A q \in 1 .. m : q \in 1 .. m + 1
    BY <1>3
  <2>5. code[i + m] = d /\ \A q \in 1 .. m : code[i + q - 1] = w[q]
    BY <2>2, <2>3, <2>4
  <2> QED BY <2>5 DEF Holds, m
<1>6. \A k \in i .. i + m - 1 : code[k] \in 0 .. 7
  <2> SUFFICES ASSUME NEW k \in i .. i + m - 1
               PROVE  code[k] \in 0 .. 7
    OBVIOUS
  <2>1. k - i + 1 \in 1 .. m /\ i + (k - i + 1) - 1 = k
    BY <1>3
  <2>2. w[k - i + 1] \in 0 .. 7
    <3> HIDE DEF w
    <3> QED BY <1>3, <2>1
  <2> HIDE DEF w, m
  <2>3. code[i + (k - i + 1) - 1] = w[k - i + 1]
    BY <1>5, <2>1 DEF Holds, m
  <2> QED BY <2>1, <2>2, <2>3
<1> HIDE DEF w, m, d, e
<1>7. Stop(code, i) = i + m
  <2> DEFINE Found(j) == j \in i .. Len(code) /\ code[j] >= 8 /\ \A k \in i .. j - 1 : code[k] < 8
  <2>1. Found(i + m)
    <3>1. i + m \in i .. Len(code)
      BY <1>3, <1>4
    <3>2. code[i + m] >= 8
      BY <1>2, <1>5
    <3> QED BY <3>1, <3>2, <1>3, <1>6, SMTT(30)
  <2>2. \A j : Found(j) => j = i + m
    <3> SUFFICES ASSUME NEW j, Found(j), j # i + m
                 PROVE  FALSE
      OBVIOUS
    <3>1. CASE j < i + m
      <4>1. j \in i .. i + m - 1
        BY <3>1, <1>3
      <4> QED BY <4>1, <1>6
    <3>2. CASE j > i + m
      <4>1. i + m \in i .. j - 1
        BY <3>2, <1>3
      <4>2. code[i + m] < 8
        BY <4>1
      <4> QED BY <4>2, <1>2, <1>5
    <3> QED BY <3>1, <3>2, <1>3
  <2>3. Stop(code, i) = CHOOSE j : Found(j)
    BY DEF Stop
  <2> HIDE DEF Found
  <2> QED BY <2>1, <2>2, <2>3
<1> DEFINE v == CHOOSE g : ValueOf(g, code, i, i + m)
<1>8. ValueOf(v, code, i, i + m)
  <2>1. m + 1 \in Nat /\ i - 1 + (m + 1) = i + m /\ i \in Nat
    BY <1>3
  <2>2. \E g : ValueOf(g, code, i, i - 1 + (m + 1))
    BY <2>1, ValueExists
  <2> QED BY <2>1, <2>2
<1>9. StopDecode(code, i) = v[i + m]
  BY <1>7 DEF StopDecode, ValueOf
<1> HIDE DEF v
<1>10. \A k \in i - 1 .. i + m : v[k] = IF k < i THEN 0 ELSE 8 * v[k - 1] + (code[k] % 8)
  BY <1>8 DEF ValueOf
<1> DEFINE Read(c) == Len(f[c]) <= m /\ Holds(code, i, f[c]) => v[i + Len(f[c]) - 1] = c
<1>11. \A c \in 0 .. z : Read(c)
  <2> DEFINE T == {c \in 0 .. z : ~ Read(c)}
  <2> SUFFICES ASSUME T # {} PROVE FALSE
    OBVIOUS
  <2>1. PICK c \in T : \A x \in T : c <= x
    <3>1. T \subseteq Nat
      OBVIOUS
    <3> HIDE DEF T
    <3> QED BY <3>1, LeastOf
  <2>2. f[c] = IF c = 0 THEN <<>> ELSE f[c \div 8] \o <<c % 8>>
    BY <1>1, <2>1 DEF DigitsOf
  <2>3. c # 0
    <3> SUFFICES ASSUME c = 0 PROVE FALSE
      OBVIOUS
    <3>1. Len(f[c]) = 0
      BY <2>2
    <3>2. v[i - 1] = 0
      BY <1>3, <1>10
    <3>3. i + 0 - 1 = i - 1
      OBVIOUS
    <3> QED BY <2>1, <3>1, <3>2, <3>3
  <2> DEFINE b == c \div 8
             u == f[b]
  <2>4. b \in 0 .. z /\ ~ (c <= b) /\ c % 8 \in 0 .. 7 /\ c = 8 * b + (c % 8) /\ (c % 8) % 8 = c % 8 /\ c \in 0 .. z
    BY <2>1, <2>3
  <2>5. u \in Seq(0 .. 7)
    BY <2>4, <1>1, DigitsAre
  <2>6. f[c] = u \o <<c % 8>>
    BY <2>2, <2>3
  <2>7. Len(f[c]) <= m /\ Holds(code, i, f[c]) /\ ~ (v[i + Len(f[c]) - 1] = c)
    BY <2>1
  <2>8. Read(b)
    <3>1. b \notin T
      <4> HIDE DEF T, b
      <4> QED BY <2>1, <2>4
    <3> HIDE DEF Read, b
    <3> QED BY <3>1, <2>4
  <2>81. Len(u) <= m /\ Holds(code, i, u) => v[i + Len(u) - 1] = b
    BY <2>8
  <2>9. Len(f[c]) = Len(u) + 1 /\ Len(u) \in Nat /\ f[c][Len(u) + 1] = c % 8 /\ \A q \in 1 .. Len(u) : f[c][q] = u[q]
    <3> HIDE DEF u, b
    <3> QED BY <2>5, <2>6, <2>4
  <2> HIDE DEF u
  <2>10. Holds(code, i, u) /\ code[i + Len(u)] = c % 8
    <3>1. \A q \in 1 .. Len(u) + 1 : code[i + q - 1] = f[c][q]
      BY <2>7, <2>9 DEF Holds
    <3>2. Len(u) + 1 \in 1 .. Len(u) + 1 /\ i + (Len(u) + 1) - 1 = i + Len(u)
      BY <2>9
    <3>3. \A q \in 1 .. Len(u) : q \in 1 .. Len(u) + 1
      BY <2>9
    <3> QED BY <2>9, <3>1, <3>2, <3>3, SMTT(30) DEF Holds
  <2>11. v[i + Len(u) - 1] = b
    <3>1. Len(u) <= m
      BY <2>7, <2>9, <1>3
    <3> QED BY <3>1, <2>81, <2>10
  <2>12. v[i + Len(u)] = 8 * v[i + Len(u) - 1] + (code[i + Len(u)] % 8)
    <3>0. i \in Int /\ m \in Int /\ Len(u) \in Nat /\ Len(u) + 1 <= m
      BY <2>7, <2>9, <1>3
    <3> HIDE DEF u
    <3>1. i + Len(u) \in i - 1 .. i + m /\ ~ (i + Len(u) < i)
      BY <3>0
    <3> QED BY <3>1, <1>10
  <2>13. v[i + Len(u)] = c
    <3> HIDE DEF b
    <3> QED BY <2>4, <2>10, <2>11, <2>12
  <2>14. i + Len(f[c]) - 1 = i + Len(u)
    BY <2>9
  <2> QED BY <2>7, <2>13, <2>14
<1>12. v[i + m - 1] = e
  <2>1. Read(e)
    <3> HIDE DEF Read
    <3> QED BY <1>2, <1>11
  <2> QED BY <2>1, <1>5, <1>3 DEF w, m
<1>13. v[i + m] = 8 * v[i + m - 1] + (code[i + m] % 8)
  <2>1. i + m \in i - 1 .. i + m /\ ~ (i + m < i)
    BY <1>3
  <2> QED BY <2>1, <1>3, <1>10
<1>14. v[i + m] = z
  BY <1>2, <1>5, <1>12, <1>13 DEF d
<1> QED BY <1>4, <1>7, <1>9, <1>14, <1>3

-----------------------------------------------------------------------------
(***************************************************************************)
(* The code from a nibble of the ring on, and what a turn of it reads as.  *)
(***************************************************************************)
CodesOf(f, first, s, n, r) ==
    f = [i \in first .. n |->
            LET j == Onward(s, i, n)
            IN  IF j = n THEN EndCode(s, i, n, r) ELSE TurnCode(s, i, n) \o f[j + ScanRun(s, j, n)]]

(* A turn goes on in the ring, and not over its end.                       *)
LEMMA TurnGoesOn ==
  ASSUME NEW s, NEW n \in Nat, NEW i \in 0 .. n
  PROVE  /\ Onward(s, i, n) \in i .. n
         /\ Onward(s, i, n) # n => Onward(s, i, n) + ScanRun(s, Onward(s, i, n), n) \in i + 1 .. n
<1> DEFINE z == ZeroRun(s, i, n)
<1>1. z \in 0 .. n - i /\ Onward(s, i, n) = i + z
  BY ZeroRunIs DEF Onward
<1> HIDE DEF z
<1>2. Onward(s, i, n) \in i .. n
  BY <1>1
<1> SUFFICES ASSUME Onward(s, i, n) # n
             PROVE  Onward(s, i, n) + ScanRun(s, Onward(s, i, n), n) \in i + 1 .. n
  BY <1>2
<1> DEFINE j == Onward(s, i, n)
           d == ScanRun(s, j, n)
<1>3. j \in 0 .. n - 1 /\ j >= i
  BY <1>2
<1> HIDE DEF j
<1>4. d \in 1 .. 15 /\ j + d <= n
  BY <1>3, ScanRunIs
<1> HIDE DEF d
<1>5. j + d \in i + 1 .. n
  BY <1>3, <1>4
<1> QED BY <1>5 DEF j, d

(* The recursive definition of the code has a solution.                    *)
LEMMA CodesExist ==
  ASSUME NEW s, NEW n \in Nat, NEW r
  PROVE  \E f : CodesOf(f, 0, s, n, r)
<1> DEFINE Some(m) == \E f : CodesOf(f, n - m, s, n, r)
           T == {m \in 0 .. n : ~ Some(m)}
           Code(f, i) == LET j == Onward(s, i, n)
                         IN  IF j = n THEN EndCode(s, i, n, r) ELSE TurnCode(s, i, n) \o f[j + ScanRun(s, j, n)]
<1> SUFFICES ASSUME T # {} PROVE FALSE
  <2>1. (\A m \in 0 .. n : Some(m)) => Some(n)
    <3> HIDE DEF Some
    <3> QED OBVIOUS
  <2>2. n - n = 0
    OBVIOUS
  <2> QED BY <2>1, <2>2
<1>1. PICK last \in T : \A x \in T : last <= x
  <2>1. T \subseteq Nat
    OBVIOUS
  <2> HIDE DEF T
  <2> QED BY <2>1, LeastOf
<1>2. last \in 0 .. n
  BY <1>1
<1>3. \E g : last # 0 => CodesOf(g, n - (last - 1), s, n, r)
  <2> SUFFICES ASSUME last # 0
               PROVE  \E g : CodesOf(g, n - (last - 1), s, n, r)
    OBVIOUS
  <2>1. last - 1 \in 0 .. n /\ ~ (last <= last - 1)
    BY <1>2
  <2>2. last - 1 \notin T
    <3> HIDE DEF T
    <3> QED BY <1>1, <2>1
  <2>3. Some(last - 1)
    <3> HIDE DEF Some
    <3> QED BY <2>1, <2>2
  <2> QED BY <2>3
<1>4. PICK g : last # 0 => CodesOf(g, n - (last - 1), s, n, r)
  BY <1>3
<1> DEFINE first == n - last
           h == [i \in first .. n |-> Code(g, i)]
<1>5. \A i \in first + 1 .. n : h[i] = g[i]
  <2> SUFFICES ASSUME NEW i \in first + 1 .. n
               PROVE  h[i] = g[i]
    OBVIOUS
  <2>1. last # 0 /\ i \in n - (last - 1) .. n /\ i \in first .. n
    BY <1>2
  <2>2. g = [k \in n - (last - 1) .. n |-> Code(g, k)]
    BY <1>4, <2>1 DEF CodesOf
  <2> HIDE DEF Code
  <2>3. g[i] = Code(g, i)
    BY <2>1, <2>2
  <2> QED BY <2>1, <2>3
<1>6. \A i \in first .. n : Code(g, i) = Code(h, i)
  <2> SUFFICES ASSUME NEW i \in first .. n
               PROVE  Code(g, i) = Code(h, i)
    OBVIOUS
  <2> DEFINE j == Onward(s, i, n)
             k == j + ScanRun(s, j, n)
  <2>1. i \in 0 .. n
    BY <1>2
  <2>2. j # n => k \in i + 1 .. n
    BY <2>1, TurnGoesOn
  <2> HIDE DEF h, k
  <2>3. j # n => k \in first + 1 .. n
    BY <2>2, <1>2
  <2>4. j # n => h[k] = g[k]
    BY <2>3, <1>5
  <2> HIDE DEF first, j
  <2> QED BY <2>4 DEF k, j
<1>7. h = [i \in first .. n |-> Code(h, i)]
  <2> HIDE DEF Code
  <2>1. h = [i \in first .. n |-> Code(g, i)]
    OBVIOUS
  <2> HIDE DEF h
  <2> QED BY <2>1, <1>6
<1> HIDE DEF h
<1>8. CodesOf(h, n - last, s, n, r)
  BY <1>7 DEF CodesOf
<1> QED BY <1>1, <1>8

(* The code of a ring is what there is from its first nibble on.           *)
LEMMA CompressedIs ==
  ASSUME NEW s, NEW length \in Nat
  PROVE  \E f : CodesOf(f, 0, s, length \div 4, length % 4) /\ Compressed(s, length) = f[0]
<1> DEFINE n == length \div 4
           from == CHOOSE f : CodesOf(f, 0, s, n, length % 4)
<1>1. n \in Nat
  OBVIOUS
<1>2. CodesOf(from, 0, s, n, length % 4)
  BY <1>1, CodesExist
<1>3. Compressed(s, length) = from[0]
  BY DEF Compressed, CodesOf
<1> QED BY <1>2, <1>3

(* The code from nibble i on.                                              *)
LEMMA CodeFrom ==
  ASSUME NEW s, NEW n \in Nat, NEW r, NEW f, CodesOf(f, 0, s, n, r), NEW i \in 0 .. n
  PROVE  /\ Onward(s, i, n) = n => f[i] = EndCode(s, i, n, r)
         /\ Onward(s, i, n) # n =>
               f[i] = TurnCode(s, i, n) \o f[Onward(s, i, n) + ScanRun(s, Onward(s, i, n), n)]
BY DEF CodesOf

(* The last turn of a code, and the others.                                *)
IsEndCode(u, w, x, r) ==
    /\ u \in Seq(0 .. 15)
    /\ Len(u) = Len(w) + 2 + (IF r = 0 THEN 0 ELSE 1)
    /\ \A q \in 1 .. Len(w) : u[q] = w[q]
    /\ u[Len(w) + 1] = 0
    /\ u[Len(w) + 2] = r
    /\ r # 0 => u[Len(w) + 3] = x
LEMMA EndCodeIs ==
  ASSUME NEW s, NEW n \in Nat, NEW i \in 0 .. n, NEW r \in 0 .. 3
  PROVE  IsEndCode(EndCode(s, i, n, r), StopEncode(n - i), Nibble(s, n), r)
<1> DEFINE w == StopEncode(n - i)
           x == Nibble(s, n)
<1>1. w \in Seq(0 .. 15) /\ x \in 0 .. 15
  BY StopEncodeBounds, NibbleIsBits
<1>2. EndCode(s, i, n, r) = w \o <<0, r>> \o (IF r = 0 THEN <<>> ELSE <<x>>)
  BY DEF EndCode
<1> HIDE DEF w, x
<1>3. CASE r = 0
  <2> DEFINE u == w \o <<0, r>>
  <2>1. EndCode(s, i, n, r) = u
    <3>1. EndCode(s, i, n, r) = (w \o <<0, r>>) \o <<>>
      BY <1>2, <1>3
    <3> QED BY <3>1, <1>1
  <2>2. u \in Seq(0 .. 15) /\ Len(u) = Len(w) + 2 /\ u[Len(w) + 1] = 0 /\ u[Len(w) + 2] = r
        /\ \A q \in 1 .. Len(w) : u[q] = w[q]
    BY <1>1
  <2> HIDE DEF u
  <2>3. IsEndCode(u, w, x, r)
    BY <1>3, <2>2 DEF IsEndCode
  <2> QED BY <2>1, <2>3 DEF w, x
<1>4. CASE r # 0
  <2> DEFINE u == w \o <<0, r, x>>
  <2>1. EndCode(s, i, n, r) = u
    <3>1. EndCode(s, i, n, r) = (w \o <<0, r>>) \o <<x>>
      BY <1>2, <1>4
    <3> QED BY <3>1, <1>1
  <2>2. u \in Seq(0 .. 15) /\ Len(u) = Len(w) + 3 /\ u[Len(w) + 1] = 0 /\ u[Len(w) + 2] = r /\ u[Len(w) + 3] = x
        /\ \A q \in 1 .. Len(w) : u[q] = w[q]
    BY <1>1
  <2> HIDE DEF u
  <2>3. IsEndCode(u, w, x, r)
    BY <1>4, <2>2 DEF IsEndCode
  <2> QED BY <2>1, <2>3 DEF w, x
<1> QED BY <1>3, <1>4

LEMMA TurnCodeIs ==
  ASSUME NEW s, NEW n \in Nat, NEW i \in 0 .. n, Onward(s, i, n) # n
  PROVE  /\ TurnCode(s, i, n) \in Seq(0 .. 15)
         /\ Len(TurnCode(s, i, n)) = Len(StopEncode(Onward(s, i, n) - i)) + 1 + ScanRun(s, Onward(s, i, n), n)
         /\ \A q \in 1 .. Len(StopEncode(Onward(s, i, n) - i)) : TurnCode(s, i, n)[q] = StopEncode(Onward(s, i, n) - i)[q]
         /\ TurnCode(s, i, n)[Len(StopEncode(Onward(s, i, n) - i)) + 1] = ScanRun(s, Onward(s, i, n), n)
         /\ \A k \in 1 .. ScanRun(s, Onward(s, i, n), n) :
               TurnCode(s, i, n)[Len(StopEncode(Onward(s, i, n) - i)) + 1 + k] = Nibble(s, Onward(s, i, n) + k - 1)
<1> DEFINE j == Onward(s, i, n)
           d == ScanRun(s, j, n)
           w == StopEncode(j - i)
           x == [k \in 1 .. d |-> Nibble(s, j + k - 1)]
<1>1. j \in 0 .. n - 1 /\ j - i \in Nat
  BY TurnGoesOn
<1>2. w \in Seq(0 .. 15)
  BY <1>1, StopEncodeBounds
<1>3. d \in 1 .. 15
  BY <1>1, ScanRunIs
<1>4. TurnCode(s, i, n) = w \o <<d>> \o x
  BY DEF TurnCode
<1>5. x \in Seq(0 .. 15) /\ Len(x) = d
  <2> HIDE DEF j, d
  <2>1. \A k \in 1 .. d : Nibble(s, j + k - 1) \in 0 .. 15
    <3> SUFFICES ASSUME NEW k \in 1 .. d
                 PROVE  Nibble(s, j + k - 1) \in 0 .. 15
      OBVIOUS
    <3>1. j + k - 1 \in Nat
      BY <1>1, <1>3
    <3> QED BY <3>1, NibbleIsBits
  <2> QED BY <1>3, <2>1
<1>6. \A k \in 1 .. d : x[k] = Nibble(s, j + k - 1)
  OBVIOUS
<1> DEFINE u == w \o <<d>> \o x
<1>7. /\ u \in Seq(0 .. 15)
      /\ Len(u) = Len(w) + 1 + d
      /\ \A q \in 1 .. Len(w) : u[q] = w[q]
      /\ u[Len(w) + 1] = d
      /\ \A k \in 1 .. d : u[Len(w) + 1 + k] = x[k]
  <2> HIDE DEF w, x, d
  <2>1. d \in 0 .. 15 /\ d \in Nat
    BY <1>3
  <2> DEFINE wd == w \o <<d>>
  <2>2. /\ wd \in Seq(0 .. 15) /\ Len(wd) = Len(w) + 1 /\ Len(w) \in Nat
        /\ \A q \in 1 .. Len(w) : wd[q] = w[q]
        /\ wd[Len(w) + 1] = d
    BY <1>2, <2>1
  <2> HIDE DEF wd
  <2>3. /\ wd \o x \in Seq(0 .. 15) /\ Len(wd \o x) = Len(wd) + Len(x)
        /\ \A q \in 1 .. Len(wd) : (wd \o x)[q] = wd[q]
        /\ \A k \in 1 .. Len(x) : (wd \o x)[Len(wd) + k] = x[k]
    BY <1>5, <2>2
  <2>4. u = wd \o x
    BY DEF wd
  <2> HIDE DEF u
  <2>5. \A q \in 1 .. Len(w) : q \in 1 .. Len(wd)
    BY <2>2
  <2>6. Len(w) + 1 \in 1 .. Len(wd)
    BY <2>2
  <2> QED BY <1>5, <2>2, <2>3, <2>4, <2>5, <2>6
<1> HIDE DEF u, x, w, d, j
<1>8. \A k \in 1 .. d : u[Len(w) + 1 + k] = Nibble(s, j + k - 1)
  BY <1>6, <1>7
<1> QED BY <1>4, <1>7, <1>8 DEF u, w, d, j

(* The rest of the code, from nibble p on, is w.                           *)
Rest(code, p, w) == p \in Nat \ {0} /\ Len(code) = p - 1 + Len(w) /\ Holds(code, p, w)
TurnIs(code, p, rotate, scan) ==
    /\ Turn(code, p).rotate = rotate /\ Turn(code, p).scan = scan /\ Turn(code, p).next > p
    /\ Stop(code, p) \in Nat /\ code[Stop(code, p) + 1] = Len(scan)
AtEnd(code, next, s, n, r) ==
    next \in 1 .. Len(code) /\ code[next] = r /\ (r # 0 => code[next + 1] = Nibble(s, n))
Scan(s, j, n) == [k \in 1 .. ScanRun(s, j, n) |-> Nibble(s, j + k - 1)]

LEMMA ScanTyped ==
  ASSUME NEW s, NEW n \in Nat, NEW j \in 0 .. n - 1
  PROVE  /\ Scan(s, j, n) \in Seq(0 .. 15)
         /\ Len(Scan(s, j, n)) = ScanRun(s, j, n)
         /\ DOMAIN Scan(s, j, n) = 1 .. ScanRun(s, j, n)
<1> DEFINE d == ScanRun(s, j, n)
           scan == [k \in 1 .. d |-> Nibble(s, j + k - 1)]
<1>1. d \in 1 .. 15
  BY ScanRunIs
<1> HIDE DEF d
<1>2. \A k \in 1 .. d : Nibble(s, j + k - 1) \in 0 .. 15
  <2> SUFFICES ASSUME NEW k \in 1 .. d
               PROVE  Nibble(s, j + k - 1) \in 0 .. 15
    OBVIOUS
  <2>1. j + k - 1 \in Nat
    BY <1>1
  <2> QED BY <2>1, NibbleIsBits
<1>3. scan \in Seq(0 .. 15) /\ Len(scan) = d /\ DOMAIN scan = 1 .. d
  BY <1>1, <1>2
<1> QED BY <1>3 DEF Scan, d

LEMMA CodesTyped ==
  ASSUME NEW s, NEW n \in Nat, NEW r \in 0 .. 3, NEW f, CodesOf(f, 0, s, n, r)
  PROVE  \A i \in 0 .. n : f[i] \in Seq(0 .. 15) /\ Len(f[i]) >= 3
<1> DEFINE P(i) == f[i] \in Seq(0 .. 15) /\ Len(f[i]) >= 3
           T == {m \in 0 .. n : ~ P(n - m)}
<1> SUFFICES ASSUME T # {} PROVE FALSE
  <2>1. ASSUME NEW i \in 0 .. n, T = {}
        PROVE  P(i)
    <3>1. n - i \in 0 .. n /\ n - (n - i) = i
      OBVIOUS
    <3> HIDE DEF P
    <3> QED BY <2>1, <3>1
  <2> QED BY <2>1
<1>1. PICK m \in T : \A x \in T : m <= x
  <2>1. T \subseteq Nat
    OBVIOUS
  <2> HIDE DEF T
  <2> QED BY <2>1, LeastOf
<1> DEFINE i == n - m
           j == Onward(s, i, n)
<1>2. i \in 0 .. n /\ m \in 0 .. n /\ n - i = m
  BY <1>1
<1> HIDE DEF i
<1>3. CASE j = n
  <2>1. f[i] = EndCode(s, i, n, r)
    BY <1>2, <1>3, CodeFrom, ZenonT(30)
  <2>2. Len(StopEncode(n - i)) \in Nat \ {0}
    <3> HIDE DEF T, j
    <3>1. n - i \in Nat
      BY <1>2
    <3> QED BY <3>1, StopEncodeBounds, Zenon
  <2>3. IsEndCode(EndCode(s, i, n, r), StopEncode(n - i), Nibble(s, n), r)
    BY <1>2, EndCodeIs, Zenon
  <2>4. EndCode(s, i, n, r) \in Seq(0 .. 15) /\ Len(EndCode(s, i, n, r)) >= 3
    <3> HIDE DEF T, j
    <3> QED BY <2>2, <2>3 DEF IsEndCode
  <2>5. P(i)
    BY <2>1, <2>4
  <2> QED BY <2>5, <1>1 DEF i
<1>4. CASE j # n
  <2> DEFINE b == j + ScanRun(s, j, n)
  <2>1. b \in i + 1 .. n
    BY <1>2, <1>4, TurnGoesOn
  <2>2. f[i] = TurnCode(s, i, n) \o f[b]
    BY <1>2, <1>4, CodeFrom, ZenonT(30)
  <2>3. TurnCode(s, i, n) \in Seq(0 .. 15)
    BY <1>2, <1>4, TurnCodeIs
  <2> HIDE DEF b, j
  <2>4. n - b \in 0 .. n /\ ~ (m <= n - b) /\ n - (n - b) = b
    BY <2>1, <1>2 DEF i
  <2>5. n - b \notin T
    <3> HIDE DEF T
    <3> QED BY <2>4, <1>1
  <2>6. P(b)
    <3> HIDE DEF P
    <3> QED BY <2>4, <2>5
  <2>7. P(i)
    <3> DEFINE u == TurnCode(s, i, n)
               v == f[b]
    <3>1. u \in Seq(0 .. 15) /\ v \in Seq(0 .. 15) /\ Len(v) >= 3
      BY <2>3, <2>6
    <3> HIDE DEF u, v
    <3>2. u \o v \in Seq(0 .. 15) /\ Len(u \o v) >= 3
      BY <3>1
    <3> QED BY <3>2, <2>2 DEF u, v
  <2> QED BY <2>7, <1>1 DEF i
<1> QED BY <1>3, <1>4

(* The end of the code is read as a turn that scans nothing, before the    *)
(* number of bits that remain and their nibble.                            *)
LEMMA EndIsRead ==
  ASSUME NEW s, NEW n \in Nat, NEW r \in 0 .. 3, NEW i \in 0 .. n, NEW code \in Seq(0 .. 15), NEW p,
         Rest(code, p, EndCode(s, i, n, r))
  PROVE  TurnIs(code, p, n - i, <<>>) /\ AtEnd(code, Turn(code, p).next, s, n, r)
<1> DEFINE z == n - i
           w == StopEncode(z)
           u == EndCode(s, i, n, r)
           m == Len(w)
<1>1. z \in Nat /\ z = n - i /\ p \in Nat \ {0}
  BY DEF Rest
<1> HIDE DEF z
<1>2. w \in Seq(0 .. 15) /\ m \in Nat \ {0}
  BY <1>1, StopEncodeBounds
<1>3. /\ Len(u) = m + 2 + (IF r = 0 THEN 0 ELSE 1)
      /\ \A q \in 1 .. m : u[q] = w[q]
      /\ u[m + 1] = 0
      /\ u[m + 2] = r
      /\ r # 0 => u[m + 3] = Nibble(s, n)
  <2>1. IsEndCode(u, w, Nibble(s, n), r)
    BY EndCodeIs, Zenon DEF z
  <2> HIDE DEF u, w
  <2> QED BY <2>1 DEF IsEndCode
<1>4. Len(code) = p - 1 + Len(u) /\ \A q \in 1 .. Len(u) : code[p + q - 1] = u[q]
  BY DEF Rest, Holds
<1> HIDE DEF u
<1>5. Holds(code, p, w) /\ p + m - 1 <= Len(code)
  <2> HIDE DEF w
  <2>1. \A q \in 1 .. m : q \in 1 .. Len(u)
    BY <1>2, <1>3
  <2>2. \A q \in 1 .. m : code[p + q - 1] = w[q]
    BY <1>3, <1>4, <2>1
  <2> QED BY <2>2, <1>1, <1>2, <1>3, <1>4 DEF Holds
<1>6. Stop(code, p) = p + m - 1 /\ StopDecode(code, p) = z
  BY <1>1, <1>5, StopIsRead
<1> HIDE DEF w, m
<1>7. code[p + m] = 0 /\ code[p + m + 1] = r /\ (r # 0 => code[p + m + 2] = Nibble(s, n))
  <2>1. /\ m + 1 \in 1 .. Len(u) /\ m + 2 \in 1 .. Len(u) /\ (r # 0 => m + 3 \in 1 .. Len(u))
        /\ p + (m + 1) - 1 = p + m /\ p + (m + 2) - 1 = p + m + 1 /\ p + (m + 3) - 1 = p + m + 2
    BY <1>1, <1>2, <1>3
  <2> QED BY <2>1, <1>3, <1>4
<1>8. Stop(code, p) + 1 = p + m /\ p + m + 0 + 1 = p + m + 1 /\ Stop(code, p) \in Nat
  BY <1>1, <1>2, <1>6
<1> DEFINE t == Turn(code, p)
<1>9. t = [rotate |-> z, scan |-> SubSeq(code, p + m + 1, p + m + 0), next |-> p + m + 1]
  BY <1>6, <1>7, <1>8 DEF Turn
<1>10. SubSeq(code, p + m + 1, p + m + 0) = <<>>
  BY <1>1, <1>2
<1>11. t.rotate = z /\ t.scan = <<>> /\ t.next = p + m + 1
  BY <1>1, <1>9, <1>10
<1> HIDE DEF t
<1>12. p + m + 1 \in 1 .. Len(code) /\ p + m + 1 + 1 = p + m + 2 /\ p + m + 1 > p
  BY <1>1, <1>2, <1>3, <1>4
<1>13. AtEnd(code, p + m + 1, s, n, r)
  BY <1>7, <1>12 DEF AtEnd
<1>14. TurnIs(code, p, z, <<>>)
  <2>1. t.next > p
    BY <1>11, <1>12
  <2>2. Turn(code, p).rotate = z /\ Turn(code, p).scan = <<>> /\ Turn(code, p).next > p
    BY <1>11, <2>1 DEF t
  <2>3. Stop(code, p) \in Nat /\ code[Stop(code, p) + 1] = Len(<<>>)
    BY <1>7, <1>8
  <2> QED BY <2>2, <2>3, Zenon DEF TurnIs
<1> QED BY <1>11, <1>13, <1>14 DEF t, z

(* Another turn is read as it was written, and what is left is the code    *)
(* from its end on.                                                        *)
LEMMA TurnIsRead ==
  ASSUME NEW s, NEW n \in Nat, NEW i \in 0 .. n, Onward(s, i, n) # n,
         NEW code \in Seq(0 .. 15), NEW p, NEW rest \in Seq(0 .. 15), Rest(code, p, TurnCode(s, i, n) \o rest)
  PROVE  /\ TurnIs(code, p, Onward(s, i, n) - i, Scan(s, Onward(s, i, n), n))
         /\ Rest(code, Turn(code, p).next, rest)
<1> DEFINE j == Onward(s, i, n)
           d == ScanRun(s, j, n)
           w == StopEncode(j - i)
           u == TurnCode(s, i, n)
           m == Len(w)
<1>1. j \in 0 .. n - 1 /\ j - i \in Nat /\ p \in Nat \ {0}
  BY TurnGoesOn DEF Rest
<1>2. w \in Seq(0 .. 15) /\ m \in Nat \ {0}
  BY <1>1, StopEncodeBounds
<1>3. d \in 1 .. 15
  BY <1>1, ScanRunIs
<1>4. /\ u \in Seq(0 .. 15)
      /\ Len(u) = m + 1 + d
      /\ \A q \in 1 .. m : u[q] = w[q]
      /\ u[m + 1] = d
      /\ \A k \in 1 .. d : u[m + 1 + k] = Nibble(s, j + k - 1)
  BY TurnCodeIs
<1>5. Len(code) = p - 1 + Len(u \o rest) /\ \A q \in 1 .. Len(u \o rest) : code[p + q - 1] = (u \o rest)[q]
  BY DEF Rest, Holds
<1> HIDE DEF u
<1>6. /\ Len(code) = p - 1 + Len(u) + Len(rest)
      /\ \A q \in 1 .. Len(u) : code[p + q - 1] = u[q]
      /\ \A q \in 1 .. Len(rest) : code[p + Len(u) + q - 1] = rest[q]
  <2> DEFINE x == u \o rest
  <2>1. Len(x) = Len(u) + Len(rest) /\ Len(u) \in Nat /\ Len(rest) \in Nat
        /\ (\A q \in 1 .. Len(u) : x[q] = u[q]) /\ \A q \in 1 .. Len(rest) : x[Len(u) + q] = rest[q]
    <3> HIDE DEF d, w, j
    <3>1. u \in Seq(0 .. 15)
      BY <1>4
    <3> QED BY <3>1
  <2> HIDE DEF x, d, w, j
  <2>2. Len(code) = p - 1 + Len(x) /\ \A q \in 1 .. Len(x) : code[p + q - 1] = x[q]
    BY <1>5 DEF x
  <2>3. \A q \in 1 .. Len(u) : q \in 1 .. Len(x)
    BY <2>1
  <2>4. \A q \in 1 .. Len(rest) : Len(u) + q \in 1 .. Len(x) /\ p + (Len(u) + q) - 1 = p + Len(u) + q - 1
    BY <2>1, <1>1
  <2>5. \A q \in 1 .. Len(u) : code[p + q - 1] = u[q]
    BY <2>1, <2>2, <2>3
  <2>6. \A q \in 1 .. Len(rest) : code[p + Len(u) + q - 1] = rest[q]
    <3> SUFFICES ASSUME NEW q \in 1 .. Len(rest)
                 PROVE  code[p + Len(u) + q - 1] = rest[q]
      OBVIOUS
    <3>1. code[p + (Len(u) + q) - 1] = x[Len(u) + q]
      BY <2>2, <2>4
    <3> QED BY <3>1, <2>1, <2>4
  <2> QED BY <2>1, <2>2, <2>5, <2>6, <1>1
<1>7. Holds(code, p, w) /\ p + m - 1 <= Len(code)
  <2> HIDE DEF w, d, j
  <2>1. \A q \in 1 .. m : q \in 1 .. Len(u)
    BY <1>2, <1>3, <1>4
  <2>2. \A q \in 1 .. m : code[p + q - 1] = w[q]
    BY <1>4, <1>6, <2>1
  <2>3. Len(rest) \in Nat
    OBVIOUS
  <2> QED BY <2>2, <2>3, <1>1, <1>2, <1>3, <1>4, <1>6 DEF Holds
<1>8. Stop(code, p) = p + m - 1 /\ StopDecode(code, p) = j - i
  BY <1>1, <1>7, StopIsRead
<1> HIDE DEF w, m, d, j
<1>9. code[p + m] = d /\ \A k \in 1 .. d : code[p + m + k] = Nibble(s, j + k - 1)
  <2>1. m + 1 \in 1 .. Len(u) /\ p + (m + 1) - 1 = p + m
    BY <1>1, <1>2, <1>3, <1>4
  <2>2. \A k \in 1 .. d : m + 1 + k \in 1 .. Len(u) /\ p + (m + 1 + k) - 1 = p + m + k
    BY <1>1, <1>2, <1>3, <1>4
  <2>3. code[p + m] = d
    BY <2>1, <1>4, <1>6
  <2>4. \A k \in 1 .. d : code[p + m + k] = u[m + 1 + k]
    BY <2>2, <1>6
  <2> QED BY <2>3, <2>4, <1>4
<1>10. Stop(code, p) + 1 = p + m /\ Stop(code, p) \in Nat
  BY <1>1, <1>2, <1>8
<1> DEFINE t == Turn(code, p)
           c == SubSeq(code, p + m + 1, p + m + d)
<1>11. t = [rotate |-> j - i, scan |-> c, next |-> p + m + d + 1]
  BY <1>8, <1>9, <1>10 DEF Turn
<1>12. c = [k \in 1 .. d |-> Nibble(s, j + k - 1)]
  <2>1. p + m + 1 \in 1 .. Len(code) /\ p + m + d \in 1 .. Len(code) /\ p + m + d >= p + m + 1
    BY <1>1, <1>2, <1>3, <1>4, <1>6
  <2>2. c = [k \in 1 .. (p + m + d) - (p + m + 1) + 1 |-> code[(p + m + 1) + k - 1]]
    BY <2>1, SMTT(30)
  <2>3. (p + m + d) - (p + m + 1) + 1 = d /\ \A k \in 1 .. d : (p + m + 1) + k - 1 = p + m + k
    BY <1>1, <1>2, <1>3
  <2> QED BY <2>2, <2>3, <1>9
<1>13. t.rotate = j - i /\ t.scan = Scan(s, j, n) /\ t.next = p + m + d + 1
  BY <1>11, <1>12 DEF Scan, d
<1> HIDE DEF t, c
<1>14. p + m + d + 1 = p + Len(u) /\ p + Len(u) \in Nat \ {0} /\ p + Len(u) > p /\ Len(code) = p + Len(u) - 1 + Len(rest)
  BY <1>1, <1>2, <1>3, <1>4, <1>6
<1>15. Rest(code, t.next, rest)
  <2>1. t.next = p + Len(u)
    BY <1>13, <1>14
  <2>2. Holds(code, p + Len(u), rest)
    BY <1>6 DEF Holds
  <2>3. Rest(code, p + Len(u), rest)
    BY <2>2, <1>14 DEF Rest
  <2> QED BY <2>1, <2>3
<1>16. TurnIs(code, p, j - i, Scan(s, j, n))
  <2>1. Turn(code, p).rotate = j - i /\ Turn(code, p).scan = Scan(s, j, n) /\ Turn(code, p).next > p
    BY <1>13, <1>14 DEF t
  <2>2. Len(Scan(s, j, n)) = d
    BY <1>1, ScanTyped DEF d
  <2>3. Stop(code, p) \in Nat /\ code[Stop(code, p) + 1] = Len(Scan(s, j, n))
    BY <2>2, <1>9, <1>10
  <2> QED BY <2>1, <2>3, Zenon DEF TurnIs
<1> QED BY <1>15, <1>16 DEF t, j

-----------------------------------------------------------------------------
(***************************************************************************)
(* Decompression: what is placed in the ring turn by turn is the ring that *)
(* was compressed, up to the end of its last nibble.                       *)
(***************************************************************************)
Below(s, i) == {b \in s : b < 4 * i}

(* How far the code has been read: to the nibble from which on its rest is *)
(* the code of the ring, or to its end.                                    *)
ReadTo(code, s, n, r, f, next, at, ends) ==
    IF ends THEN at = n /\ AtEnd(code, next, s, n, r)
    ELSE at \in 0 .. n /\ Rest(code, next, f[at])

LEMMA ReadsOn ==
  ASSUME NEW s, NEW n \in Nat, NEW r \in 0 .. 3, NEW f, CodesOf(f, 0, s, n, r), NEW code \in Seq(0 .. 15),
         NEW p, NEW i, ReadTo(code, s, n, r, f, p, i, FALSE), Onward(s, i, n) # n
  PROVE  /\ i \in 0 .. n
         /\ TurnIs(code, p, Onward(s, i, n) - i, Scan(s, Onward(s, i, n), n))
         /\ ReadTo(code, s, n, r, f, Turn(code, p).next, Onward(s, i, n) + ScanRun(s, Onward(s, i, n), n), FALSE)
<1> DEFINE j == Onward(s, i, n)
           b == j + ScanRun(s, j, n)
<1>1. i \in 0 .. n /\ Rest(code, p, f[i])
  BY DEF ReadTo
<1>2. b \in 0 .. n
  BY <1>1, TurnGoesOn
<1>3. f[i] = TurnCode(s, i, n) \o f[b]
  BY <1>1, CodeFrom
<1>4. f[b] \in Seq(0 .. 15)
  BY <1>2, CodesTyped
<1>5. Rest(code, p, TurnCode(s, i, n) \o f[b])
  BY <1>1, <1>3
<1> HIDE DEF b
<1>6. /\ TurnIs(code, p, Onward(s, i, n) - i, Scan(s, Onward(s, i, n), n))
      /\ Rest(code, Turn(code, p).next, f[b])
  BY <1>1, <1>4, <1>5, TurnIsRead, Zenon
<1>7. ReadTo(code, s, n, r, f, Turn(code, p).next, b, FALSE)
  BY <1>2, <1>6 DEF ReadTo
<1> QED BY <1>1, <1>6, <1>7 DEF b

LEMMA ReadsEnd ==
  ASSUME NEW s, NEW n \in Nat, NEW r \in 0 .. 3, NEW f, CodesOf(f, 0, s, n, r), NEW code \in Seq(0 .. 15),
         NEW p, NEW i, ReadTo(code, s, n, r, f, p, i, FALSE), Onward(s, i, n) = n
  PROVE  /\ i \in 0 .. n
         /\ TurnIs(code, p, n - i, <<>>)
         /\ ReadTo(code, s, n, r, f, Turn(code, p).next, n, TRUE)
<1>1. i \in 0 .. n /\ Rest(code, p, f[i]) /\ p \in Nat \ {0}
  BY DEF ReadTo, Rest
<1>2. f[i] = EndCode(s, i, n, r)
  BY <1>1 DEF CodesOf
<1>3. Rest(code, p, EndCode(s, i, n, r))
  BY <1>1, <1>2
<1>4. TurnIs(code, p, n - i, <<>>) /\ AtEnd(code, Turn(code, p).next, s, n, r)
  BY <1>1, <1>3, EndIsRead, Zenon
<1>5. ReadTo(code, s, n, r, f, Turn(code, p).next, n, TRUE)
  BY <1>4 DEF ReadTo
<1> QED BY <1>1, <1>4, <1>5

(* While there is a rest, it has nibbles.                                  *)
LEMMA RestIsLong ==
  ASSUME NEW s, NEW n \in Nat, NEW r \in 0 .. 3, NEW f, CodesOf(f, 0, s, n, r), NEW code \in Seq(0 .. 15),
         NEW p, NEW i, ReadTo(code, s, n, r, f, p, i, FALSE)
  PROVE  p \in Nat \ {0} /\ p < Len(code)
<1>1. i \in 0 .. n /\ p \in Nat \ {0} /\ Len(code) = p - 1 + Len(f[i])
  BY DEF ReadTo, Rest
<1>2. f[i] \in Seq(0 .. 15) /\ Len(f[i]) >= 3
  BY <1>1, CodesTyped
<1>3. Len(f[i]) \in Nat
  BY <1>2
<1> QED BY <1>1, <1>2, <1>3

(* There is no bit in nibbles that are zero.                               *)
LEMMA ZeroRunBits ==
  ASSUME NEW s, s \subseteq Nat, NEW n \in Nat, NEW i \in 0 .. n
  PROVE  \A b \in s : ~ (4 * i <= b /\ b < 4 * Onward(s, i, n))
<1> SUFFICES ASSUME NEW b \in s, 4 * i <= b, b < 4 * Onward(s, i, n)
             PROVE  FALSE
  OBVIOUS
<1> DEFINE z == ZeroRun(s, i, n)
           k == b \div 4
           c == b % 4
<1>1. z \in 0 .. n - i /\ \A x \in i .. i + z - 1 : Nibble(s, x) = 0
  BY ZeroRunIs
<1>2. Onward(s, i, n) = i + z
  BY DEF Onward
<1> HIDE DEF z
<1>3. b \in Nat /\ k \in Nat /\ c \in 0 .. 3 /\ b = 4 * k + c
  OBVIOUS
<1>4. b < 4 * (i + z)
  BY <1>2
<1> HIDE DEF k, c
<1>5. k \in i .. i + z - 1
  BY <1>1, <1>3, <1>4
<1>6. Nibble(s, k) = 0
  BY <1>1, <1>5
<1>7. 4 * k + c \notin s
  BY <1>3, <1>6, NibbleIsBits
<1> QED BY <1>3, <1>7

(* The nibbles that are scanned have the bits where they are placed.       *)
LEMMA PlacedBits ==
  ASSUME NEW s, s \subseteq Nat, NEW n \in Nat, NEW j \in 0 .. n - 1
  PROVE  /\ DOMAIN Scan(s, j, n) = 1 .. ScanRun(s, j, n)
         /\ Len(Scan(s, j, n)) = ScanRun(s, j, n)
         /\ Placed(Scan(s, j, n), j) = {b \in s : 4 * j <= b /\ b < 4 * (j + ScanRun(s, j, n))}
<1> DEFINE d == ScanRun(s, j, n)
           scan == [k \in 1 .. d |-> Nibble(s, j + k - 1)]
<1>1. d \in 1 .. 15
  BY ScanRunIs
<1>2. Scan(s, j, n) = scan
  BY DEF Scan
<1> HIDE DEF d
<1>3. DOMAIN scan = 1 .. d /\ Len(scan) = d
  <2>1. \A k \in 1 .. d : Nibble(s, j + k - 1) \in 0 .. 15
    <3> SUFFICES ASSUME NEW k \in 1 .. d
                 PROVE  Nibble(s, j + k - 1) \in 0 .. 15
      OBVIOUS
    <3>1. j + k - 1 \in Nat
      BY <1>1
    <3> QED BY <3>1, NibbleIsBits
  <2>2. scan \in Seq(0 .. 15)
    BY <1>1, <2>1
  <2> QED BY <1>1, <2>2
<1>4. \A k \in 1 .. d : scan[k] = Nibble(s, j + k - 1)
  OBVIOUS
<1> HIDE DEF scan
<1>5. \A k \in 1 .. d : j + k - 1 \in Nat /\ NibbleBits(scan[k]) = {b \in 0 .. 3 : 4 * (j + k - 1) + b \in s}
  <2> SUFFICES ASSUME NEW k \in 1 .. d
               PROVE  j + k - 1 \in Nat /\ NibbleBits(scan[k]) = {b \in 0 .. 3 : 4 * (j + k - 1) + b \in s}
    OBVIOUS
  <2> DEFINE x == j + k - 1
  <2>1. x \in Nat
    BY <1>1
  <2>2. scan[k] = Nibble(s, x)
    BY <1>4
  <2> HIDE DEF x
  <2>3. NibbleBits(scan[k]) = {b \in 0 .. 3 : 4 * x + b \in s}
    BY <2>1, <2>2, NibbleIsBits
  <2> QED BY <2>1, <2>3 DEF x
<1>6. \A a : a \in Placed(scan, j) <=> \E k \in 1 .. d : \E b \in NibbleBits(scan[k]) : a = 4 * (j + k - 1) + b
  BY <1>3 DEF Placed
<1>7. \A a : a \in Placed(scan, j) => a \in s /\ 4 * j <= a /\ a < 4 * (j + d)
  <2> SUFFICES ASSUME NEW k \in 1 .. d, NEW b \in NibbleBits(scan[k]), NEW a, a = 4 * (j + k - 1) + b
               PROVE  a \in s /\ 4 * j <= a /\ a < 4 * (j + d)
    BY <1>6
  <2>1. b \in 0 .. 3 /\ 4 * (j + k - 1) + b \in s
    BY <1>5
  <2> QED BY <2>1, <1>1
<1>8. \A a \in s : 4 * j <= a /\ a < 4 * (j + d) => a \in Placed(scan, j)
  <2> SUFFICES ASSUME NEW a \in s, 4 * j <= a, a < 4 * (j + d)
               PROVE  a \in Placed(scan, j)
    OBVIOUS
  <2> DEFINE k == a \div 4 - j + 1
             b == a % 4
  <2>1. k \in 1 .. d /\ b \in 0 .. 3 /\ a = 4 * (j + k - 1) + b
    <3> DEFINE q == a \div 4
    <3>1. q \in Nat /\ b \in 0 .. 3 /\ a = 4 * q + b /\ k = q - j + 1
      OBVIOUS
    <3> HIDE DEF q, b, k
    <3> QED BY <3>1, <1>1
  <2> HIDE DEF k, b
  <2>2. b \in NibbleBits(scan[k])
    BY <2>1, <1>5
  <2> QED BY <2>1, <2>2, <1>6
<1>9. Placed(scan, j) = {b \in s : 4 * j <= b /\ b < 4 * (j + d)}
  BY <1>7, <1>8
<1> QED BY <1>2, <1>3, <1>9 DEF d

BulkOf(f, N, code) == f = [k \in 0 .. N |-> IF k = 0 THEN FirstTurn ELSE DecodedTurn(code, f[k - 1])]

(* The loop over the turns has a solution.                                 *)
LEMMA BulkExists ==
  ASSUME NEW N \in Nat, NEW code
  PROVE  \E f : BulkOf(f, N, code)
<1> DEFINE T == {n \in 0 .. N : ~ \E f : BulkOf(f, n, code)}
<1> SUFFICES ASSUME T # {} PROVE FALSE
  OBVIOUS
<1>1. PICK last \in T : \A x \in T : last <= x
  <2>1. T \subseteq Nat
    OBVIOUS
  <2> HIDE DEF T
  <2> QED BY <2>1, LeastOf
<1>2. last # 0
  <2> DEFINE g == [k \in 0 .. 0 |-> FirstTurn]
  <2>1. g = [k \in 0 .. 0 |-> IF k = 0 THEN FirstTurn ELSE DecodedTurn(code, g[k - 1])]
    OBVIOUS
  <2> HIDE DEF g
  <2>2. BulkOf(g, 0, code)
    BY <2>1 DEF BulkOf
  <2> QED BY <1>1, <2>2
<1>3. last \in Nat \ {0} /\ last - 1 \in 0 .. N /\ ~ (last <= last - 1)
  BY <1>1, <1>2
<1>4. last - 1 \notin T
  <2> HIDE DEF T
  <2> QED BY <1>1, <1>3
<1>5. PICK g : BulkOf(g, last - 1, code)
  BY <1>3, <1>4
<1> DEFINE h == [k \in 0 .. last |-> IF k = 0 THEN FirstTurn ELSE DecodedTurn(code, g[k - 1])]
<1>6. \A k \in 0 .. last - 1 : h[k] = g[k]
  <2>1. \A k \in 0 .. last - 1 : g[k] = IF k = 0 THEN FirstTurn ELSE DecodedTurn(code, g[k - 1])
    BY <1>5 DEF BulkOf
  <2>2. \A k \in 0 .. last - 1 : k \in 0 .. last
    BY <1>3
  <2> QED BY <2>1, <2>2
<1>7. \A k \in 0 .. last : k # 0 => k - 1 \in 0 .. last - 1
  BY <1>3
<1>8. h = [k \in 0 .. last |-> IF k = 0 THEN FirstTurn ELSE DecodedTurn(code, h[k - 1])]
  <2>1. \A k \in 0 .. last : (IF k = 0 THEN FirstTurn ELSE DecodedTurn(code, g[k - 1]))
                           = (IF k = 0 THEN FirstTurn ELSE DecodedTurn(code, h[k - 1]))
    <3> HIDE DEF h
    <3> QED BY <1>6, <1>7
  <2> QED BY <2>1
<1> HIDE DEF h
<1>9. BulkOf(h, last, code)
  BY <1>8 DEF BulkOf
<1> QED BY <1>1, <1>9

(* After each turn the bits up to where it goes are those of the ring.     *)
BulkOK(code, s, n, r, f, so) ==
    /\ so.ends \in BOOLEAN
    /\ ReadTo(code, s, n, r, f, so.next, so.at, so.ends)
    /\ so.ones = Below(s, so.at)

LEMMA BulkStep ==
  ASSUME NEW s, s \subseteq Nat, NEW n \in Nat, NEW r \in 0 .. 3, NEW f, CodesOf(f, 0, s, n, r), NEW code \in Seq(0 .. 15),
         NEW so, BulkOK(code, s, n, r, f, so)
  PROVE  /\ BulkOK(code, s, n, r, f, DecodedTurn(code, so))
         /\ ~ DecodedTurn(code, so).ends => DecodedTurn(code, so).next > so.next
<1> DEFINE p == so.next
           t == Turn(code, p)
           i == so.at
           j == Onward(s, i, n)
           d == ScanRun(s, j, n)
           at == i + t.rotate
           new == DecodedTurn(code, so)
<1>1. CASE so.ends
  <2>1. new = so
    BY <1>1 DEF DecodedTurn
  <2> QED BY <2>1, <1>1
<1>2. CASE ~ so.ends
  <2>1. ReadTo(code, s, n, r, f, p, i, FALSE) /\ so.ones = Below(s, i)
    BY <1>2 DEF BulkOK
  <2>2. i \in 0 .. n
    BY <2>1 DEF ReadTo
  <2>3. new = [next |-> t.next, at |-> at + Len(t.scan), ones |-> so.ones \cup Placed(t.scan, at), ends |-> t.scan = <<>>]
    BY <1>2 DEF DecodedTurn
  <2> HIDE DEF new, i, p
  <2>4. j \in i .. n
    BY <2>2, TurnGoesOn
  <2>5. Below(s, j) = Below(s, i)
    <3>1. \A b \in s : ~ (4 * i <= b /\ b < 4 * j)
      BY <2>2, ZeroRunBits
    <3> HIDE DEF j
    <3>2. \A b \in s : b < 4 * j <=> b < 4 * i
      BY <3>1, <2>2, <2>4
    <3> QED BY <3>2 DEF Below
  <2>6. CASE j = n
    <3>1. TurnIs(code, p, n - i, <<>>) /\ ReadTo(code, s, n, r, f, t.next, n, TRUE)
      BY <2>1, <2>6, ReadsEnd, Zenon
    <3>2. t.rotate = n - i /\ t.scan = <<>>
      BY <3>1 DEF TurnIs
    <3> HIDE DEF t, j
    <3>3. at = n /\ Len(t.scan) = 0 /\ at + Len(t.scan) = n /\ Placed(t.scan, at) = {}
      BY <3>2, <2>2 DEF Placed
    <3>4. new.next = t.next /\ new.at = n /\ new.ones = Below(s, i) /\ new.ends = TRUE
      BY <2>1, <2>3, <3>2, <3>3
    <3>5. BulkOK(code, s, n, r, f, new)
      BY <3>1, <3>4, <2>5, <2>6 DEF BulkOK
    <3> QED BY <3>4, <3>5 DEF new
  <2>7. CASE j # n
    <3>1. TurnIs(code, p, j - i, Scan(s, j, n)) /\ ReadTo(code, s, n, r, f, t.next, j + d, FALSE)
      BY <2>1, <2>7, ReadsOn, Zenon
    <3>2. j \in 0 .. n - 1
      BY <2>2, <2>4, <2>7
    <3>3. t.rotate = j - i /\ t.scan = Scan(s, j, n) /\ t.next > p
      BY <3>1 DEF TurnIs
    <3>4. Len(t.scan) = d /\ Placed(t.scan, j) = {b \in s : 4 * j <= b /\ b < 4 * (j + d)} /\ d \in 1 .. 15
      <4>1. Len(Scan(s, j, n)) = d /\ Placed(Scan(s, j, n), j) = {b \in s : 4 * j <= b /\ b < 4 * (j + d)}
        BY <3>2, PlacedBits, Zenon
      <4>2. d \in 1 .. 15
        BY <3>2, ScanRunIs
      <4> QED BY <3>3, <4>1, <4>2
    <3> HIDE DEF t, j, d
    <3>5. at = j /\ at + Len(t.scan) = j + d
      BY <3>2, <3>3, <3>4, <2>2
    <3>6. t.scan # <<>>
      BY <3>4
    <3>7. Below(s, j) \cup {b \in s : 4 * j <= b /\ b < 4 * (j + d)} = Below(s, j + d)
      <4>1. \A b \in s : b < 4 * (j + d) <=> b < 4 * j \/ (4 * j <= b /\ b < 4 * (j + d))
        BY <3>2, <3>4
      <4> QED BY <4>1 DEF Below
    <3>8. new.next = t.next /\ new.at = j + d /\ new.ones = Below(s, j + d) /\ new.ends = FALSE
      BY <2>1, <2>3, <2>5, <3>4, <3>5, <3>6, <3>7
    <3>9. BulkOK(code, s, n, r, f, new)
      BY <3>1, <3>8 DEF BulkOK
    <3> QED BY <3>3, <3>8, <3>9 DEF t, new, p
  <2> QED BY <2>6, <2>7
<1> QED BY <1>1, <1>2 DEF BulkOK

LEMMA BulkIsRing ==
  ASSUME NEW s, s \subseteq Nat, NEW length \in Nat
  PROVE  LET code == Compressed(s, length)
             so == Bulk(code)
         IN  /\ code \in Seq(0 .. 15)
             /\ so.at = length \div 4
             /\ so.next \in 1 .. Len(code)
             /\ code[so.next] = length % 4
             /\ length % 4 # 0 => code[so.next + 1] = Nibble(s, length \div 4)
             /\ so.ones = Below(s, length \div 4)
<1> DEFINE code == Compressed(s, length)
           n == length \div 4
           r == length % 4
           N == Len(code)
<1>1. PICK f : CodesOf(f, 0, s, n, r) /\ code = f[0]
  BY CompressedIs
<1>2. n \in Nat /\ r \in 0 .. 3 /\ 0 \in 0 .. n
  OBVIOUS
<1> HIDE DEF n, r
<1>3. code \in Seq(0 .. 15)
  BY <1>1, <1>2, CodesTyped
<1> HIDE DEF code
<1>4. N \in Nat
  BY <1>3
<1> DEFINE after == CHOOSE g : BulkOf(g, N, code)
<1>5. BulkOf(after, N, code)
  BY <1>4, BulkExists
<1>6. Bulk(code) = after[N]
  BY DEF Bulk, BulkOf
<1> HIDE DEF after
<1>7. \A k \in 0 .. N : after[k] = IF k = 0 THEN FirstTurn ELSE DecodedTurn(code, after[k - 1])
  BY <1>5 DEF BulkOf
<1>8. BulkOK(code, s, n, r, f, FirstTurn)
  <2>1. Rest(code, 1, f[0])
    BY <1>1, <1>3 DEF Rest, Holds
  <2>2. Below(s, 0) = {}
    <3>1. \A b \in s : ~ (b < 4 * 0)
      OBVIOUS
    <3> QED BY <3>1 DEF Below
  <2> QED BY <2>1, <2>2, <1>2 DEF BulkOK, ReadTo, FirstTurn
<1> DEFINE P(k) == BulkOK(code, s, n, r, f, after[k]) /\ (~ after[k].ends => after[k].next > k)
           T == {k \in 0 .. N : ~ P(k)}
<1>9. T = {}
  <2> SUFFICES ASSUME T # {} PROVE FALSE
    OBVIOUS
  <2>1. PICK k \in T : \A x \in T : k <= x
    <3>1. T \subseteq Nat
      OBVIOUS
    <3> HIDE DEF T
    <3> QED BY <3>1, LeastOf
  <2>2. k # 0
    <3>1. 0 \in 0 .. N /\ after[0] = FirstTurn
      BY <1>4, <1>7
    <3>2. P(0)
      BY <3>1, <1>8 DEF FirstTurn
    <3> QED BY <3>2, <2>1
  <2>3. k \in 0 .. N /\ k - 1 \in 0 .. N /\ ~ (k <= k - 1)
    BY <2>1, <2>2, <1>4
  <2>4. P(k - 1)
    <3>1. k - 1 \notin T
      <4> HIDE DEF T
      <4> QED BY <2>1, <2>3
    <3> HIDE DEF P
    <3> QED BY <3>1, <2>3
  <2> DEFINE so == after[k - 1]
             new == after[k]
  <2>5. new = DecodedTurn(code, so)
    BY <2>2, <2>3, <1>7
  <2>6. BulkOK(code, s, n, r, f, so)
    BY <2>4
  <2>7. ~ so.ends => so.next > k - 1
    BY <2>4
  <2> HIDE DEF so, new
  <2>8. BulkOK(code, s, n, r, f, new) /\ (~ new.ends => new.next > so.next)
    BY <1>1, <1>2, <1>3, <2>5, <2>6, BulkStep
  <2>9. ~ new.ends => new.next > k
    <3> SUFFICES ASSUME ~ new.ends PROVE new.next > k
      OBVIOUS
    <3>1. ~ so.ends
      BY <2>5 DEF DecodedTurn
    <3>2. ReadTo(code, s, n, r, f, so.next, so.at, FALSE) /\ ReadTo(code, s, n, r, f, new.next, new.at, FALSE)
      BY <3>1, <2>6, <2>8 DEF BulkOK
    <3>3. so.next \in Nat /\ new.next \in Nat
      BY <3>2 DEF ReadTo, Rest
    <3> QED BY <3>1, <3>3, <2>3, <2>7, <2>8
  <2>10. P(k)
    BY <2>8, <2>9 DEF new
  <2> QED BY <2>10, <2>1
<1> DEFINE so == after[N]
<1>10. BulkOK(code, s, n, r, f, so) /\ (~ so.ends => so.next > N)
  <2>1. N \in 0 .. N /\ N \notin T
    BY <1>4, <1>9
  <2> QED BY <2>1
<1> HIDE DEF so
<1>11. so.ends
  <2> SUFFICES ASSUME ~ so.ends PROVE FALSE
    OBVIOUS
  <2>1. ReadTo(code, s, n, r, f, so.next, so.at, FALSE)
    BY <1>10 DEF BulkOK
  <2>2. so.next \in Nat \ {0} /\ so.next < N
    BY <2>1, <1>1, <1>2, <1>3, RestIsLong
  <2> QED BY <2>2, <1>4, <1>10
<1>12. /\ so.at = n /\ so.next \in 1 .. N /\ code[so.next] = r
       /\ r # 0 => code[so.next + 1] = Nibble(s, n)
       /\ so.ones = Below(s, n)
  BY <1>10, <1>11 DEF BulkOK, ReadTo, AtEnd
<1> QED BY <1>3, <1>6, <1>12 DEF so, n, r, code

(* What is compressed is decompressed, up to the end of its last nibble.   *)
LEMMA DecompressedIs ==
  ASSUME NEW s, s \subseteq Nat, NEW length \in Nat
  PROVE  Decompressed(Container(s, length)) = [rc |-> "OK", ones |-> Below(s, (length + 3) \div 4)]
<1> DEFINE code == Compressed(s, length)
           c == Container(s, length)
           so == Bulk(code)
           n == length \div 4
           r == length % 4
           x == code[so.next + 1]
           last == IF r = 0 THEN {} ELSE {4 * n + b : b \in NibbleBits(x)}
<1>1. c.code = code /\ c.length = length
  BY DEF Container
<1>2. so.at = n /\ code[so.next] = r /\ (r # 0 => x = Nibble(s, n)) /\ so.ones = Below(s, n)
  BY BulkIsRing, Zenon
<1>3. n \in Nat /\ r \in 0 .. 3 /\ length = 4 * n + r
  OBVIOUS
<1>4. (length + 3) \div 4 = IF r = 0 THEN n ELSE n + 1
  <2> HIDE DEF n, r
  <2> QED BY <1>3
<1>5. Decompressed(c) = [rc |-> "OK", ones |-> so.ones \cup last]
  <2> HIDE DEF code, c
  <2>1. Decompressed(c) = IF 4 * so.at + code[so.next] # length THEN [rc |-> "SIZE_ERROR", ones |-> {}]
                          ELSE [rc |-> "OK", ones |-> so.ones \cup
                                   (IF code[so.next] = 0 THEN {} ELSE {4 * so.at + b : b \in NibbleBits(x)})]
    BY <1>1 DEF Decompressed
  <2> HIDE DEF so, x, n, r
  <2> QED BY <2>1, <1>2, <1>3
<1> HIDE DEF code, so, c
<1>6. so.ones \cup last = Below(s, (length + 3) \div 4)
  <2>1. CASE r = 0
    BY <2>1, <1>2, <1>4
  <2>2. CASE r # 0
    <3>1. NibbleBits(x) = {b \in 0 .. 3 : 4 * n + b \in s}
      <4> HIDE DEF n, r, x
      <4> QED BY <2>2, <1>2, <1>3, NibbleIsBits
    <3> HIDE DEF x, n, r
    <3>2. last = {4 * n + b : b \in {b \in 0 .. 3 : 4 * n + b \in s}}
      BY <3>1, <2>2
    <3>3. \A a \in s : a \in last <=> 4 * n <= a /\ a < 4 * (n + 1)
      <4> SUFFICES ASSUME NEW a \in s PROVE a \in last <=> 4 * n <= a /\ a < 4 * (n + 1)
        OBVIOUS
      <4>1. a \in last => 4 * n <= a /\ a < 4 * (n + 1)
        BY <3>2, <1>3
      <4>2. 4 * n <= a /\ a < 4 * (n + 1) => a - 4 * n \in 0 .. 3 /\ 4 * n + (a - 4 * n) = a
        BY <1>3
      <4>3. 4 * n <= a /\ a < 4 * (n + 1) => a \in last
        BY <3>2, <4>2
      <4> QED BY <4>1, <4>3
    <3>4. last \subseteq s
      BY <3>2
    <3> HIDE DEF last
    <3>5. \A a \in s : a < 4 * (n + 1) <=> a < 4 * n \/ a \in last
      BY <3>3, <1>3
    <3>6. Below(s, n) \cup last = Below(s, n + 1)
      BY <3>4, <3>5 DEF Below
    <3> QED BY <3>6, <2>2, <1>2, <1>4
  <2> QED BY <2>1, <2>2
<1> QED BY <1>5, <1>6 DEF c

(* A ring is its own bits.                                                 *)
LEMMA BelowAll ==
  ASSUME NEW length \in Nat, NEW s, s \subseteq UpTo(length)
  PROVE  Below(s, (length + 3) \div 4) = s
<1>1. \A b \in s : b < 4 * ((length + 3) \div 4)
  <2> SUFFICES ASSUME NEW b \in 0 .. length - 1
               PROVE  b < 4 * ((length + 3) \div 4)
    BY DEF UpTo
  <2> QED OBVIOUS
<1> QED BY <1>1 DEF Below

(* RS4 gives back what was compressed: for every ring, whatever its length *)
(* (p8_scan_compression.C, rs4_compress and rs4_decompress).               *)
THEOREM CompressionReverses ==
  ASSUME NEW length \in Nat, NEW s, s \subseteq UpTo(length)
  PROVE  Decompressed(Container(s, length)) = [rc |-> "OK", ones |-> s]
<1>1. s \subseteq Nat
  BY DEF UpTo
<1> QED BY <1>1, DecompressedIs, BelowAll

(* The redundancy test reads the first turn: it ends the code exactly if   *)
(* all whole nibbles are zero.                                             *)
LEMMA RedundantIs ==
  ASSUME NEW length \in Nat, NEW s, s \subseteq UpTo(length)
  PROVE  Redundant(Container(s, length)) = [rc |-> "OK", redundant |-> s = {}]
<1> DEFINE code == Compressed(s, length)
           c == Container(s, length)
           n == length \div 4
           r == length % 4
           t == Turn(code, 1)
           j == Stop(code, 1) + 1
           x == Nibble(s, n)
<1>1. c.code = code /\ c.length = length
  BY DEF Container
<1>2. n \in Nat /\ r \in 0 .. 3 /\ length = 4 * n + r /\ 0 \in 0 .. n /\ s \subseteq Nat
  BY DEF UpTo
<1>3. PICK f : CodesOf(f, 0, s, n, r) /\ code = f[0]
  BY CompressedIs
<1> HIDE DEF n, r
<1>4. code \in Seq(0 .. 15)
  BY <1>2, <1>3, CodesTyped
<1>5. ReadTo(code, s, n, r, f, 1, 0, FALSE)
  <2> HIDE DEF code
  <2>1. Rest(code, 1, f[0])
    BY <1>3, <1>4 DEF Rest, Holds
  <2> QED BY <2>1, <1>2 DEF ReadTo
<1> HIDE DEF code, c
<1> DEFINE first == code[j] = 0 /\ (code[j + 1] = 0 \/ code[j + 2] = 0)
<1>6. Redundant(c) = [redundant |-> first,
                      rc |-> IF 4 * t.rotate > length \/ (first /\ 4 * t.rotate + code[j + 1] # length)
                             THEN "SIZE_ERROR" ELSE "OK"]
  BY <1>1 DEF Redundant, Turn
<1>7. t.next = j + code[j] + 1
  BY DEF Turn
<1> DEFINE i == Onward(s, 0, n)
<1>8. i \in 0 .. n
  BY <1>2, TurnGoesOn
<1>9. \A b \in s : ~ (4 * 0 <= b /\ b < 4 * i)
  BY <1>2, ZeroRunBits
<1>10. CASE i = n
  <2>1. TurnIs(code, 1, n - 0, <<>>) /\ ReadTo(code, s, n, r, f, t.next, n, TRUE)
    BY <1>2, <1>3, <1>4, <1>5, <1>10, ReadsEnd, Zenon
  <2>2. t.rotate = n /\ code[j] = 0 /\ Stop(code, 1) \in Nat
    <3>1. t.rotate = n - 0 /\ code[j] = Len(<<>>) /\ Stop(code, 1) \in Nat
      BY <2>1, Zenon DEF TurnIs
    <3> QED BY <3>1, <1>2
  <2>3. t.next \in Nat /\ code[t.next] = r /\ (r # 0 => code[t.next + 1] = x)
    BY <1>4, <2>1 DEF ReadTo, AtEnd
  <2>4. j + 1 = t.next /\ j + 2 = t.next + 1
    <3> DEFINE k == Stop(code, 1)
    <3>1. t.next = k + 1 + 0 + 1 /\ j = k + 1 /\ k \in Nat
      BY <1>7, <2>2
    <3> HIDE DEF k, t, j
    <3> QED BY <3>1
  <2>5. code[j + 1] = r /\ (r # 0 => code[j + 2] = x)
    BY <2>3, <2>4
  <2>6. x = 0 <=> \A b \in 0 .. 3 : 4 * n + b \notin s
    BY <1>2, NibbleIsBits
  <2>7. r = 0 \/ x = 0 <=> s = {}
    <3>1. ASSUME r = 0 \/ x = 0, NEW b \in s
          PROVE  FALSE
      <4>1. b \in 0 .. 4 * n + r - 1
        BY <3>1, <1>2 DEF UpTo
      <4>2. b >= 4 * n
        BY <4>1, <1>2, <1>9, <1>10
      <4>3. b - 4 * n \in 0 .. 3 /\ 4 * n + (b - 4 * n) = b /\ r # 0
        BY <4>1, <4>2, <1>2
      <4> QED BY <3>1, <4>3, <2>6
    <3>2. s = {} => x = 0
      BY <2>6
    <3> QED BY <3>1, <3>2
  <2> HIDE DEF t, j, x
  <2>8. first = (s = {})
    BY <2>2, <2>5, <2>7
  <2>9. ~ (4 * t.rotate > length) /\ 4 * t.rotate + code[j + 1] = length
    BY <2>2, <2>5, <1>2
  <2> HIDE DEF first
  <2>10. Redundant(c) = [redundant |-> first, rc |-> "OK"]
    BY <2>9, <1>6
  <2> QED BY <2>8, <2>10 DEF c
<1>11. CASE i # n
  <2> DEFINE scan == Scan(s, i, n)
             d == ScanRun(s, i, n)
  <2>1. i \in 0 .. n - 1
    BY <1>2, <1>8, <1>11
  <2>2. TurnIs(code, 1, i - 0, scan)
    BY <1>2, <1>3, <1>4, <1>5, <1>11, ReadsOn, Zenon
  <2>3. t.rotate = i - 0 /\ code[j] = Len(scan)
    BY <2>2, Zenon DEF TurnIs
  <2>4. Len(scan) = d /\ d \in 1 .. 15
    BY <1>2, <2>1, ScanTyped, ScanRunIs
  <2>5. s # {}
    <3> DEFINE z == ZeroRun(s, 0, n)
    <3>1. z \in 0 .. n - 0 /\ (0 + z = n \/ Nibble(s, 0 + z) # 0)
      BY <1>2, ZeroRunIs, Zenon
    <3>2. i = 0 + z
      BY DEF Onward
    <3> HIDE DEF z, i
    <3>3. Nibble(s, i) # 0
      BY <3>1, <3>2, <1>11
    <3> QED BY <2>1, <3>3, NibbleIsBits
  <2> HIDE DEF t, j, x, scan, d, i
  <2>6. first = (s = {})
    BY <2>3, <2>4, <2>5
  <2>7. ~ (4 * t.rotate > length) /\ ~ first
    BY <2>1, <2>3, <2>4, <1>2
  <2> HIDE DEF first
  <2>8. Redundant(c) = [redundant |-> first, rc |-> "OK"]
    BY <2>7, <1>6
  <2> QED BY <2>6, <2>8 DEF c
<1> QED BY <1>10, <1>11

-----------------------------------------------------------------------------
(***************************************************************************)
(* The length of a code: a turn costs at most two nibbles more than what   *)
(* it codes, and none more after two nibbles that are zero.                *)
(***************************************************************************)
Worst(m, r) == m + 2 * ((m + 14) \div 15) + 3 + (IF r = 0 THEN 0 ELSE 1)
StartsLow(s, i, n) == i + 1 < n /\ Nibble(s, i) = 0 /\ Nibble(s, i + 1) = 0

LEMMA WorstIs ==
  ASSUME NEW m \in Nat, NEW r \in 0 .. 3
  PROVE  /\ Worst(m, r) \in Nat /\ Worst(m, r) >= m + 3 + (IF r = 0 THEN 0 ELSE 1)
         /\ m > 0 => Worst(m, r) >= m + 5 + (IF r = 0 THEN 0 ELSE 1)
         /\ \A k \in 0 .. m : Worst(m, r) - m >= Worst(k, r) - k
         /\ \A k \in 0 .. m - 15 : Worst(m, r) - m >= Worst(k, r) - k + 2
<1> DEFINE w == IF r = 0 THEN 0 ELSE 1
           c == (m + 14) \div 15
<1>1. w \in 0 .. 1 /\ c \in Nat /\ (m > 0 => c >= 1) /\ Worst(m, r) = m + 2 * c + 3 + w
  BY DEF Worst
<1>2. \A k \in 0 .. m : (k + 14) \div 15 <= c /\ (k + 14) \div 15 \in Nat
  OBVIOUS
<1>3. \A k \in 0 .. m - 15 : (k + 14) \div 15 + 1 <= c /\ (k + 14) \div 15 \in Nat
  OBVIOUS
<1> HIDE DEF c
<1>4. \A k \in 0 .. m : Worst(k, r) - k <= 2 * c + 3 + w /\ Worst(m, r) - m = 2 * c + 3 + w
  <2> SUFFICES ASSUME NEW k \in 0 .. m
               PROVE  Worst(k, r) - k <= 2 * c + 3 + w /\ Worst(m, r) - m = 2 * c + 3 + w
    OBVIOUS
  <2> DEFINE x == (k + 14) \div 15
  <2>1. x \in Nat /\ x <= c /\ Worst(k, r) = k + 2 * x + 3 + w
    BY <1>2 DEF Worst
  <2> HIDE DEF x, w
  <2> QED BY <2>1, <1>1
<1>5. \A k \in 0 .. m - 15 : Worst(k, r) - k + 2 <= 2 * c + 3 + w /\ Worst(m, r) - m = 2 * c + 3 + w
  <2> SUFFICES ASSUME NEW k \in 0 .. m - 15
               PROVE  Worst(k, r) - k + 2 <= 2 * c + 3 + w /\ Worst(m, r) - m = 2 * c + 3 + w
    OBVIOUS
  <2> DEFINE x == (k + 14) \div 15
  <2>1. x \in Nat /\ x + 1 <= c /\ Worst(k, r) = k + 2 * x + 3 + w
    BY <1>3 DEF Worst
  <2> HIDE DEF x, w
  <2> QED BY <2>1, <1>1
<1>6. \A k \in 0 .. m : Worst(k, r) \in Int
  BY <1>2 DEF Worst
<1>7. \A k \in 0 .. m - 15 : k \in 0 .. m
  OBVIOUS
<1>8. \A k \in 0 .. m : Worst(m, r) - m >= Worst(k, r) - k
  BY <1>1, <1>4, <1>6
<1>9. \A k \in 0 .. m - 15 : Worst(m, r) - m >= Worst(k, r) - k + 2
  BY <1>1, <1>5, <1>6, <1>7
<1> QED BY <1>1, <1>8, <1>9

LEMMA CodesAreShort ==
  ASSUME NEW s, NEW n \in Nat, NEW r \in 0 .. 3, NEW f, CodesOf(f, 0, s, n, r)
  PROVE  \A i \in 0 .. n : Len(f[i]) <= Worst(n - i, r)
<1> DEFINE P(i) == /\ Len(f[i]) <= Worst(n - i, r)
                   /\ StartsLow(s, i, n) => Len(f[i]) <= Worst(n - i, r) - 2
           T == {m \in 0 .. n : ~ P(n - m)}
           e == IF r = 0 THEN 0 ELSE 1
<1> SUFFICES ASSUME T # {} PROVE FALSE
  <2>1. ASSUME NEW i \in 0 .. n, T = {}
        PROVE  P(i)
    <3>1. n - i \in 0 .. n /\ n - (n - i) = i
      OBVIOUS
    <3> HIDE DEF P
    <3> QED BY <2>1, <3>1
  <2> QED BY <2>1
<1>1. PICK m \in T : \A x \in T : m <= x
  <2>1. T \subseteq Nat
    OBVIOUS
  <2> HIDE DEF T
  <2> QED BY <2>1, LeastOf
<1> DEFINE i == n - m
           j == Onward(s, i, n)
           z == j - i
           l == Len(StopEncode(z))
<1>2. i \in 0 .. n /\ m \in 0 .. n /\ n - i = m
  BY <1>1
<1> HIDE DEF i
<1>3. z \in 0 .. n - i /\ j = i + z /\ j \in 0 .. n
  <2>1. j \in i .. n
    BY <1>2, TurnGoesOn
  <2> HIDE DEF j
  <2> QED BY <2>1, <1>2
<1>4. StartsLow(s, i, n) => z >= 2
  <2> DEFINE q == ZeroRun(s, i, n)
  <2>1. q \in 0 .. n - i /\ (i + q = n \/ Nibble(s, i + q) # 0)
    BY <1>2, ZeroRunIs
  <2>2. j = i + q
    BY DEF Onward
  <2> HIDE DEF q, j
  <2>3. z = q
    BY <2>1, <2>2, <1>2
  <2>4. StartsLow(s, i, n) => q # 0 /\ q # 1
    BY <2>1, <1>2 DEF StartsLow
  <2> QED BY <2>1, <2>3, <2>4
<1>5. l \in Nat /\ l <= 1 + z /\ (z >= 2 => l <= z - 1)
  <2>1. z \in Nat
    BY <1>3, <1>2
  <2> HIDE DEF z
  <2> QED BY <2>1, StopEncodeBounds
<1>6. e \in 0 .. 1
  OBVIOUS
<1>7. Worst(m, r) \in Nat /\ Worst(m, r) >= m + 3 + e /\ (m > 0 => Worst(m, r) >= m + 5 + e)
  <2> HIDE DEF T, P, j, z, l
  <2>1. m \in Nat
    BY <1>2
  <2> QED BY <2>1, WorstIs
<1>8. CASE j = n
  <2>1. f[i] = EndCode(s, i, n, r)
    BY <1>2, <1>8, CodeFrom, ZenonT(30)
  <2>2. z = m /\ z = n - i
    BY <1>2, <1>3, <1>8
  <2>3. IsEndCode(EndCode(s, i, n, r), StopEncode(z), Nibble(s, n), r)
    BY <1>2, <2>2, EndCodeIs, Zenon
  <2>4. Len(f[i]) = l + 2 + e
    BY <2>1, <2>3 DEF IsEndCode
  <2> HIDE DEF l, z, j, e
  <2>5. Len(f[i]) <= Worst(m, r) /\ (StartsLow(s, i, n) => Len(f[i]) <= Worst(m, r) - 2)
    BY <2>2, <2>4, <1>2, <1>3, <1>4, <1>5, <1>6, <1>7
  <2> QED BY <2>5, <1>1, <1>2 DEF i
<1>9. CASE j # n
  <2> DEFINE d == ScanRun(s, j, n)
             b == j + d
             k == n - b
  <2>1. b \in i + 1 .. n
    BY <1>2, <1>9, TurnGoesOn
  <2>2. f[i] = TurnCode(s, i, n) \o f[b]
    BY <1>2, <1>9, CodeFrom, ZenonT(30)
  <2>3. TurnCode(s, i, n) \in Seq(0 .. 15) /\ Len(TurnCode(s, i, n)) = l + 1 + d
    BY <1>2, <1>9, TurnCodeIs
  <2>4. j \in 0 .. n - 1
    BY <1>3, <1>9
  <2>5. d \in 1 .. 15 /\ RunEnds(s, j, d, n)
    <3> HIDE DEF j
    <3> QED BY <2>4, ScanRunIs
  <2> HIDE DEF d
  <2>6. d = 15 \/ b = n \/ StartsLow(s, b, n)
    BY <2>5, <2>4, <1>2 DEF RunEnds, StartsLow
  <2> HIDE DEF b, j
  <2>7. k \in 0 .. n /\ ~ (m <= k) /\ n - k = b /\ k \in 0 .. m /\ m = z + d + k
    <3>1. b = i + z + d /\ k = n - b
      BY <1>3 DEF b
    <3> HIDE DEF z, k
    <3> QED BY <3>1, <2>1, <2>5, <1>2, <1>3
  <2>8. k \notin T
    <3> HIDE DEF T
    <3> QED BY <2>7, <1>1
  <2>9. P(b)
    <3> HIDE DEF P
    <3> QED BY <2>7, <2>8
  <2>10. Len(f[i]) = l + 1 + d + Len(f[b]) /\ Len(f[b]) \in Nat
    <3> DEFINE u == TurnCode(s, i, n)
               v == f[b]
    <3>1. b \in 0 .. n
      BY <2>1, <1>2
    <3>2. u \in Seq(0 .. 15) /\ v \in Seq(0 .. 15)
      <4> HIDE DEF b, d, T, P, j
      <4> QED BY <3>1, <2>3, CodesTyped
    <3> HIDE DEF u, v, l, d
    <3>3. Len(u \o v) = Len(u) + Len(v) /\ Len(v) \in Nat
      BY <3>2
    <3> QED BY <3>3, <2>2, <2>3 DEF u, v
  <2>11. /\ Worst(k, r) \in Nat
         /\ Worst(m, r) - m >= Worst(k, r) - k
         /\ d = 15 => Worst(m, r) - m >= Worst(k, r) - k + 2
         /\ b = n => Worst(k, r) = 3 + e
    <3>1. d = 15 => k \in 0 .. m - 15
      BY <2>7, <1>3
    <3>2. b = n => k = 0
      BY <1>2
    <3>3. Worst(0, r) = 3 + e
      BY DEF Worst
    <3>4. m \in Nat /\ k \in Nat /\ k \in 0 .. m
      BY <2>7, <1>2
    <3> HIDE DEF k, e, b, d, T, P, z, l
    <3>5. Worst(k, r) \in Nat /\ Worst(m, r) - m >= Worst(k, r) - k
      BY <3>4, WorstIs
    <3>6. k \in 0 .. m - 15 => Worst(m, r) - m >= Worst(k, r) - k + 2
      BY <3>4, WorstIs
    <3> QED BY <3>1, <3>2, <3>3, <3>5, <3>6
  <2>12. Len(f[b]) <= Worst(k, r) /\ (StartsLow(s, b, n) => Len(f[b]) <= Worst(k, r) - 2)
    BY <2>9
  <2> DEFINE x == Len(f[b])
             y == Len(f[i])
             wm == Worst(m, r)
             wk == Worst(k, r)
             low == StartsLow(s, b, n)
             low0 == StartsLow(s, i, n)
  <2>16. /\ d = 15 \/ b = n \/ low
         /\ m = z + d + k
         /\ y = l + 1 + d + x
         /\ wm - m >= wk - k
         /\ d = 15 => wm - m >= wk - k + 2
         /\ b = n => wk = 3 + e
         /\ x <= wk /\ (low => x <= wk - 2)
         /\ l <= 1 + z /\ (z >= 2 => l <= z - 1)
         /\ wm >= m + 3 + e
         /\ m > 0 => wm >= m + 5 + e
         /\ low0 => z >= 2
         /\ b = n => k = 0
    BY <2>6, <2>7, <2>10, <2>11, <2>12, <1>4, <1>5, <1>7, <1>2
  <2>17. d \in 1 .. 15 /\ z \in Nat /\ k \in Nat /\ m \in Nat /\ l \in Nat /\ x \in Nat /\ wm \in Nat /\ wk \in Nat
         /\ e \in 0 .. 1 /\ n \in Nat
    BY <2>5, <2>7, <2>10, <2>11, <1>2, <1>3, <1>5, <1>6, <1>7
  <2> HIDE DEF k, l, z, e, P, T, x, y, wm, wk, low, low0
  <2>13. y <= wm
    BY <2>16, <2>17
  <2>14. low0 => y <= wm - 2
    BY <2>16, <2>17
  <2>15. P(i)
    BY <2>13, <2>14, <1>2 DEF P, y, wm, low0
  <2> QED BY <2>15, <1>1 DEF i, T
<1> QED BY <1>8, <1>9

(* The worst case that the documentation of rs4_compress gives, and one    *)
(* nibble.                                                                 *)
LEMMA CompressedIsShort ==
  ASSUME NEW length \in Nat, NEW s
  PROVE  Len(Compressed(s, length)) <= (((length + 3) \div 4 + 14) \div 15) * 17 + 3
<1> DEFINE n == length \div 4
           r == length % 4
           e == IF r = 0 THEN 0 ELSE 1
           m == (length + 3) \div 4
           c == (m + 14) \div 15
           d == (n + 14) \div 15
<1>1. PICK f : CodesOf(f, 0, s, n, r) /\ Compressed(s, length) = f[0]
  BY CompressedIs
<1>2. n \in Nat /\ r \in 0 .. 3 /\ length = 4 * n + r
  OBVIOUS
<1>3. m = n + e /\ e \in 0 .. 1
  <2> HIDE DEF n, r
  <2> QED BY <1>2
<1>4. Worst(n, r) = n + 2 * d + 3 + e
  BY DEF Worst
<1> HIDE DEF n, r, m, e
<1>5. c \in Nat /\ d \in Nat /\ d <= c /\ m <= 15 * c
  BY <1>2, <1>3
<1>6. 0 \in 0 .. n /\ n - 0 = n
  BY <1>2
<1>7. Len(f[0]) <= Worst(n - 0, r)
  BY <1>1, <1>2, <1>6, CodesAreShort, Zenon
<1>8. Len(f[0]) \in Nat
  BY <1>1, <1>2, <1>6, CodesTyped
<1> HIDE DEF c, d
<1>9. Len(f[0]) <= c * 17 + 3
  BY <1>2, <1>3, <1>4, <1>5, <1>6, <1>7, <1>8
<1> QED BY <1>1, <1>9 DEF c, m

-----------------------------------------------------------------------------
(***************************************************************************)
(* The difference that is read from files, and the file it is saved to.    *)
(***************************************************************************)

(* A word has the bits it is put together from.                            *)
LEMMA WordsAre ==
  ASSUME NEW length \in Nat, NEW a \in UpTo(length)
  PROVE  /\ a \div 32 \in 0 .. WordCount(length) - 1
         /\ a % 32 \in 0 .. 31
         /\ a = 32 * (a \div 32) + (a % 32)
<1> DEFINE i == a \div 32
           k == a % 32
           c == WordCount(length)
<1>1. a \in 0 .. length - 1
  BY DEF UpTo
<1>2. i \in Nat /\ k \in 0 .. 31 /\ a = 32 * i + k
  BY <1>1
<1>3. c \in Nat /\ length <= 32 * c
  BY DEF WordCount
<1> HIDE DEF i, k, c
<1>4. i \in 0 .. c - 1
  BY <1>1, <1>2, <1>3
<1> QED BY <1>2, <1>4 DEF i, k, c

LEMMA FileDeltaIs ==
  ASSUME NEW length \in Nat, NEW init, NEW alter,
         LongBits = 32 /\ length % 32 = 0 => length - 32 \notin init \cup alter
  PROVE  FileDelta(init, alter, length) = Delta(init, alter, length)
<1> DEFINE mask(i) == 0 .. Least(length - 32 * i, 32) - 1
           words == 0 .. WordCount(length) - 1
           Differ(i) == Xor(ReadWord(init, i, length), ReadWord(alter, i, length)) \cap mask(i)
<1>1. WordCount(length) \in Nat
  BY DEF WordCount
<1>2. \A i \in words : ReadWord(init, i, length) = WordBits(init, i, length)
                    /\ ReadWord(alter, i, length) = WordBits(alter, i, length)
  <2> SUFFICES ASSUME NEW i \in words
               PROVE  ReadWord(init, i, length) = WordBits(init, i, length)
                   /\ ReadWord(alter, i, length) = WordBits(alter, i, length)
    OBVIOUS
  <2>1. i \in Nat
    BY <1>1
  <2>2. 32 * (i + 1) = length => length % 32 = 0 /\ 32 * i = length - 32
    BY <2>1
  <2> QED BY <2>2 DEF ReadWord
<1>3. \A i \in words : \A k : k \in Differ(i) <=> k \in 0 .. 31 /\ 32 * i + k \in Delta(init, alter, length)
  <2> SUFFICES ASSUME NEW i \in words, NEW k
               PROVE  k \in Differ(i) <=> k \in 0 .. 31 /\ 32 * i + k \in Delta(init, alter, length)
    OBVIOUS
  <2>1. i \in Nat
    BY <1>1
  <2>2. k \in mask(i) <=> k \in 0 .. 31 /\ 32 * i + k < length
    BY <2>1 DEF Least
  <2>3. k \in 0 .. 31 => (32 * i + k \in UpTo(length) <=> 32 * i + k < length)
    BY <2>1 DEF UpTo
  <2>4. k \in Differ(i) <=> k \in Xor(WordBits(init, i, length), WordBits(alter, i, length)) /\ k \in mask(i)
    BY <1>2
  <2>5. k \in Xor(WordBits(init, i, length), WordBits(alter, i, length))
          <=> k \in 0 .. 31 /\ 32 * i + k < length /\ ~ (32 * i + k \in init <=> 32 * i + k \in alter)
    BY DEF Xor, WordBits
  <2>6. 32 * i + k \in Delta(init, alter, length)
          <=> 32 * i + k \in UpTo(length) /\ ~ (32 * i + k \in init <=> 32 * i + k \in alter)
    BY DEF Xor, Delta
  <2> HIDE DEF mask, Differ, words
  <2> QED BY <2>2, <2>3, <2>4, <2>5, <2>6
<1>4. \A a : a \in FileDelta(init, alter, length) <=> \E i \in words : \E k \in Differ(i) : a = 32 * i + k
  BY DEF FileDelta
<1>5. \A a \in Delta(init, alter, length) : a \in UpTo(length)
  BY DEF Delta
<1> HIDE DEF mask, Differ, words
<1>6. \A a \in FileDelta(init, alter, length) : a \in Delta(init, alter, length)
  BY <1>3, <1>4
<1>7. \A a \in Delta(init, alter, length) : a \in FileDelta(init, alter, length)
  <2> SUFFICES ASSUME NEW a \in Delta(init, alter, length)
               PROVE  a \in FileDelta(init, alter, length)
    OBVIOUS
  <2> DEFINE i == a \div 32
             k == a % 32
  <2>1. i \in words /\ k \in 0 .. 31 /\ a = 32 * i + k
    BY <1>5, WordsAre DEF words
  <2> HIDE DEF i, k
  <2>2. k \in Differ(i)
    BY <2>1, <1>3
  <2> QED BY <2>1, <2>2, <1>4
<1> QED BY <1>6, <1>7

(* A file of whole bytes, and of the bits of the last, is the difference.  *)
LEMMA SavedIs ==
  ASSUME NEW length \in Nat \ {0}, NEW s, s \subseteq UpTo(length)
  PROVE  Saved(s, length) = s
<1> DEFINE whole == (length - 1) \div 8
           low == {b \in s : b < 8 * whole}
           high == {8 * whole + k : k \in {j \in 0 .. length - 8 * whole - 1 : 8 * whole + j \in s}}
<1>1. Saved(s, length) = low \cup high
  BY DEF Saved
<1>2. whole \in Nat /\ 8 * whole < length
  OBVIOUS
<1> HIDE DEF whole
<1>3. \A b \in s : b \in 0 .. length - 1
  BY DEF UpTo
<1>4. \A b \in s : b >= 8 * whole => b \in high
  <2> SUFFICES ASSUME NEW b \in s, b >= 8 * whole
               PROVE  b \in high
    OBVIOUS
  <2>1. b - 8 * whole \in 0 .. length - 8 * whole - 1 /\ 8 * whole + (b - 8 * whole) = b
    BY <1>2, <1>3
  <2> QED BY <2>1
<1>5. high \subseteq s
  OBVIOUS
<1> HIDE DEF high
<1>6. \A b \in s : b \in low \cup high
  BY <1>2, <1>3, <1>4
<1> QED BY <1>1, <1>5, <1>6

-----------------------------------------------------------------------------
(***************************************************************************)
(* The hardware.  Part of a ring is done when its bits before a position   *)
(* have been changed and the ring has been rotated as far.                 *)
(***************************************************************************)
LEMMA SeatIs ==
  ASSUME NEW n \in Nat \ {0}, NEW at \in 0 .. n - 1, NEW k \in 0 .. n
  PROVE  (at + k) % n = IF at + k < n THEN at + k ELSE at + k - n
<1>1. CASE at + k < n
  BY <1>1
<1>2. CASE at + k >= n
  <2> DEFINE x == at + k - n
  <2>1. x \in 0 .. n - 1 /\ at + k = n * 1 + x
    BY <1>2
  <2>2. (n * 1 + x) % n = x
    <3> HIDE DEF x
    <3> QED BY <2>1
  <2> QED BY <2>1, <2>2
<1> QED BY <1>1, <1>2

LEMMA SeatsDiffer ==
  ASSUME NEW n \in Nat, n >= 32, NEW at \in 0 .. n - 1
  PROVE  /\ \A k \in 0 .. 31 : (at + k) % n \in 0 .. n - 1
         /\ \A k, m \in 0 .. 31 : (at + k) % n = (at + m) % n => k = m
<1>1. \A k \in 0 .. 31 : (at + k) % n = IF at + k < n THEN at + k ELSE at + k - n
  <2> SUFFICES ASSUME NEW k \in 0 .. 31
               PROVE  (at + k) % n = IF at + k < n THEN at + k ELSE at + k - n
    OBVIOUS
  <2>1. n \in Nat \ {0} /\ k \in 0 .. n
    OBVIOUS
  <2> QED BY <2>1, SeatIs
<1>2. \A k \in 0 .. 31 : (at + k) % n \in 0 .. n - 1
  BY <1>1
<1>3. ASSUME NEW k \in 0 .. 31, NEW m \in 0 .. 31, (at + k) % n = (at + m) % n
      PROVE  k = m
  <2> DEFINE x == (at + k) % n
             y == (at + m) % n
  <2>1. x = (IF at + k < n THEN at + k ELSE at + k - n) /\ y = (IF at + m < n THEN at + m ELSE at + m - n) /\ x = y
    BY <1>1, <1>3
  <2> HIDE DEF x, y
  <2> QED BY <2>1
<1> QED BY <1>2, <1>3

(* To change the register is to change the ring where the register is.     *)
LEMMA RegisterChanges ==
  ASSUME NEW hw, hw.length \in Nat, hw.length >= 32, hw.at \in 0 .. hw.length - 1, NEW v, v \subseteq 0 .. 31
  PROVE  (hw.ones \ {(hw.at + k) % hw.length : k \in 0 .. 31}) \cup {(hw.at + k) % hw.length : k \in Xor(Register(hw), v)}
         = Xor(hw.ones, {(hw.at + k) % hw.length : k \in v})
<1> DEFINE seat(k) == (hw.at + k) % hw.length
           x == Xor(Register(hw), v)
<1>1. \A k, m \in 0 .. 31 : seat(k) = seat(m) => k = m
  BY SeatsDiffer
<1>2. \A k : k \in x <=> k \in 0 .. 31 /\ ~ (seat(k) \in hw.ones <=> k \in v)
  BY DEF Xor, Register
<1> HIDE DEF seat, x
<1>3. \A a : a \in (hw.ones \ {seat(k) : k \in 0 .. 31}) \cup {seat(k) : k \in x} <=> a \in Xor(hw.ones, {seat(k) : k \in v})
  <2> SUFFICES ASSUME NEW a
               PROVE  a \in (hw.ones \ {seat(k) : k \in 0 .. 31}) \cup {seat(k) : k \in x} <=> a \in Xor(hw.ones, {seat(k) : k \in v})
    OBVIOUS
  <2>1. CASE a \notin {seat(k) : k \in 0 .. 31}
    <3>1. a \notin {seat(k) : k \in x} /\ a \notin {seat(k) : k \in v}
      BY <2>1, <1>2
    <3> QED BY <2>1, <3>1 DEF Xor
  <2>2. CASE a \in {seat(k) : k \in 0 .. 31}
    <3>1. PICK k \in 0 .. 31 : a = seat(k)
      BY <2>2
    <3>2. a \in {seat(m) : m \in x} <=> k \in x
      BY <3>1, <1>1, <1>2
    <3>3. a \in {seat(m) : m \in v} <=> k \in v
      BY <3>1, <1>1
    <3> QED BY <2>2, <3>1, <3>2, <3>3, <1>2 DEF Xor
  <2> QED BY <2>1, <2>2
<1> QED BY <1>3 DEF seat, x

(* The ring whose bits before p are changed by s.                          *)
Part(ring, s, p) ==
    [length |-> ring.length, ones |-> Xor(Marked(ring).ones, {b \in s : b < p}), at |-> p % ring.length]
(* A ring, and the bits that are to be changed.                            *)
Changes(ring, s) ==
    /\ ring.length \in Nat /\ ring.length >= 32
    /\ s \subseteq UpTo(ring.length) /\ s \cap (0 .. 31) = {}
    /\ ring.flush => ring.init \cap UpTo(ring.length) = {}

LEMMA MarkedIs ==
  ASSUME NEW ring, ring.length \in Nat, ring.length >= 32
  PROVE  /\ Marked(ring) = [length |-> ring.length, ones |-> ((ring.init \cap UpTo(ring.length)) \ (0 .. 31)) \cup CheckWord,
                            at |-> 0]
         /\ CheckWord \subseteq 0 .. 31
<1> DEFINE n == ring.length
           hw == Hardware(ring)
<1>1. hw.length = n /\ hw.at = 0 /\ hw.ones = ring.init \cap UpTo(n)
  BY DEF Hardware
<1>2. CheckWord \subseteq 0 .. 31
  BY DEF CheckWord
<1>3. \A k \in 0 .. 31 : (hw.at + k) % hw.length = k
  <2> SUFFICES ASSUME NEW k \in 0 .. 31
               PROVE  (hw.at + k) % hw.length = k
    OBVIOUS
  <2>1. 0 + k < n /\ 0 + k = k /\ k \in 0 .. n /\ n \in Nat \ {0} /\ 0 \in 0 .. n - 1
    OBVIOUS
  <2> HIDE DEF n, hw
  <2>2. (0 + k) % n = IF 0 + k < n THEN 0 + k ELSE 0 + k - n
    BY <2>1, SeatIs
  <2> QED BY <2>1, <2>2, <1>1
<1>4. {(hw.at + k) % hw.length : k \in 0 .. 31} = 0 .. 31
  BY <1>3
<1>5. {(hw.at + k) % hw.length : k \in CheckWord} = CheckWord
  BY <1>2, <1>3, ZenonT(30)
<1>6. Marked(ring) = [hw EXCEPT !.ones = (hw.ones \ (0 .. 31)) \cup CheckWord]
  BY <1>4, <1>5 DEF Marked, Loaded
<1>7. Marked(ring) = [length |-> n, ones |-> ((ring.init \cap UpTo(n)) \ (0 .. 31)) \cup CheckWord, at |-> 0]
  <2>1. hw = [length |-> n, ones |-> ring.init \cap UpTo(n), at |-> 0]
    BY DEF Hardware
  <2> HIDE DEF hw, n
  <2> QED BY <2>1, <1>6, <1>1
<1> QED BY <1>2, <1>7

LEMMA PartBegins ==
  ASSUME NEW ring, NEW s, Changes(ring, s)
  PROVE  Marked(ring) = Part(ring, s, 0)
<1>1. ring.length \in Nat /\ ring.length >= 32 /\ \A b \in s : b \in 0 .. ring.length - 1
  BY DEF Changes, UpTo
<1>2. {b \in s : b < 0} = {}
  BY <1>1
<1>3. 0 % ring.length = 0
  BY <1>1
<1> DEFINE base == Marked(ring).ones
<1>4. Xor(base, {}) = base
  BY DEF Xor
<1>5. Marked(ring) = [length |-> ring.length, ones |-> base, at |-> 0]
  BY <1>1, MarkedIs
<1> HIDE DEF base
<1> QED BY <1>2, <1>3, <1>4, <1>5 DEF Part, base

(* A position within the ring, and where the register is.                  *)
LEMMA PlaceIs ==
  ASSUME NEW n \in Nat \ {0}, NEW p \in 0 .. n
  PROVE  /\ p % n \in 0 .. n - 1
         /\ p < n => p % n = p
         /\ p = n => p % n = 0
         /\ \A k \in Nat : p + k <= n => ((p % n) + k) % n = (p + k) % n
<1>1. p < n => p % n = p
  OBVIOUS
<1>2. n % n = 0
  <2>1. n = n * 1 + 0
    OBVIOUS
  <2>2. (n * 1 + 0) % n = 0
    OBVIOUS
  <2> QED BY <2>1, <2>2
<1>3. p = n => p % n = 0
  BY <1>2
<1>4. p % n \in 0 .. n - 1
  BY <1>1, <1>3
<1>5. ASSUME NEW k \in Nat, p + k <= n
      PROVE  ((p % n) + k) % n = (p + k) % n
  <2>1. CASE p < n
    BY <2>1, <1>1
  <2>2. CASE p = n
    <3>1. k = 0
      BY <2>2, <1>5
    <3>2. (0 + 0) % n = 0 /\ p + 0 = n
      BY <2>2
    <3> QED BY <3>1, <3>2, <1>2, <1>3, <2>2
  <2> QED BY <2>1, <2>2
<1> QED BY <1>1, <1>3, <1>4, <1>5

(* Bits that stay are passed over by turning.                              *)
LEMMA PartTurns ==
  ASSUME NEW ring, NEW s, Changes(ring, s), NEW p \in Nat, NEW n \in Nat, p + n <= ring.length,
         \A b \in s : ~ (p <= b /\ b < p + n)
  PROVE  Turned(Part(ring, s, p), n) = Part(ring, s, p + n)
<1> DEFINE len == ring.length
           base == Marked(ring).ones
<1>1. len \in Nat \ {0} /\ p \in 0 .. len /\ \A b \in s : b \in Nat
  BY DEF Changes, UpTo
<1>2. ((p % len) + n) % len = (p + n) % len
  <2> HIDE DEF len
  <2> QED BY <1>1, PlaceIs DEF len
<1>3. {b \in s : b < p} = {b \in s : b < p + n}
  BY <1>1
<1>4. Part(ring, s, p) = [length |-> len, ones |-> Xor(base, {b \in s : b < p}), at |-> p % len]
  BY DEF Part
<1>5. Part(ring, s, p + n) = [length |-> len, ones |-> Xor(base, {b \in s : b < p + n}), at |-> (p + n) % len]
  BY DEF Part
<1> DEFINE u == {b \in s : b < p}
           x == Xor(base, u)
<1> HIDE DEF len, base, x, u
<1>6. Turned(Part(ring, s, p), n) = [length |-> len, ones |-> x, at |-> ((p % len) + n) % len]
  BY <1>4 DEF Turned, x, u
<1> QED BY <1>2, <1>3, <1>5, <1>6 DEF x, u

(* Bits that change are changed in the register.                           *)
LEMMA PartChanges ==
  ASSUME NEW ring, NEW s, Changes(ring, s), NEW p \in Nat, NEW n \in 1 .. 32, p + n <= ring.length,
         NEW v, v = {k \in 0 .. n - 1 : p + k \in s}
  PROVE  Turned(Loaded(Part(ring, s, p), Xor(Register(Part(ring, s, p)), v)), n) = Part(ring, s, p + n)
<1> DEFINE len == ring.length
           base == Marked(ring).ones
           hw == Part(ring, s, p)
           u == {b \in s : b < p}
           w == {b \in s : b < p + n}
           x == Xor(base, u)
           at == p % len
<1>1. len \in Nat \ {0} /\ len >= 32 /\ p \in 0 .. len - 1 /\ \A b \in s : b \in 0 .. len - 1
  <2>1. len \in Nat /\ len >= 32 /\ s \subseteq 0 .. len - 1
    BY DEF Changes, UpTo
  <2> HIDE DEF len
  <2> QED BY <2>1 DEF len
<1>2. at = p /\ at \in 0 .. len - 1
  <2> HIDE DEF len
  <2>1. p \in 0 .. len /\ p < len
    BY <1>1
  <2> QED BY <1>1, <2>1, PlaceIs DEF len
<1>3. hw = [length |-> len, ones |-> x, at |-> at]
  BY DEF Part
<1>4. Part(ring, s, p + n) = [length |-> len, ones |-> Xor(base, w), at |-> (p + n) % len]
  BY DEF Part
<1>5. v \subseteq 0 .. 31
  OBVIOUS
<1> HIDE DEF len, base, at, hw
<1>6. hw.length = len /\ hw.at = p /\ hw.ones = x
  BY <1>2, <1>3
<1>7. \A k \in v : (hw.at + k) % hw.length = p + k
  <2> SUFFICES ASSUME NEW k \in v
               PROVE  (p + k) % len = p + k
    BY <1>6
  <2> DEFINE q == p + k
  <2>1. q \in 0 .. len /\ q < len
    BY <1>1, <1>5
  <2> HIDE DEF q
  <2>2. q % len = q
    BY <2>1, <1>1, PlaceIs
  <2> QED BY <2>2 DEF q
<1>8. {(hw.at + k) % hw.length : k \in v} = {p + k : k \in v}
  BY <1>7
<1>9. {p + k : k \in v} = {b \in s : p <= b /\ b < p + n}
  <2>1. \A b \in s : p <= b /\ b < p + n => b - p \in 0 .. n - 1 /\ p + (b - p) = b
    BY <1>1
  <2>2. \A b \in s : p <= b /\ b < p + n => b - p \in v
    BY <2>1
  <2>3. \A k \in v : p + k \in s /\ p <= p + k /\ p + k < p + n
    OBVIOUS
  <2> QED BY <2>1, <2>2, <2>3
<1>10. Xor(x, {b \in s : p <= b /\ b < p + n}) = Xor(base, w)
  <2>1. \A b \in s : (b < p + n <=> b < p \/ (p <= b /\ b < p + n)) /\ ~ (b < p /\ p <= b)
    BY <1>1
  <2> QED BY <2>1 DEF Xor
<1> DEFINE loaded == Loaded(hw, Xor(Register(hw), v))
<1>11. loaded = [hw EXCEPT !.ones = Xor(base, w)]
  <2>1. (hw.ones \ {(hw.at + k) % hw.length : k \in 0 .. 31}) \cup {(hw.at + k) % hw.length : k \in Xor(Register(hw), v)}
         = Xor(hw.ones, {(hw.at + k) % hw.length : k \in v})
    <3>1. hw.length \in Nat /\ hw.length >= 32 /\ hw.at \in 0 .. hw.length - 1
      BY <1>1, <1>6
    <3> QED BY <3>1, <1>5, RegisterChanges
  <2>2. Xor(hw.ones, {(hw.at + k) % hw.length : k \in v}) = Xor(base, w)
    BY <1>6, <1>8, <1>9, <1>10
  <2> QED BY <2>1, <2>2 DEF Loaded
<1> HIDE DEF x, w, u
<1>12. loaded = [length |-> len, ones |-> Xor(base, w), at |-> at]
  BY <1>3, <1>11
<1> HIDE DEF loaded
<1>13. Turned(loaded, n) = [length |-> len, ones |-> Xor(base, w), at |-> (at + n) % len]
  BY <1>12 DEF Turned
<1> QED BY <1>2, <1>4, <1>13 DEF loaded, hw

(* Where a ring that is flushed has not been changed yet it is all zeros.  *)
LEMMA RestIsZero ==
  ASSUME NEW ring, NEW s, Changes(ring, s), ring.flush, NEW p \in Nat, p >= 32, NEW n \in 1 .. 32, p + n <= ring.length
  PROVE  Register(Part(ring, s, p)) \cap (0 .. n - 1) = {}
<1> DEFINE len == ring.length
           base == Marked(ring).ones
           hw == Part(ring, s, p)
<1>1. len \in Nat \ {0} /\ len >= 32 /\ p \in 0 .. len - 1
  BY DEF Changes
<1>2. base \subseteq 0 .. 31
  <2>1. ring.init \cap UpTo(len) = {}
    BY DEF Changes
  <2>2. Marked(ring).ones = ((ring.init \cap UpTo(ring.length)) \ (0 .. 31)) \cup CheckWord /\ CheckWord \subseteq 0 .. 31
    BY <1>1, MarkedIs
  <2> QED BY <2>1, <2>2
<1>3. hw.length = len /\ hw.ones = Xor(base, {b \in s : b < p}) /\ hw.at = p % len
  BY DEF Part
<1> HIDE DEF base, hw
<1>4. hw.at = p
  <2> HIDE DEF len
  <2>1. p \in 0 .. len /\ p < len
    BY <1>1
  <2>2. p % len = p
    BY <1>1, <2>1, PlaceIs
  <2> QED BY <1>3, <2>2
<1> SUFFICES ASSUME NEW k \in 0 .. n - 1, k \in Register(hw)
             PROVE  FALSE
  BY DEF hw
<1> DEFINE q == p + k
<1>6. q \in 0 .. len /\ q < len /\ q >= 32 /\ q >= p
  BY <1>1
<1>7. (hw.at + k) % hw.length \in hw.ones
  BY DEF Register
<1>8. q % len = q
  <2> HIDE DEF q, len
  <2> QED BY <1>1, <1>6, PlaceIs
<1>9. q \in Xor(base, {b \in s : b < p})
  BY <1>3, <1>4, <1>7, <1>8
<1> HIDE DEF q
<1>10. q \notin 0 .. 31 /\ ~ (q < p)
  BY <1>6
<1> QED BY <1>2, <1>9, <1>10 DEF Xor

(* What the ways to change the register come to.                           *)
WaysAgree(ring, s, p, n, v) ==
    /\ Operate(Part(ring, s, p), <<"xor", v, n>>) = Part(ring, s, p + n)
    /\ ring.flush /\ p >= 32 /\ p + 32 <= ring.length =>
          Operate(Part(ring, s, p), <<"write", v, n>>) = Part(ring, s, p + n)
    /\ ring.flush /\ p >= 32 => Operate(Part(ring, s, p), <<"keep", v, n>>) = Part(ring, s, p + n)
LEMMA WaysChange ==
  ASSUME NEW ring, NEW s, Changes(ring, s), NEW p \in Nat, NEW n \in 1 .. 32, p + n <= ring.length,
         NEW v, v = {k \in 0 .. n - 1 : p + k \in s}
  PROVE  WaysAgree(ring, s, p, n, v)
<1> DEFINE hw == Part(ring, s, p)
           reg == Register(hw)
<1>1. Turned(Loaded(hw, Xor(reg, v)), n) = Part(ring, s, p + n)
  BY PartChanges
<1>2. reg \subseteq 0 .. 31
  BY DEF Register
<1>3. v \subseteq 0 .. n - 1
  OBVIOUS
<1>4. ASSUME ring.flush, p >= 32, p + 32 <= ring.length
      PROVE  Xor(reg, v) = v
  <2>1. reg \cap (0 .. 32 - 1) = {}
    BY <1>4, RestIsZero
  <2> HIDE DEF reg
  <2>2. reg = {}
    BY <2>1, <1>2
  <2> QED BY <2>2 DEF Xor
<1>5. ASSUME ring.flush, p >= 32
      PROVE  Xor(reg, v) = (reg \cap (n .. 31)) \cup v
  <2>1. reg \cap (0 .. n - 1) = {}
    BY <1>5, RestIsZero
  <2> HIDE DEF reg
  <2>2. \A k \in reg : k \in 0 .. 31 /\ k \notin 0 .. n - 1
    BY <2>1, <1>2
  <2>3. \A k \in reg : k \in n .. 31 /\ k \notin v
    BY <2>2, <1>3
  <2> QED BY <2>3 DEF Xor
<1> HIDE DEF hw
<1>6. Operate(hw, <<"xor", v, n>>) = Turned(Loaded(hw, Xor(Register(hw), v)), n)
  BY DEF Operate
<1>7. Operate(hw, <<"write", v, n>>) = Turned(Loaded(hw, v), n)
  BY DEF Operate
<1>8. Operate(hw, <<"keep", v, n>>) = Turned(Loaded(hw, (Register(hw) \cap (n .. 31)) \cup v), n)
  BY DEF Operate
<1> QED BY <1>1, <1>4, <1>5, <1>6, <1>7, <1>8 DEF hw, WaysAgree

RanOf(f, N, hw, ops) == f = [k \in 0 .. N |-> IF k = 0 THEN hw ELSE Operate(f[k - 1], ops[k])]
(* The recursive definition of a run has a solution.                       *)
LEMMA RanExists ==
  ASSUME NEW N \in Nat, NEW hw, NEW ops
  PROVE  \E f : RanOf(f, N, hw, ops)
<1> DEFINE T == {n \in 0 .. N : ~ \E f : RanOf(f, n, hw, ops)}
<1> SUFFICES ASSUME T # {} PROVE FALSE
  OBVIOUS
<1>1. PICK last \in T : \A x \in T : last <= x
  <2>1. T \subseteq Nat
    OBVIOUS
  <2> HIDE DEF T
  <2> QED BY <2>1, LeastOf
<1>2. last # 0
  <2> DEFINE g == [k \in 0 .. 0 |-> hw]
  <2>1. g = [k \in 0 .. 0 |-> IF k = 0 THEN hw ELSE Operate(g[k - 1], ops[k])]
    OBVIOUS
  <2> HIDE DEF g
  <2>2. RanOf(g, 0, hw, ops)
    BY <2>1 DEF RanOf
  <2> QED BY <1>1, <2>2
<1>3. last \in Nat \ {0} /\ last - 1 \in 0 .. N /\ ~ (last <= last - 1)
  BY <1>1, <1>2
<1>4. last - 1 \notin T
  <2> HIDE DEF T
  <2> QED BY <1>1, <1>3
<1>5. PICK g : RanOf(g, last - 1, hw, ops)
  BY <1>3, <1>4
<1> DEFINE h == [k \in 0 .. last |-> IF k = 0 THEN hw ELSE Operate(g[k - 1], ops[k])]
<1>6. \A k \in 0 .. last - 1 : h[k] = g[k]
  <2>1. \A k \in 0 .. last - 1 : g[k] = IF k = 0 THEN hw ELSE Operate(g[k - 1], ops[k])
    BY <1>5 DEF RanOf
  <2>2. \A k \in 0 .. last - 1 : k \in 0 .. last
    BY <1>3
  <2> QED BY <2>1, <2>2
<1>7. \A k \in 0 .. last : k # 0 => k - 1 \in 0 .. last - 1
  BY <1>3
<1>8. h = [k \in 0 .. last |-> IF k = 0 THEN hw ELSE Operate(h[k - 1], ops[k])]
  <2>1. \A k \in 0 .. last : (IF k = 0 THEN hw ELSE Operate(g[k - 1], ops[k]))
                           = (IF k = 0 THEN hw ELSE Operate(h[k - 1], ops[k]))
    <3> HIDE DEF h
    <3> QED BY <1>6, <1>7
  <2> QED BY <2>1
<1> HIDE DEF h
<1>9. RanOf(h, last, hw, ops)
  BY <1>8 DEF RanOf
<1> QED BY <1>1, <1>9

LEMMA RunIs ==
  ASSUME NEW hw, NEW ops, Len(ops) \in Nat
  PROVE  \E f : RanOf(f, Len(ops), hw, ops) /\ Run(hw, ops) = f[Len(ops)]
<1> DEFINE ran == CHOOSE f : RanOf(f, Len(ops), hw, ops)
<1>1. RanOf(ran, Len(ops), hw, ops)
  BY RanExists
<1>2. Run(hw, ops) = ran[Len(ops)]
  BY DEF Run, RanOf
<1> QED BY <1>1, <1>2

(* What runs as far as a run goes is the run.                              *)
LEMMA RanAre ==
  ASSUME NEW hw, NEW ops, Len(ops) \in Nat, NEW g, g[0] = hw,
         \A k \in 1 .. Len(ops) : Operate(g[k - 1], ops[k]) = g[k]
  PROVE  Run(hw, ops) = g[Len(ops)]
<1> DEFINE n == Len(ops)
<1>1. PICK f : RanOf(f, n, hw, ops) /\ Run(hw, ops) = f[n]
  BY RunIs
<1>2. f[0] = hw /\ \A k \in 1 .. n : f[k] = Operate(f[k - 1], ops[k])
  BY <1>1 DEF RanOf
<1> HIDE DEF n
<1> DEFINE T == {k \in 0 .. n : f[k] # g[k]}
<1> SUFFICES ASSUME T # {} PROVE FALSE
  <2>1. n \in 0 .. n
    BY DEF n
  <2> QED BY <2>1, <1>1 DEF n
<1>3. PICK k \in T : \A x \in T : k <= x
  <2>1. T \subseteq Nat
    OBVIOUS
  <2> HIDE DEF T
  <2> QED BY <2>1, LeastOf
<1>4. k # 0
  BY <1>2, <1>3
<1>5. k \in 1 .. n /\ k - 1 \in 0 .. n /\ ~ (k <= k - 1)
  BY <1>3, <1>4 DEF n
<1>6. k - 1 \notin T
  <2> HIDE DEF T
  <2> QED BY <1>3, <1>5
<1>7. f[k - 1] = g[k - 1]
  BY <1>5, <1>6
<1>8. f[k] = g[k]
  BY <1>2, <1>5, <1>7 DEF n
<1> QED BY <1>3, <1>8

(* The nibbles of a turn are scanned in.                                   *)
LEMMA ScanRuns ==
  ASSUME NEW ring, NEW s, Changes(ring, s), NEW n \in Nat, 4 * n <= ring.length, NEW j \in 8 .. n - 1,
         NEW way \in {"xor", "write"},
         way = "write" => ring.flush /\ 4 * (j + ScanRun(s, j, n)) + 32 <= ring.length
  PROVE  Run(Part(ring, s, 4 * j), [k \in DOMAIN Scan(s, j, n) |-> <<way, NibbleBits(Scan(s, j, n)[k]), 4>>])
         = Part(ring, s, 4 * (j + ScanRun(s, j, n)))
<1> DEFINE d == ScanRun(s, j, n)
           scan == Scan(s, j, n)
           ops == [k \in DOMAIN scan |-> <<way, NibbleBits(scan[k]), 4>>]
           g == [k \in 0 .. d |-> Part(ring, s, 4 * (j + k))]
<1>1. d \in 1 .. 15 /\ j + d <= n /\ j \in 0 .. n - 1
  BY ScanRunIs
<1>2. DOMAIN scan = 1 .. d /\ \A k \in 1 .. d : scan[k] = Nibble(s, j + k - 1)
  BY <1>1, ScanTyped DEF Scan
<1>3. Len(ops) = d
  <2> HIDE DEF scan, d
  <2>1. ops \in Seq({<<way, NibbleBits(scan[k]), 4>> : k \in 1 .. d})
    BY <1>1, <1>2
  <2> QED BY <1>1, <1>2
<1>4. \A k \in 1 .. d : ops[k] = <<way, NibbleBits(scan[k]), 4>>
  BY <1>2
<1> HIDE DEF d, scan, ops
<1>5. ASSUME NEW k \in 1 .. d
      PROVE  Operate(g[k - 1], ops[k]) = g[k]
  <2> DEFINE i == j + k - 1
             p == 4 * i
             v == NibbleBits(scan[k])
  <2>1. i \in Nat /\ p \in Nat /\ p >= 32 /\ p + 4 <= ring.length /\ 4 \in 1 .. 32
        /\ p + 4 = 4 * (j + k) /\ p = 4 * (j + (k - 1)) /\ k - 1 \in 0 .. d /\ k \in 0 .. d
    <3>1. ring.length \in Nat
      BY DEF Changes
    <3> QED BY <3>1, <1>1
  <2>2. v = {b \in 0 .. 4 - 1 : p + b \in s}
    <3> HIDE DEF i
    <3>1. scan[k] = Nibble(s, i)
      BY <1>2 DEF i
    <3> QED BY <2>1, <3>1, NibbleIsBits
  <2>3. way = "write" => ring.flush /\ p + 32 <= ring.length
    <3>1. ring.length \in Nat
      BY DEF Changes
    <3> QED BY <3>1, <1>1 DEF d
  <2>4. ops[k] = <<way, v, 4>>
    BY <1>4
  <2>5. g[k - 1] = Part(ring, s, p) /\ g[k] = Part(ring, s, p + 4)
    BY <2>1
  <2> HIDE DEF p, v, i, g
  <2>6. WaysAgree(ring, s, p, 4, v)
    BY <2>1, <2>2, WaysChange
  <2> QED BY <2>1, <2>3, <2>4, <2>5, <2>6 DEF WaysAgree
<1>6. g[0] = Part(ring, s, 4 * j) /\ g[d] = Part(ring, s, 4 * (j + d))
  BY <1>1
<1> HIDE DEF g
<1>7. Run(Part(ring, s, 4 * j), ops) = g[Len(ops)]
  <2>1. Len(ops) \in Nat
    BY <1>1, <1>3
  <2> QED BY <2>1, <1>3, <1>5, <1>6, RanAre
<1> QED BY <1>3, <1>6, <1>7 DEF ops, scan, d

-----------------------------------------------------------------------------
(***************************************************************************)
(* The decompressor of the SBE.                                            *)
(***************************************************************************)
RotatedOf(f, N, hw) ==
    f = [k \in 0 .. N |-> IF k <= MaxRotate THEN Turned(hw, k) ELSE Turned(f[k - MaxRotate], MaxRotate)]

(* The recursive definition of the rotation has a solution.                *)
LEMMA RotatedExists ==
  ASSUME NEW N \in Nat, NEW hw
  PROVE  \E f : RotatedOf(f, N, hw)
<1> DEFINE T == {n \in 0 .. N : ~ \E f : RotatedOf(f, n, hw)}
<1> SUFFICES ASSUME T # {} PROVE FALSE
  OBVIOUS
<1>1. PICK last \in T : \A x \in T : last <= x
  <2>1. T \subseteq Nat
    OBVIOUS
  <2> HIDE DEF T
  <2> QED BY <2>1, LeastOf
<1>2. MaxRotate \in Nat \ {0}
  BY RotateAssumption
<1>3. \E g : last # 0 => RotatedOf(g, last - 1, hw)
  <2> SUFFICES ASSUME last # 0
               PROVE  \E g : RotatedOf(g, last - 1, hw)
    OBVIOUS
  <2>1. last - 1 \in 0 .. N /\ ~ (last <= last - 1)
    BY <1>1
  <2>2. last - 1 \notin T
    <3> HIDE DEF T
    <3> QED BY <1>1, <2>1
  <2> QED BY <2>1, <2>2
<1>4. PICK g : last # 0 => RotatedOf(g, last - 1, hw)
  BY <1>3
<1> DEFINE h == [k \in 0 .. last |-> IF k <= MaxRotate THEN Turned(hw, k) ELSE Turned(g[k - MaxRotate], MaxRotate)]
<1>5. last \in Nat
  BY <1>1
<1>6. \A k \in 0 .. last - 1 : h[k] = g[k]
  <2>1. \A k \in 0 .. last - 1 : last # 0 /\ k \in 0 .. last
    BY <1>5
  <2>2. \A k \in 0 .. last - 1 : g[k] = IF k <= MaxRotate THEN Turned(hw, k) ELSE Turned(g[k - MaxRotate], MaxRotate)
    BY <1>4, <2>1 DEF RotatedOf
  <2> QED BY <2>1, <2>2
<1>7. \A k \in 0 .. last : ~ (k <= MaxRotate) => k - MaxRotate \in 0 .. last - 1
  BY <1>2, <1>5
<1>8. h = [k \in 0 .. last |-> IF k <= MaxRotate THEN Turned(hw, k) ELSE Turned(h[k - MaxRotate], MaxRotate)]
  <2>1. \A k \in 0 .. last : (IF k <= MaxRotate THEN Turned(hw, k) ELSE Turned(g[k - MaxRotate], MaxRotate))
                           = (IF k <= MaxRotate THEN Turned(hw, k) ELSE Turned(h[k - MaxRotate], MaxRotate))
    <3> HIDE DEF h
    <3> QED BY <1>6, <1>7
  <2> QED BY <2>1
<1> HIDE DEF h
<1>9. RotatedOf(h, last, hw)
  BY <1>8 DEF RotatedOf
<1> QED BY <1>1, <1>9

(* A rotation in parts of MAX_ROTATE_BITS is a rotation.                   *)
LEMMA RotatedIs ==
  ASSUME NEW ring, NEW s, Changes(ring, s), NEW p \in Nat, NEW n \in Nat, p + n <= ring.length,
         \A b \in s : ~ (p <= b /\ b < p + n)
  PROVE  Rotated(Part(ring, s, p), n) = Part(ring, s, p + n)
<1> DEFINE hw == Part(ring, s, p)
           f == CHOOSE f : RotatedOf(f, n, hw)
<1>1. RotatedOf(f, n, hw)
  BY RotatedExists
<1>2. Rotated(hw, n) = f[n]
  BY DEF Rotated, RotatedOf
<1> HIDE DEF f
<1>3. \A k \in 0 .. n : f[k] = IF k <= MaxRotate THEN Turned(hw, k) ELSE Turned(f[k - MaxRotate], MaxRotate)
  BY <1>1 DEF RotatedOf
<1>4. MaxRotate \in Nat \ {0} /\ ring.length \in Nat /\ \A b \in s : b \in Nat
  BY RotateAssumption DEF Changes, UpTo
<1> DEFINE P(k) == f[k] = Part(ring, s, p + k)
           T == {k \in 0 .. n : ~ P(k)}
<1> SUFFICES ASSUME T # {} PROVE FALSE
  BY <1>2
<1>5. PICK k \in T : \A x \in T : k <= x
  <2>1. T \subseteq Nat
    OBVIOUS
  <2> HIDE DEF T
  <2> QED BY <2>1, LeastOf
<1>6. k \in 0 .. n /\ ~ P(k)
  BY <1>5
<1>7. CASE k <= MaxRotate
  <2>1. k \in Nat /\ p + k <= ring.length /\ \A b \in s : ~ (p <= b /\ b < p + k)
    BY <1>4, <1>6
  <2>2. Turned(Part(ring, s, p), k) = Part(ring, s, p + k)
    <3> HIDE DEF T, P
    <3> QED BY <2>1, PartTurns
  <2> QED BY <2>2, <1>3, <1>6, <1>7
<1>8. CASE ~ (k <= MaxRotate)
  <2> DEFINE m == k - MaxRotate
             q == p + m
  <2>1. m \in 0 .. n /\ ~ (k <= m) /\ q \in Nat /\ q + MaxRotate = p + k /\ q + MaxRotate <= ring.length
        /\ \A b \in s : ~ (q <= b /\ b < q + MaxRotate)
    BY <1>4, <1>6, <1>8
  <2>2. m \notin T
    <3> HIDE DEF T
    <3> QED BY <1>5, <2>1
  <2>3. P(m)
    <3> HIDE DEF P
    <3> QED BY <2>1, <2>2
  <2>4. f[k] = Turned(f[m], MaxRotate)
    BY <1>3, <1>6, <1>8
  <2> HIDE DEF m, T
  <2>5. f[m] = Part(ring, s, q)
    BY <2>3
  <2> HIDE DEF q, P
  <2>6. Turned(Part(ring, s, q), MaxRotate) = Part(ring, s, q + MaxRotate)
    BY <2>1, <1>4, PartTurns
  <2>7. P(k)
    BY <2>1, <2>4, <2>5, <2>6 DEF P
  <2> QED BY <2>7, <1>6
<1> QED BY <1>7, <1>8

(* Nothing is scanned at the end.                                          *)
LEMMA EmptyRun ==
  ASSUME NEW hw, NEW way
  PROVE  Run(hw, [k \in DOMAIN <<>> |-> <<way, NibbleBits(<<>>[k]), 4>>]) = hw
<1> DEFINE ops == [k \in DOMAIN <<>> |-> <<way, NibbleBits(<<>>[k]), 4>>]
<1>1. ops = <<>>
  OBVIOUS
<1> HIDE DEF ops
<1>2. Len(ops) = 0
  BY <1>1
<1> DEFINE g == [k \in 0 .. 0 |-> hw]
<1>3. g[0] = hw
  OBVIOUS
<1> HIDE DEF g
<1>4. Run(hw, ops) = g[Len(ops)]
  BY <1>2, <1>3, RanAre
<1> QED BY <1>2, <1>3, <1>4 DEF ops

(* After each turn the part of the ring that was read has been scanned.    *)
ScanOK(code, s, n, r, f, ring, at, so) ==
    /\ so.ends \in BOOLEAN
    /\ ReadTo(code, s, n, r, f, so.next, at, so.ends)
    /\ at \in 0 .. n
    /\ so.hw = Part(ring, s, 4 * at)
    /\ so.left = ring.length - 4 * at
Goes(code, s, n, r, f, ring, c, so) ==
    /\ \E at : ScanOK(code, s, n, r, f, ring, at, ScannedTurn(c, ring.flush, so))
    /\ ~ ScannedTurn(c, ring.flush, so).ends => ScannedTurn(c, ring.flush, so).next > so.next

LEMMA ScanStep ==
  ASSUME NEW ring, NEW s, Changes(ring, s), NEW n \in Nat, 4 * n <= ring.length,
         NEW r \in 0 .. 3, NEW f, CodesOf(f, 0, s, n, r), NEW code \in Seq(0 .. 15),
         NEW c, c.code = code, NEW so, NEW at, ScanOK(code, s, n, r, f, ring, at, so)
  PROVE  Goes(code, s, n, r, f, ring, c, so)
<1> DEFINE p == so.next
           t == Turn(code, p)
           j == Onward(s, at, n)
           d == ScanRun(s, j, n)
           new == ScannedTurn(c, ring.flush, so)
<1>1. CASE so.ends
  <2>1. new = so
    BY <1>1 DEF ScannedTurn
  <2>2. ScanOK(code, s, n, r, f, ring, at, new) /\ new.ends
    BY <2>1, <1>1
  <2> HIDE DEF new
  <2>3. \E x : ScanOK(code, s, n, r, f, ring, x, new)
    BY <2>2
  <2> QED BY <2>2, <2>3 DEF Goes, new
<1>2. CASE ~ so.ends
  <2> DEFINE left == so.left - 4 * (t.rotate + Len(t.scan))
             way == IF ring.flush /\ left >= 32 THEN "write" ELSE "xor"
             ops == [k \in DOMAIN t.scan |-> <<way, NibbleBits(t.scan[k]), 4>>]
             hw == Run(Rotated(so.hw, 4 * t.rotate), ops)
  <2>1. ReadTo(code, s, n, r, f, p, at, FALSE) /\ at \in 0 .. n /\ so.hw = Part(ring, s, 4 * at)
        /\ so.left = ring.length - 4 * at
    BY <1>2 DEF ScanOK
  <2>2. new = [next |-> t.next, left |-> left, hw |-> hw, ends |-> t.scan = <<>>]
    BY <1>2 DEF ScannedTurn
  <2>3. new.next = t.next /\ new.left = left /\ new.hw = hw /\ new.ends = (t.scan = <<>>)
    BY <2>2
  <2> HIDE DEF new
  <2>4. j \in at .. n
    BY <2>1, TurnGoesOn
  <2>5. ring.length \in Nat /\ ring.length >= 32 /\ s \subseteq Nat /\ \A b \in s : ~ (b < 32)
    <3>1. ring.length \in Nat /\ ring.length >= 32 /\ s \subseteq UpTo(ring.length) /\ s \cap (0 .. 31) = {}
      BY DEF Changes
    <3>2. s \subseteq Nat
      BY <3>1 DEF UpTo
    <3> QED BY <3>1, <3>2
  <2>6. \A b \in s : ~ (4 * at <= b /\ b < 4 * j)
    BY <2>1, <2>5, ZeroRunBits
  <2>7. Rotated(so.hw, 4 * (j - at)) = Part(ring, s, 4 * j)
    <3> HIDE DEF j
    <3> DEFINE x == 4 * at
               m == 4 * (j - at)
    <3>1. x \in Nat /\ m \in Nat /\ x + m = 4 * j /\ x + m <= ring.length
      BY <2>1, <2>4, <2>5
    <3>2. \A b \in s : ~ (x <= b /\ b < x + m)
      BY <3>1, <2>6
    <3>3. so.hw = Part(ring, s, x)
      BY <2>1
    <3> HIDE DEF x, m
    <3>4. Rotated(Part(ring, s, x), m) = Part(ring, s, x + m)
      BY <3>1, <3>2, RotatedIs
    <3> QED BY <3>1, <3>3, <3>4 DEF m
  <2>8. CASE j = n
    <3>1. TurnIs(code, p, n - at, <<>>) /\ ReadTo(code, s, n, r, f, t.next, n, TRUE)
      BY <2>1, <2>8, ReadsEnd, Zenon
    <3>2. t.rotate = n - at /\ t.scan = <<>>
      BY <3>1 DEF TurnIs
    <3>3. left = ring.length - 4 * n
      <4> HIDE DEF t
      <4>1. Len(t.scan) = 0
        BY <3>2
      <4> QED BY <3>2, <4>1, <2>1, <2>5
    <3>4. hw = Part(ring, s, 4 * n)
      <4> HIDE DEF t, way, j
      <4>1. hw = Run(Rotated(so.hw, 4 * (n - at)), [k \in DOMAIN <<>> |-> <<way, NibbleBits(<<>>[k]), 4>>])
        BY <3>2
      <4> HIDE DEF hw
      <4>2. hw = Rotated(so.hw, 4 * (n - at))
        BY <4>1, EmptyRun
      <4> QED BY <4>2, <2>7, <2>8
    <3> HIDE DEF t, left, hw, j
    <3>5. new.next = t.next /\ new.ends = TRUE /\ new.hw = Part(ring, s, 4 * n) /\ new.left = ring.length - 4 * n
      BY <2>3, <3>2, <3>3, <3>4
    <3>8. n \in 0 .. n
      OBVIOUS
    <3>6. ScanOK(code, s, n, r, f, ring, n, new)
      BY <3>1, <3>5, <3>8, Zenon DEF ScanOK
    <3>7. \E x : ScanOK(code, s, n, r, f, ring, x, new)
      BY <3>6
    <3> QED BY <3>5, <3>7 DEF Goes, new
  <2>9. CASE j # n
    <3>1. TurnIs(code, p, j - at, Scan(s, j, n)) /\ ReadTo(code, s, n, r, f, t.next, j + d, FALSE)
      BY <2>1, <2>9, ReadsOn, Zenon
    <3>2. j \in 0 .. n - 1
      BY <2>1, <2>4, <2>9
    <3>3. t.rotate = j - at /\ t.scan = Scan(s, j, n) /\ t.next > p
      BY <3>1 DEF TurnIs
    <3>4. Len(t.scan) = d /\ d \in 1 .. 15 /\ j + d <= n
      <4>1. Len(Scan(s, j, n)) = d
        BY <3>2, ScanTyped, Zenon
      <4>2. d \in 1 .. 15 /\ j + d <= n
        BY <3>2, ScanRunIs
      <4> QED BY <3>3, <4>1, <4>2
    <3>5. j \in 8 .. n - 1
      <4> DEFINE z == ZeroRun(s, at, n)
      <4>1. z \in 0 .. n - at /\ (at + z = n \/ Nibble(s, at + z) # 0)
        BY <2>1, ZeroRunIs, Zenon
      <4>2. j = at + z
        BY DEF Onward
      <4> HIDE DEF z, j
      <4>3. Nibble(s, j) # 0
        BY <4>1, <4>2, <2>9
      <4>4. PICK b \in 0 .. 3 : 4 * j + b \in s
        BY <3>2, <4>3, NibbleIsBits
      <4>5. ~ (4 * j + b < 32)
        BY <4>4, <2>5
      <4> QED BY <4>4, <4>5, <3>2
    <3>6. left = ring.length - 4 * (j + d)
      <4> HIDE DEF t, j, d
      <4> QED BY <3>2, <3>3, <3>4, <2>1, <2>5
    <3>7. way = "write" => ring.flush /\ 4 * (j + d) + 32 <= ring.length
      <4> HIDE DEF left, j, d
      <4> QED BY <3>2, <3>4, <3>6, <2>5
    <3>8. way \in {"xor", "write"}
      OBVIOUS
    <3>9. hw = Part(ring, s, 4 * (j + d))
      <4> HIDE DEF way, j
      <4>1. Run(Part(ring, s, 4 * j), [k \in DOMAIN Scan(s, j, n) |-> <<way, NibbleBits(Scan(s, j, n)[k]), 4>>])
            = Part(ring, s, 4 * (j + ScanRun(s, j, n)))
        BY <3>5, <3>7, <3>8, ScanRuns
      <4>2. ops = [k \in DOMAIN Scan(s, j, n) |-> <<way, NibbleBits(Scan(s, j, n)[k]), 4>>]
        BY <3>3
      <4>3. Rotated(so.hw, 4 * t.rotate) = Part(ring, s, 4 * j)
        BY <3>3, <2>7
      <4> HIDE DEF ops
      <4> QED BY <4>1, <4>2, <4>3
    <3>10. t.scan # <<>>
      <4> HIDE DEF t, d
      <4> QED BY <3>4
    <3> HIDE DEF t, left, hw, j, d
    <3> DEFINE to == j + d
    <3>11. new.next = t.next /\ new.ends = FALSE /\ new.hw = Part(ring, s, 4 * to) /\ new.left = ring.length - 4 * to
      BY <2>3, <3>6, <3>9, <3>10
    <3>12. to \in 0 .. n
      BY <3>2, <3>4
    <3>13. ReadTo(code, s, n, r, f, t.next, to, FALSE)
      BY <3>1
    <3> HIDE DEF to
    <3>14. ScanOK(code, s, n, r, f, ring, to, new)
      BY <3>11, <3>12, <3>13 DEF ScanOK
    <3>15. \E x : ScanOK(code, s, n, r, f, ring, x, new)
      BY <3>14
    <3>16. new.next > so.next
      BY <3>3, <3>11 DEF p
    <3> QED BY <3>15, <3>16 DEF Goes, new
  <2> QED BY <2>8, <2>9
<1> QED BY <1>1, <1>2 DEF ScanOK

Started(c, ring) == [next |-> 1, left |-> c.length, hw |-> Marked(ring), ends |-> FALSE]
TurnsOf(f, N, c, ring) == f = [k \in 0 .. N |-> IF k = 0 THEN Started(c, ring) ELSE ScannedTurn(c, ring.flush, f[k - 1])]
(* The loop over the turns has a solution.                                 *)
LEMMA TurnsExist ==
  ASSUME NEW N \in Nat, NEW c, NEW ring
  PROVE  \E f : TurnsOf(f, N, c, ring)
<1> DEFINE T == {n \in 0 .. N : ~ \E f : TurnsOf(f, n, c, ring)}
<1> SUFFICES ASSUME T # {} PROVE FALSE
  OBVIOUS
<1>1. PICK last \in T : \A x \in T : last <= x
  <2>1. T \subseteq Nat
    OBVIOUS
  <2> HIDE DEF T
  <2> QED BY <2>1, LeastOf
<1>2. last # 0
  <2> DEFINE g == [k \in 0 .. 0 |-> Started(c, ring)]
  <2>1. g = [k \in 0 .. 0 |-> IF k = 0 THEN Started(c, ring) ELSE ScannedTurn(c, ring.flush, g[k - 1])]
    OBVIOUS
  <2> HIDE DEF g
  <2>2. TurnsOf(g, 0, c, ring)
    BY <2>1 DEF TurnsOf
  <2> QED BY <1>1, <2>2
<1>3. last \in Nat \ {0} /\ last - 1 \in 0 .. N /\ ~ (last <= last - 1)
  BY <1>1, <1>2
<1>4. last - 1 \notin T
  <2> HIDE DEF T
  <2> QED BY <1>1, <1>3
<1>5. PICK g : TurnsOf(g, last - 1, c, ring)
  BY <1>3, <1>4
<1> DEFINE h == [k \in 0 .. last |-> IF k = 0 THEN Started(c, ring) ELSE ScannedTurn(c, ring.flush, g[k - 1])]
<1>6. \A k \in 0 .. last - 1 : h[k] = g[k]
  <2>1. \A k \in 0 .. last - 1 : g[k] = IF k = 0 THEN Started(c, ring) ELSE ScannedTurn(c, ring.flush, g[k - 1])
    BY <1>5 DEF TurnsOf
  <2>2. \A k \in 0 .. last - 1 : k \in 0 .. last
    BY <1>3
  <2> QED BY <2>1, <2>2
<1>7. \A k \in 0 .. last : k # 0 => k - 1 \in 0 .. last - 1
  BY <1>3
<1>8. h = [k \in 0 .. last |-> IF k = 0 THEN Started(c, ring) ELSE ScannedTurn(c, ring.flush, h[k - 1])]
  <2>1. \A k \in 0 .. last : (IF k = 0 THEN Started(c, ring) ELSE ScannedTurn(c, ring.flush, g[k - 1]))
                           = (IF k = 0 THEN Started(c, ring) ELSE ScannedTurn(c, ring.flush, h[k - 1]))
    <3> HIDE DEF h
    <3> QED BY <1>6, <1>7
  <2> QED BY <2>1
<1> HIDE DEF h
<1>9. TurnsOf(h, last, c, ring)
  BY <1>8 DEF TurnsOf
<1> QED BY <1>1, <1>9

(* All of the ring is scanned, and nothing is left of it.                  *)
LEMMA IntoIs ==
  ASSUME NEW ring, NEW s, Changes(ring, s), NEW c, c = Container(s, ring.length)
  PROVE  /\ DecompressedInto(c, ring).hw = Part(ring, s, ring.length)
         /\ DecompressedInto(c, ring).left = 0
<1> DEFINE length == ring.length
           code == Compressed(s, length)
           n == length \div 4
           r == length % 4
           N == Len(code)
<1>1. length \in Nat /\ length >= 32 /\ s \subseteq Nat /\ \A b \in s : b < length
  <2>1. length \in Nat /\ length >= 32 /\ s \subseteq 0 .. length - 1
    BY DEF Changes, UpTo
  <2> QED BY <2>1
<1>2. PICK f : CodesOf(f, 0, s, n, r) /\ code = f[0]
  <2> HIDE DEF length
  <2> QED BY <1>1, CompressedIs
<1>3. n \in Nat /\ r \in 0 .. 3 /\ 0 \in 0 .. n /\ length = 4 * n + r /\ 4 * n <= length
  <2> HIDE DEF length
  <2> QED BY <1>1
<1>4. c.code = code /\ c.length = length
  BY DEF Container
<1> HIDE DEF n, r
<1>5. code \in Seq(0 .. 15)
  BY <1>2, <1>3, CodesTyped
<1> HIDE DEF code
<1>6. N \in Nat
  BY <1>5
<1> DEFINE after == CHOOSE g : TurnsOf(g, N, c, ring)
           bulk == after[N]
           x == code[bulk.next + 1]
<1>7. TurnsOf(after, N, c, ring)
  BY <1>6, TurnsExist
<1>8. DecompressedInto(c, ring) =
        [left |-> bulk.left - code[bulk.next],
         hw |-> IF code[bulk.next] = 0 THEN bulk.hw
                ELSE Operate(bulk.hw, <<"xor", NibbleBits(x), code[bulk.next]>>)]
  BY <1>4 DEF DecompressedInto, TurnsOf, Started
<1> HIDE DEF after
<1>9. \A k \in 0 .. N : after[k] = IF k = 0 THEN Started(c, ring) ELSE ScannedTurn(c, ring.flush, after[k - 1])
  BY <1>7 DEF TurnsOf
<1> DEFINE OK(so) == \E at : ScanOK(code, s, n, r, f, ring, at, so)
           P(k) == OK(after[k]) /\ (~ after[k].ends => after[k].next > k)
           T == {k \in 0 .. N : ~ P(k)}
<1>10. P(0)
  <2> DEFINE so == Started(c, ring)
  <2>1. so.next = 1 /\ so.left = length /\ so.hw = Marked(ring) /\ so.ends = FALSE
    BY <1>4 DEF Started
  <2>2. after[0] = so
    BY <1>6, <1>9
  <2> HIDE DEF so
  <2>3. Rest(code, 1, f[0])
    BY <1>2, <1>5 DEF Rest, Holds
  <2>4. ReadTo(code, s, n, r, f, 1, 0, FALSE)
    BY <2>3, <1>3 DEF ReadTo
  <2>5. Marked(ring) = Part(ring, s, 4 * 0) /\ length = length - 4 * 0
    <3>1. 4 * 0 = 0 /\ length = length - 0
      BY <1>1
    <3>2. Marked(ring) = Part(ring, s, 0)
      BY PartBegins
    <3> HIDE DEF length
    <3> QED BY <3>1, <3>2
  <2>6. ScanOK(code, s, n, r, f, ring, 0, so)
    BY <2>1, <2>4, <2>5, <1>3 DEF ScanOK
  <2>7. OK(so)
    BY <2>6
  <2> HIDE DEF OK
  <2> QED BY <2>1, <2>2, <2>7
<1>11. T = {}
  <2> SUFFICES ASSUME T # {} PROVE FALSE
    OBVIOUS
  <2>1. PICK k \in T : \A y \in T : k <= y
    <3>1. T \subseteq Nat
      OBVIOUS
    <3> HIDE DEF T
    <3> QED BY <3>1, LeastOf
  <2>2. k # 0
    <3> HIDE DEF P
    <3> QED BY <1>10, <2>1
  <2>3. k \in 0 .. N /\ k - 1 \in 0 .. N /\ ~ (k <= k - 1)
    BY <2>1, <2>2, <1>6
  <2>4. P(k - 1)
    <3>1. k - 1 \notin T
      <4> HIDE DEF T
      <4> QED BY <2>1, <2>3
    <3> HIDE DEF P
    <3> QED BY <3>1, <2>3
  <2> DEFINE so == after[k - 1]
             new == after[k]
  <2>5. new = ScannedTurn(c, ring.flush, so)
    BY <2>2, <2>3, <1>9
  <2>6. PICK at : ScanOK(code, s, n, r, f, ring, at, so)
    BY <2>4
  <2>7. ~ so.ends => so.next > k - 1
    BY <2>4
  <2> HIDE DEF so, new
  <2>8. Goes(code, s, n, r, f, ring, c, so)
    BY <1>2, <1>3, <1>4, <1>5, <2>6, ScanStep
  <2>9. OK(new) /\ (~ new.ends => new.next > so.next)
    <3> HIDE DEF length
    <3> QED BY <2>5, <2>8 DEF Goes
  <2>10. ~ new.ends => new.next > k
    <3> SUFFICES ASSUME ~ new.ends PROVE new.next > k
      OBVIOUS
    <3>1. ~ so.ends
      BY <2>5 DEF ScannedTurn
    <3>2. PICK to : ScanOK(code, s, n, r, f, ring, to, new)
      BY <2>9
    <3>3. ReadTo(code, s, n, r, f, so.next, at, FALSE) /\ ReadTo(code, s, n, r, f, new.next, to, FALSE)
      BY <3>1, <3>2, <2>6 DEF ScanOK
    <3>4. so.next \in Nat /\ new.next \in Nat
      BY <3>3 DEF ReadTo, Rest
    <3> QED BY <3>1, <3>4, <2>3, <2>7, <2>9
  <2>11. P(k)
    BY <2>9, <2>10 DEF new
  <2> HIDE DEF P
  <2> QED BY <2>11, <2>1
<1>12. OK(bulk) /\ (~ bulk.ends => bulk.next > N)
  <2>1. N \in 0 .. N /\ N \notin T
    BY <1>6, <1>11
  <2> QED BY <2>1
<1> HIDE DEF bulk, T, P
<1>13. PICK at : ScanOK(code, s, n, r, f, ring, at, bulk)
  BY <1>12
<1>14. bulk.ends
  <2> SUFFICES ASSUME ~ bulk.ends PROVE FALSE
    OBVIOUS
  <2>1. ReadTo(code, s, n, r, f, bulk.next, at, FALSE)
    BY <1>13 DEF ScanOK
  <2>2. bulk.next \in Nat \ {0} /\ bulk.next < N
    BY <2>1, <1>2, <1>3, <1>5, RestIsLong
  <2> QED BY <2>2, <1>6, <1>12
<1>15. /\ at = n /\ code[bulk.next] = r
       /\ r # 0 => x = Nibble(s, n)
       /\ bulk.hw = Part(ring, s, 4 * n) /\ bulk.left = length - 4 * n
  BY <1>13, <1>14 DEF ScanOK, ReadTo, AtEnd
<1>16. DecompressedInto(c, ring).left = 0
  <2>1. DecompressedInto(c, ring).left = (length - 4 * n) - r
    BY <1>8, <1>15
  <2> HIDE DEF length
  <2> QED BY <2>1, <1>1, <1>3
<1>17. CASE r = 0
  <2>1. DecompressedInto(c, ring).hw = Part(ring, s, 4 * n)
    BY <1>8, <1>15, <1>17
  <2>2. 4 * n = length
    <3> HIDE DEF length
    <3> QED BY <1>3, <1>17
  <2> QED BY <2>1, <2>2, <1>16
<1>18. CASE r # 0
  <2> DEFINE v == NibbleBits(x)
             p == 4 * n
  <2>1. v = {b \in 0 .. r - 1 : p + b \in s}
    <3>1. NibbleBits(Nibble(s, n)) = {b \in 0 .. 3 : p + b \in s}
      BY <1>3, NibbleIsBits
    <3>2. \A b \in 0 .. 3 : p + b \in s => b \in 0 .. r - 1
      <4> HIDE DEF length
      <4> QED BY <1>1, <1>3
    <3>3. \A b \in 0 .. r - 1 : b \in 0 .. 3
      BY <1>3
    <3>4. v = {b \in 0 .. 3 : p + b \in s}
      BY <3>1, <1>15, <1>18
    <3> HIDE DEF v, p, x
    <3> QED BY <3>2, <3>3, <3>4
  <2>2. DecompressedInto(c, ring).hw = Operate(Part(ring, s, p), <<"xor", v, r>>)
    BY <1>8, <1>15, <1>18
  <2>3. p \in Nat /\ r \in 1 .. 32 /\ p + r = length /\ p + r <= ring.length
    <3>1. p \in Nat /\ r \in 1 .. 32 /\ p + r = length /\ p + r <= length
      <4> HIDE DEF length
      <4> QED BY <1>1, <1>3, <1>18
    <3> QED BY <3>1
  <2> HIDE DEF v, p
  <2>4. WaysAgree(ring, s, p, r, v)
    BY <2>1, <2>3, WaysChange
  <2>5. Operate(Part(ring, s, p), <<"xor", v, r>>) = Part(ring, s, p + r)
    BY <2>4 DEF WaysAgree
  <2> QED BY <2>2, <2>3, <2>5, <1>16
<1> QED BY <1>17, <1>18, <1>16

(* Where all of the ring is done it has the wanted bits, and the check     *)
(* word is in the register.                                                *)
LEMMA PartEnds ==
  ASSUME NEW ring, NEW s, Changes(ring, s), s = Delta(ring.init, ring.alter, ring.length)
  PROVE  LET hw == Part(ring, s, ring.length)
         IN  /\ hw.at = 0 /\ Register(hw) = CheckWord
             /\ hw.ones \ (0 .. 31) = (ring.alter \cap UpTo(ring.length)) \ (0 .. 31)
<1> DEFINE n == ring.length
           hw == Part(ring, s, n)
           base == Marked(ring).ones
           init == ring.init
           alter == ring.alter
<1>1. n \in Nat /\ n >= 32 /\ s \subseteq 0 .. n - 1 /\ s \cap (0 .. 31) = {}
  BY DEF Changes, UpTo
<1>2. n \in Nat \ {0} /\ n \in 0 .. n
  <2> HIDE DEF n
  <2> QED BY <1>1
<1>3. n % n = 0
  <2> HIDE DEF n
  <2> QED BY <1>2, PlaceIs
<1>4. base = ((init \cap UpTo(n)) \ (0 .. 31)) \cup CheckWord /\ CheckWord \subseteq 0 .. 31
  BY <1>1, MarkedIs
<1>5. {b \in s : b < n} = s
  <2> HIDE DEF n
  <2> QED BY <1>1
<1>6. hw.length = n /\ hw.at = 0 /\ hw.ones = Xor(base, s)
  BY <1>3, <1>5 DEF Part
<1>7. s = Xor(init, alter) \cap UpTo(n)
  BY DEF Delta
<1> HIDE DEF n, hw, base, init, alter
<1>8. \A k \in 0 .. 31 : (hw.at + k) % hw.length = k
  <2> SUFFICES ASSUME NEW k \in 0 .. 31
               PROVE  (0 + k) % n = k
    BY <1>6
  <2>1. 0 + k = k /\ k \in 0 .. n /\ k < n
    BY <1>1
  <2>2. k % n = k
    BY <2>1, <1>2, PlaceIs
  <2> QED BY <2>1, <2>2
<1>9. \A k \in 0 .. 31 : k \in hw.ones <=> k \in CheckWord
  BY <1>1, <1>4, <1>6 DEF Xor
<1>10. Register(hw) = CheckWord
  BY <1>4, <1>8, <1>9 DEF Register
<1>11. \A k : k \notin 0 .. 31 => (k \in hw.ones <=> k \in alter /\ k \in UpTo(n))
  BY <1>4, <1>6, <1>7 DEF Xor
<1>12. hw.ones \ (0 .. 31) = (alter \cap UpTo(n)) \ (0 .. 31)
  BY <1>11
<1> QED BY <1>6, <1>10, <1>12 DEF hw, alter, n

(* The size of the container is the size of its code.                      *)
LEMMA SizeIs ==
  ASSUME NEW s, NEW length \in Nat
  PROVE  (Len(Container(s, length).code) + 15) \div 16 = Doublewords(Container(s, length))
<1> DEFINE code == Compressed(s, length)
           n == length \div 4
           r == length % 4
           m == Len(code)
           k == (m + 1) \div 2
<1>1. PICK f : CodesOf(f, 0, s, n, r) /\ code = f[0]
  BY CompressedIs
<1>2. n \in Nat /\ r \in 0 .. 3 /\ 0 \in 0 .. n
  OBVIOUS
<1>3. code \in Seq(0 .. 15)
  <2> HIDE DEF n, r
  <2> QED BY <1>1, <1>2, CodesTyped
<1>4. Container(s, length).code = code /\ Container(s, length).bytes = ((k + 24 + 7) \div 8) * 8
  BY DEF Container, ContainerBytes
<1> HIDE DEF code
<1>5. m \in Nat
  BY <1>3
<1> HIDE DEF m
<1>6. k \in Nat /\ (m + 15) \div 16 = (k + 7) \div 8
  BY <1>5
<1> HIDE DEF k
<1>7. (((k + 24 + 7) \div 8) * 8 - 24) \div 8 = (k + 7) \div 8
  BY <1>6
<1> QED BY <1>4, <1>6, <1>7 DEF Doublewords, m

-----------------------------------------------------------------------------
(***************************************************************************)
(* The wiggle-flip program.                                                *)
(***************************************************************************)
Operations ==
    {<<"rotate", n>> : n \in Nat} \cup {<<way, v, n>> : way \in {"xor", "write", "keep"}, v \in SUBSET (0 .. 31), n \in Nat}

(* A run goes on with the next operation.                                  *)
LEMMA RunGoesOn ==
  ASSUME NEW hw, NEW ops \in Seq(Operations), NEW op \in Operations
  PROVE  ops \o <<op>> \in Seq(Operations) /\ Run(hw, ops \o <<op>>) = Operate(Run(hw, ops), op)
<1> DEFINE n == Len(ops)
           all == ops \o <<op>>
<1>1. n \in Nat /\ all \in Seq(Operations) /\ Len(all) = n + 1 /\ (\A k \in 1 .. n : all[k] = ops[k]) /\ all[n + 1] = op
  <2> DEFINE S == Operations
  <2>1. ops \in Seq(S) /\ op \in S
    OBVIOUS
  <2> HIDE DEF S
  <2> QED BY <2>1 DEF S
<1>2. PICK f : RanOf(f, n, hw, ops) /\ Run(hw, ops) = f[n]
  BY <1>1, RunIs
<1>3. f[0] = hw /\ \A k \in 1 .. n : f[k] = Operate(f[k - 1], ops[k])
  BY <1>1, <1>2 DEF RanOf
<1> DEFINE g == [k \in 0 .. n + 1 |-> IF k <= n THEN f[k] ELSE Operate(f[n], op)]
<1> HIDE DEF n, all
<1>4. \A k \in 1 .. Len(all) : Operate(g[k - 1], all[k]) = g[k]
  <2> SUFFICES ASSUME NEW k \in 1 .. n + 1
               PROVE  Operate(g[k - 1], all[k]) = g[k]
    BY <1>1
  <2>1. CASE k <= n
    <3>1. k \in 1 .. n /\ k - 1 \in 0 .. n + 1 /\ k - 1 <= n /\ k \in 0 .. n + 1
      BY <2>1, <1>1
    <3>2. g[k] = f[k] /\ g[k - 1] = f[k - 1]
      BY <3>1
    <3> HIDE DEF g
    <3> QED BY <3>1, <3>2, <1>1, <1>3
  <2>2. CASE ~ (k <= n)
    <3>1. k = n + 1 /\ k - 1 = n /\ k \in 0 .. n + 1 /\ n \in 0 .. n + 1 /\ ~ (n + 1 <= n) /\ n <= n
      BY <2>2, <1>1
    <3>2. g[k] = Operate(f[n], op) /\ g[n] = f[n]
      BY <3>1
    <3> HIDE DEF g
    <3> QED BY <3>1, <3>2, <1>1
  <2> QED BY <2>1, <2>2
<1>5. g[0] = hw /\ g[n + 1] = Operate(f[n], op)
  <2>1. 0 \in 0 .. n + 1 /\ 0 <= n /\ n + 1 \in 0 .. n + 1 /\ ~ (n + 1 <= n)
    BY <1>1
  <2> QED BY <2>1, <1>3
<1> HIDE DEF g
<1>6. Run(hw, all) = g[Len(all)]
  <2>1. Len(all) \in Nat
    BY <1>1
  <2> QED BY <2>1, <1>4, <1>5, RanAre
<1> QED BY <1>1, <1>2, <1>5, <1>6 DEF all

Reaches(ring, s, ops, p) == ops \in Seq(Operations) /\ Run(Marked(ring), ops) = Part(ring, s, p)

LEMMA ReachesOn ==
  ASSUME NEW ring, NEW s, NEW ops, NEW p, NEW q, Reaches(ring, s, ops, p), NEW op \in Operations,
         Operate(Part(ring, s, p), op) = Part(ring, s, q)
  PROVE  Reaches(ring, s, ops \o <<op>>, q)
<1>1. ops \in Seq(Operations) /\ Run(Marked(ring), ops) = Part(ring, s, p)
  BY DEF Reaches
<1>2. ops \o <<op>> \in Seq(Operations) /\ Run(Marked(ring), ops \o <<op>>) = Operate(Run(Marked(ring), ops), op)
  BY <1>1, RunGoesOn
<1> QED BY <1>1, <1>2 DEF Reaches

LEMMA RotationReaches ==
  ASSUME NEW ring, NEW s, Changes(ring, s), NEW ops, NEW p \in Nat, NEW n \in Nat, p + n <= ring.length,
         Reaches(ring, s, ops, p), \A b \in s : ~ (p <= b /\ b < p + n)
  PROVE  Reaches(ring, s, ops \o Rotation(n), p + n)
<1>1. CASE n = 0
  <2>1. ops \in Seq(Operations)
    BY DEF Reaches
  <2>2. ops \o <<>> = ops
    <3> DEFINE S == Operations
    <3>1. ops \in Seq(S)
      BY <2>1
    <3> HIDE DEF S
    <3> QED BY <3>1
  <2>3. Rotation(n) = <<>> /\ p + n = p
    BY <1>1 DEF Rotation
  <2> QED BY <2>2, <2>3
<1>2. CASE n # 0
  <2> DEFINE op == <<"rotate", n>>
  <2>1. op \in Operations
    BY DEF Operations
  <2>2. Operate(Part(ring, s, p), op) = Turned(Part(ring, s, p), n)
    BY DEF Operate
  <2>3. Turned(Part(ring, s, p), n) = Part(ring, s, p + n)
    BY PartTurns
  <2> HIDE DEF op
  <2>4. Reaches(ring, s, ops \o <<op>>, p + n)
    BY <2>1, <2>2, <2>3, ReachesOn
  <2>5. Rotation(n) = <<op>>
    BY <1>2 DEF Rotation, op
  <2> QED BY <2>4, <2>5
<1> QED BY <1>1, <1>2

(* The word that is changed.                                               *)
LEMMA FlipReaches ==
  ASSUME NEW ring, NEW s, Changes(ring, s), NEW ops, NEW i \in Nat, 32 * i < ring.length,
         Reaches(ring, s, ops, 32 * i), WordBits(s, i, ring.length) # {}
  PROVE  Reaches(ring, s, ops \o <<Flip(s, i, ring)>>, 32 * i + Least(ring.length - 32 * i, 32))
<1> DEFINE n == ring.length
           p == 32 * i
           shift == Least(n - p, 32)
           v == WordBits(s, i, n)
<1>1. n \in Nat /\ s \subseteq 0 .. n - 1 /\ s \cap (0 .. 31) = {}
  BY DEF Changes, UpTo
<1>2. shift \in 1 .. 32 /\ p + shift <= n /\ (shift = 32 \/ p + shift = n) /\ p \in Nat
  <2> HIDE DEF n
  <2> QED BY <1>1 DEF Least, n
<1>3. v = {k \in 0 .. shift - 1 : p + k \in s}
  <2>1. \A k \in 0 .. 31 : p + k < n /\ p + k \in s => k \in 0 .. shift - 1
    <3> HIDE DEF n, shift, p
    <3> QED BY <1>1, <1>2
  <2>2. \A k \in 0 .. shift - 1 : k \in 0 .. 31 /\ p + k < n
    <3> HIDE DEF n, shift, p
    <3> QED BY <1>1, <1>2
  <2> HIDE DEF n, shift, p
  <2> QED BY <2>1, <2>2 DEF WordBits, p
<1>4. p >= 32
  <2>1. PICK k \in 0 .. 31 : p + k \in s
    BY DEF WordBits
  <2>2. p + k \notin 0 .. 31
    BY <2>1, <1>1
  <2> QED BY <2>1, <2>2
<1>5. WaysAgree(ring, s, p, shift, v)
  <2> HIDE DEF shift, v
  <2>1. p + shift <= ring.length
    BY <1>2
  <2> HIDE DEF p
  <2> QED BY <2>1, <1>2, <1>3, WaysChange
<1> DEFINE op == Flip(s, i, ring)
<1>6. op = IF ~ ring.flush THEN <<"xor", v, shift>> ELSE IF shift < 32 THEN <<"keep", v, shift>> ELSE <<"write", v, shift>>
  BY DEF Flip
<1>7. v \in SUBSET (0 .. 31)
  BY DEF WordBits
<1> HIDE DEF op, v, shift
<1>8. op \in Operations
  BY <1>2, <1>6, <1>7 DEF Operations
<1>9. shift < 32 \/ p + 32 <= n
  BY <1>2
<1> HIDE DEF p, n
<1>10. Operate(Part(ring, s, p), op) = Part(ring, s, p + shift)
  BY <1>4, <1>5, <1>6, <1>9 DEF WaysAgree, n
<1>11. Reaches(ring, s, ops \o <<op>>, p + shift)
  BY <1>8, <1>10, ReachesOn DEF p
<1> QED BY <1>11 DEF op, p, shift, n

(* After each word the program has gone as far, but for what is to be      *)
(* rotated yet.                                                            *)
FlipOK(ring, s, i, so) ==
    /\ so = [ops |-> so.ops, rotate |-> so.rotate]
    /\ so.rotate \in 0 .. Least(32 * i, ring.length)
    /\ Reaches(ring, s, so.ops, Least(32 * i, ring.length) - so.rotate)
    /\ \A b \in s : ~ (Least(32 * i, ring.length) - so.rotate <= b /\ b < Least(32 * i, ring.length))

LEMMA FlipStep ==
  ASSUME NEW ring, NEW s, Changes(ring, s), NEW i \in Nat, 32 * i < ring.length, NEW so, FlipOK(ring, s, i, so)
  PROVE  FlipOK(ring, s, i + 1, AfterWord(so, i, s, ring))
<1> DEFINE n == ring.length
           p == 32 * i
           shift == Least(n - 32 * i, 32)
           turn == so.rotate + shift
           most == IF ring.poll THEN MaxLong ELSE ScanMaxRotate
           over == IF ring.poll THEN turn >= most ELSE turn > most
           new == AfterWord(so, i, s, ring)
<1>1. n \in Nat /\ s \subseteq 0 .. n - 1
  BY DEF Changes, UpTo
<1>2. shift \in 1 .. 32 /\ p + shift <= n /\ p \in Nat /\ p < n
      /\ Least(32 * i, n) = p /\ Least(32 * (i + 1), n) = p + shift
  <2> HIDE DEF n
  <2> QED BY <1>1 DEF Least, n
<1>3. /\ so = [ops |-> so.ops, rotate |-> so.rotate]
      /\ so.rotate \in 0 .. p
      /\ Reaches(ring, s, so.ops, p - so.rotate)
      /\ \A b \in s : ~ (p - so.rotate <= b /\ b < p)
  BY <1>2 DEF FlipOK
<1>4. most \in Nat
  BY RotateAssumption
<1>5. WordBits(s, i, n) = {} => \A b \in s : ~ (p <= b /\ b < p + shift)
  <2> SUFFICES ASSUME NEW b \in s, p <= b, b < p + shift
               PROVE  b - p \in WordBits(s, i, n)
    OBVIOUS
  <2> HIDE DEF shift, n
  <2>1. b - p \in 0 .. 31 /\ p + (b - p) = b /\ b < n
    BY <1>1, <1>2
  <2> QED BY <2>1 DEF WordBits
<1>6. ASSUME new = [ops |-> new.ops, rotate |-> new.rotate], new.rotate \in 0 .. p + shift,
             Reaches(ring, s, new.ops, p + shift - new.rotate),
             \A b \in s : ~ (p + shift - new.rotate <= b /\ b < p + shift)
      PROVE  FlipOK(ring, s, i + 1, new)
  <2> HIDE DEF new, p, shift
  <2> QED BY <1>2, <1>6 DEF FlipOK
<1> DEFINE q == p - so.rotate
<1>7. CASE WordBits(s, i, n) # {}
  <2> DEFINE done == so.ops \o Rotation(so.rotate)
  <2>1. new = [ops |-> done \o <<Flip(s, i, ring)>>, rotate |-> 0]
    BY <1>7 DEF AfterWord
  <2> HIDE DEF new, shift, p
  <2>2. q \in Nat /\ so.rotate \in Nat /\ q + so.rotate = p /\ q + so.rotate <= ring.length
    BY <1>1, <1>2, <1>3
  <2> HIDE DEF q, n
  <2>3. Reaches(ring, s, so.ops, q) /\ \A b \in s : ~ (q <= b /\ b < q + so.rotate)
    BY <1>3, <2>2 DEF q
  <2>4. Reaches(ring, s, done, q + so.rotate)
    BY <2>2, <2>3, RotationReaches
  <2>5. Reaches(ring, s, done, 32 * i)
    BY <2>2, <2>4 DEF p
  <2> HIDE DEF done
  <2>6. Reaches(ring, s, done \o <<Flip(s, i, ring)>>, 32 * i + Least(ring.length - 32 * i, 32))
    BY <2>5, <1>7, FlipReaches DEF n
  <2>7. Reaches(ring, s, new.ops, p + shift) /\ new.rotate = 0 /\ new = [ops |-> new.ops, rotate |-> new.rotate]
    BY <2>1, <2>6 DEF p, shift, n
  <2>8. p + shift - 0 = p + shift /\ 0 \in 0 .. p + shift
    BY <1>2
  <2>9. \A b \in s : ~ (p + shift <= b /\ b < p + shift)
    BY <1>1, <1>2
  <2> QED BY <2>7, <2>8, <2>9, <1>6 DEF new
<1>8. CASE WordBits(s, i, n) = {} /\ over
  <2>1. new = [ops |-> so.ops \o Rotation(most), rotate |-> turn - most]
    BY <1>8 DEF AfterWord
  <2>2. turn >= most
    <3> HIDE DEF turn, most
    <3>1. turn \in Int
      BY <1>2, <1>3 DEF turn
    <3> QED BY <3>1, <1>4, <1>8
  <2> HIDE DEF new, shift, most, over, p
  <2>3. q \in Nat /\ q + most = p + shift - (turn - most) /\ q + most <= ring.length /\ turn - most \in 0 .. p + shift
        /\ q + most <= p + shift
    BY <1>1, <1>2, <1>3, <1>4, <2>2
  <2>4. \A b \in s : ~ (q <= b /\ b < p + shift)
    <3>1. \A b \in s : ~ (q <= b /\ b < p) /\ ~ (p <= b /\ b < p + shift)
      BY <1>3, <1>5, <1>8
    <3> QED BY <3>1, <1>1, <1>2, <1>3
  <2>5. Reaches(ring, s, so.ops, q)
    BY <1>3
  <2>6. \A b \in s : ~ (q <= b /\ b < q + most) /\ ~ (q + most <= b /\ b < p + shift)
    BY <1>1, <1>2, <1>4, <2>3, <2>4
  <2> HIDE DEF q, turn
  <2>7. Reaches(ring, s, so.ops \o Rotation(most), q + most)
    BY <1>4, <2>3, <2>5, <2>6, RotationReaches
  <2>8. /\ new.ops = so.ops \o Rotation(most) /\ new.rotate = turn - most
        /\ new = [ops |-> new.ops, rotate |-> new.rotate]
    BY <2>1
  <2> QED BY <2>3, <2>6, <2>7, <2>8, <1>6 DEF new
<1>9. CASE WordBits(s, i, n) = {} /\ ~ over
  <2>1. new = [so EXCEPT !.rotate = turn]
    BY <1>9 DEF AfterWord
  <2> HIDE DEF new, shift, over, p
  <2>2. new = [ops |-> so.ops, rotate |-> turn]
    <3> HIDE DEF turn
    <3> QED BY <2>1, <1>3
  <2>3. new.ops = so.ops /\ new.rotate = turn /\ new = [ops |-> new.ops, rotate |-> new.rotate]
    BY <2>2
  <2>4. turn \in 0 .. p + shift /\ p + shift - turn = q
    BY <1>2, <1>3
  <2>5. \A b \in s : ~ (q <= b /\ b < p + shift)
    <3>1. \A b \in s : ~ (q <= b /\ b < p) /\ ~ (p <= b /\ b < p + shift)
      BY <1>3, <1>5, <1>9
    <3> QED BY <3>1, <1>1, <1>2, <1>3
  <2>6. Reaches(ring, s, so.ops, q)
    BY <1>3
  <2> HIDE DEF q, turn
  <2> QED BY <2>3, <2>4, <2>5, <2>6, <1>6 DEF new
<1> QED BY <1>7, <1>8, <1>9

NoWord == [ops |-> <<>>, rotate |-> 0]
WordsOf(f, N, s, ring) == f = [k \in 0 .. N |-> IF k = 0 THEN NoWord ELSE AfterWord(f[k - 1], k - 1, s, ring)]
(* The loop over the words has a solution.                                 *)
LEMMA WordsExist ==
  ASSUME NEW N \in Nat, NEW s, NEW ring
  PROVE  \E f : WordsOf(f, N, s, ring)
<1> DEFINE T == {n \in 0 .. N : ~ \E f : WordsOf(f, n, s, ring)}
<1> SUFFICES ASSUME T # {} PROVE FALSE
  OBVIOUS
<1>1. PICK last \in T : \A x \in T : last <= x
  <2>1. T \subseteq Nat
    OBVIOUS
  <2> HIDE DEF T
  <2> QED BY <2>1, LeastOf
<1>2. last # 0
  <2> DEFINE g == [k \in 0 .. 0 |-> NoWord]
  <2>1. g = [k \in 0 .. 0 |-> IF k = 0 THEN NoWord ELSE AfterWord(g[k - 1], k - 1, s, ring)]
    OBVIOUS
  <2> HIDE DEF g
  <2>2. WordsOf(g, 0, s, ring)
    BY <2>1 DEF WordsOf
  <2> QED BY <1>1, <2>2
<1>3. last \in Nat \ {0} /\ last - 1 \in 0 .. N /\ ~ (last <= last - 1)
  BY <1>1, <1>2
<1>4. last - 1 \notin T
  <2> HIDE DEF T
  <2> QED BY <1>1, <1>3
<1>5. PICK g : WordsOf(g, last - 1, s, ring)
  BY <1>3, <1>4
<1> DEFINE h == [k \in 0 .. last |-> IF k = 0 THEN NoWord ELSE AfterWord(g[k - 1], k - 1, s, ring)]
<1>6. \A k \in 0 .. last - 1 : h[k] = g[k]
  <2>1. \A k \in 0 .. last - 1 : g[k] = IF k = 0 THEN NoWord ELSE AfterWord(g[k - 1], k - 1, s, ring)
    BY <1>5 DEF WordsOf
  <2>2. \A k \in 0 .. last - 1 : k \in 0 .. last
    BY <1>3
  <2> QED BY <2>1, <2>2
<1>7. \A k \in 0 .. last : k # 0 => k - 1 \in 0 .. last - 1
  BY <1>3
<1>8. h = [k \in 0 .. last |-> IF k = 0 THEN NoWord ELSE AfterWord(h[k - 1], k - 1, s, ring)]
  <2>1. \A k \in 0 .. last : (IF k = 0 THEN NoWord ELSE AfterWord(g[k - 1], k - 1, s, ring))
                           = (IF k = 0 THEN NoWord ELSE AfterWord(h[k - 1], k - 1, s, ring))
    <3> HIDE DEF h
    <3> QED BY <1>6, <1>7
  <2> QED BY <2>1
<1> HIDE DEF h
<1>9. WordsOf(h, last, s, ring)
  BY <1>8 DEF WordsOf
<1> QED BY <1>1, <1>9

LEMMA WiggleFlipIs ==
  ASSUME NEW ring, NEW s, Changes(ring, s)
  PROVE  Run(Marked(ring), WiggleFlip(s, ring)) = Part(ring, s, ring.length)
<1> DEFINE n == ring.length
           N == WordCount(n)
           words == CHOOSE f : WordsOf(f, N, s, ring)
           all == words[N]
<1>1. n \in Nat /\ s \subseteq 0 .. n - 1
  BY DEF Changes, UpTo
<1>2. N \in Nat /\ n <= 32 * N /\ \A k \in 0 .. N - 1 : 32 * k < n
  <2> HIDE DEF n
  <2> QED BY <1>1 DEF WordCount
<1>3. WordsOf(words, N, s, ring)
  BY <1>2, WordsExist
<1>4. WiggleFlip(s, ring) = all.ops \o Rotation(all.rotate)
  BY DEF WiggleFlip, WordsOf, NoWord
<1> HIDE DEF words, N
<1>5. \A k \in 0 .. N : words[k] = IF k = 0 THEN NoWord ELSE AfterWord(words[k - 1], k - 1, s, ring)
  BY <1>3 DEF WordsOf
<1> DEFINE P(k) == FlipOK(ring, s, k, words[k])
           T == {k \in 0 .. N : ~ P(k)}
<1>6. P(0)
  <2> DEFINE so == NoWord
  <2>1. so = [ops |-> so.ops, rotate |-> so.rotate] /\ so.rotate = 0 /\ so.ops = <<>>
    BY DEF NoWord
  <2>2. words[0] = so
    BY <1>2, <1>5
  <2>3. Least(32 * 0, n) = 0 /\ 0 - 0 = 0 /\ 0 \in 0 .. 0
    <3> HIDE DEF n
    <3> QED BY <1>1 DEF Least
  <2> HIDE DEF so
  <2>4. Run(Marked(ring), <<>>) = Marked(ring)
    <3> DEFINE g == [k \in 0 .. 0 |-> Marked(ring)]
               none == <<>>
    <3>1. g[0] = Marked(ring) /\ Len(none) = 0
      OBVIOUS
    <3> HIDE DEF g, none
    <3>2. Run(Marked(ring), none) = g[Len(none)]
      BY <3>1, RanAre
    <3> QED BY <3>1, <3>2 DEF none
  <2>5. Reaches(ring, s, <<>>, 0)
    <3>1. Marked(ring) = Part(ring, s, 0)
      BY PartBegins
    <3>2. <<>> \in Seq(Operations)
      OBVIOUS
    <3> QED BY <3>1, <3>2, <2>4 DEF Reaches
  <2>6. \A b \in s : ~ (0 <= b /\ b < 0)
    BY <1>1
  <2>7. FlipOK(ring, s, 0, so)
    BY <2>1, <2>3, <2>5, <2>6 DEF FlipOK
  <2> QED BY <2>2, <2>7
<1>7. T = {}
  <2> SUFFICES ASSUME T # {} PROVE FALSE
    OBVIOUS
  <2>1. PICK k \in T : \A y \in T : k <= y
    <3>1. T \subseteq Nat
      OBVIOUS
    <3> HIDE DEF T
    <3> QED BY <3>1, LeastOf
  <2>2. k # 0
    <3> HIDE DEF P
    <3> QED BY <1>6, <2>1
  <2> DEFINE i == k - 1
  <2>3. k \in 0 .. N /\ i \in 0 .. N - 1 /\ i \in 0 .. N /\ ~ (k <= i) /\ i + 1 = k /\ i \in Nat
    BY <2>1, <2>2, <1>2
  <2>4. P(i)
    <3>1. i \notin T
      <4> HIDE DEF T, i
      <4> QED BY <2>1, <2>3
    <3> HIDE DEF P, i
    <3> QED BY <3>1, <2>3
  <2>5. words[k] = AfterWord(words[i], i, s, ring)
    BY <2>2, <2>3, <1>5
  <2>6. 32 * i < ring.length
    <3> HIDE DEF i
    <3> QED BY <2>3, <1>2
  <2> DEFINE so == words[i]
  <2> HIDE DEF so, i
  <2>7. FlipOK(ring, s, i, so)
    BY <2>4 DEF so
  <2>8. FlipOK(ring, s, i + 1, AfterWord(so, i, s, ring))
    BY <2>3, <2>6, <2>7, FlipStep
  <2>9. P(k)
    BY <2>3, <2>5, <2>8 DEF so
  <2> HIDE DEF P
  <2> QED BY <2>9, <2>1
<1>8. FlipOK(ring, s, N, all)
  <2>1. N \in 0 .. N /\ N \notin T
    BY <1>2, <1>7
  <2> QED BY <2>1
<1> HIDE DEF all, T, P
<1>9. Least(32 * N, n) = n
  <2> HIDE DEF n
  <2> QED BY <1>1, <1>2 DEF Least
<1>10. all.rotate \in 0 .. n /\ Reaches(ring, s, all.ops, n - all.rotate)
       /\ \A b \in s : ~ (n - all.rotate <= b /\ b < n)
  BY <1>8, <1>9 DEF FlipOK
<1> DEFINE q == n - all.rotate
           m == all.rotate
<1>11. q \in Nat /\ m \in Nat /\ q + m = n /\ q + m <= ring.length
  <2>1. q \in Nat /\ m \in Nat /\ q + m = n /\ q + m <= n
    <3> HIDE DEF n
    <3> QED BY <1>1, <1>10
  <2> QED BY <2>1
<1> HIDE DEF n, q
<1>12. Reaches(ring, s, all.ops, q) /\ \A b \in s : ~ (q <= b /\ b < q + m)
  BY <1>10, <1>11 DEF q
<1>13. Reaches(ring, s, all.ops \o Rotation(m), q + m)
  BY <1>11, <1>12, RotationReaches
<1> QED BY <1>4, <1>11, <1>13 DEF Reaches, n

-----------------------------------------------------------------------------
(***************************************************************************)
(* The datacare overlay: up to 4 bits more than whole words.               *)
(***************************************************************************)
Overlap(o) ==
    /\ o.length \in Nat /\ o.length >= 32 /\ Exact(o.length)
    /\ o.vpd \subseteq UpTo(o.length) /\ o.data \cup o.care \subseteq 32 .. o.length - 1

(* The care that follows the data is where it is looked for.               *)
LEMMA CareFollows ==
  ASSUME NEW o, Overlap(o)
  PROVE  \A b \in Nat : o.length + b \in Datacare(o) <=> b \in o.care
<1> DEFINE n == o.length
<1>1. n \in Nat /\ o.data \subseteq 0 .. n - 1 /\ o.care \subseteq 0 .. n - 1
  BY DEF Overlap
<1> SUFFICES ASSUME NEW b \in Nat
             PROVE  n + b \in Datacare(o) <=> b \in o.care
  OBVIOUS
<1>2. Datacare(o) = (o.data \cap UpTo(n)) \cup {n + k : k \in o.care \cap UpTo(n)}
  BY DEF Datacare
<1> HIDE DEF n
<1>3. n + b \notin UpTo(n)
  BY <1>1 DEF UpTo
<1>4. \A k \in o.care : k \in UpTo(n) /\ (n + b = n + k => b = k)
  BY <1>1 DEF UpTo
<1> QED BY <1>2, <1>3, <1>4

LEMMA CareIs ==
  ASSUME NEW o, Overlap(o), NEW kept
  PROVE  Care(o, kept) = o.care
<1> DEFINE n == o.length
           dc == Datacare(o)
           w == WholeWords(n)
           last == (n + 7) \div 8 - 1
           q == n \div 32
           m == n % 32
           Word(i) == CareWord(dc, n, i, kept)
           Byte(i) == CareByte(dc, n, i)
<1> DEFINE words == UNION {{32 * i + k : k \in Word(i)} : i \in 0 .. w - 1}
           bytes == UNION {{8 * i + k : k \in Byte(i)} : i \in 4 * w .. last}
<1>7. Care(o, kept) = words \cup bytes
  BY DEF Care
<1>1. n \in Nat /\ n >= 32 /\ m \in 1 .. 4 /\ o.care \subseteq 0 .. n - 1
  BY DEF Overlap, Exact
<1>2. q \in Nat /\ n = 32 * q + m /\ n % 8 = m /\ last = 4 * q
  <2> HIDE DEF n
  <2>1. q \in Nat /\ n = 32 * q + m
    BY <1>1
  <2> HIDE DEF q, m
  <2> QED BY <2>1, <1>1
<1>3. w \in 0 .. q
  <2> HIDE DEF q, m, n
  <2> QED BY <1>1, <1>2 DEF WholeWords
<1>4. \A b \in Nat : n + b \in dc <=> b \in o.care
  BY CareFollows
<1> HIDE DEF n, dc
<1>5. \A i \in 0 .. w - 1 : \A k : k \in Word(i) <=> k \in 0 .. 31 /\ 32 * i + k \in o.care
  <2> SUFFICES ASSUME NEW i \in 0 .. w - 1, NEW k \in 0 .. 31
               PROVE  k \in Word(i) <=> 32 * i + k \in o.care
    BY DEF CareWord
  <2>1. k \in Word(i) <=> 32 * (q + i) + m + k \in dc
    BY <1>1 DEF CareWord
  <2> HIDE DEF q, m, w
  <2>2. 32 * (q + i) + m + k = n + (32 * i + k) /\ 32 * i + k \in Nat
    BY <1>2, <1>3, <1>1
  <2> QED BY <2>1, <2>2, <1>4
<1>6. \A i \in 4 * w .. last : \A k \in 0 .. 7 : k \in Byte(i) <=> 8 * i + k \in o.care
  <2> SUFFICES ASSUME NEW i \in 4 * w .. last, NEW k \in 0 .. 7
               PROVE  k \in Byte(i) <=> 8 * i + k \in o.care
    OBVIOUS
  <2> DEFINE here == IF n - 8 * i > 8 THEN 0 .. 7 ELSE 0 .. 7 - (n % 8)
  <2>1. k \in Byte(i) <=> k \in here /\ 32 * q + 8 * i + (n % 8) + k \in dc
    BY DEF CareByte
  <2> HIDE DEF q, m, w
  <2>2. i \in 4 * w .. 4 * q
    BY <1>2
  <2> HIDE DEF last
  <2>3. i \in Nat
    BY <2>2, <1>3
  <2>4. 32 * q + 8 * i + (n % 8) + k = n + (8 * i + k) /\ 8 * i + k \in Nat
    BY <1>1, <1>2, <2>3
  <2>5. 8 * i + k \in o.care => k \in here
    <3> SUFFICES ASSUME 8 * i + k < n
                 PROVE  k \in here
      BY <1>1, <2>4
    <3>1. CASE i = 4 * q
      BY <3>1, <1>1, <1>2
    <3>2. CASE i # 4 * q
      <4>1. i + 1 <= 4 * q
        BY <3>2, <2>2, <2>3, <1>2
      <4>2. n - 8 * i > 8
        BY <4>1, <1>1, <1>2, <2>3
      <4> QED BY <4>2
    <3> QED BY <3>1, <3>2
  <2> HIDE DEF here
  <2> QED BY <2>1, <2>4, <2>5, <1>4
<1>8. \A i : Byte(i) \subseteq 0 .. 7
  <2> SUFFICES ASSUME NEW i, NEW k \in Byte(i)
               PROVE  k \in 0 .. 7
    OBVIOUS
  <2>1. k \in IF n - 8 * i > 8 THEN 0 .. 7 ELSE 0 .. 7 - (n % 8)
    BY DEF CareByte
  <2> HIDE DEF q, m, w, last
  <2> QED BY <2>1, <1>1, <1>2
<1> HIDE DEF w, Word, Byte
<1>12. \A b : b \in words <=> \E i \in 0 .. w - 1 : \E k \in Word(i) : b = 32 * i + k
  OBVIOUS
<1>13. \A b : b \in bytes <=> \E i \in 4 * w .. last : \E k \in Byte(i) : b = 8 * i + k
  OBVIOUS
<1> HIDE DEF words, bytes
<1>9. \A b : b \in Care(o, kept) <=> \/ \E i \in 0 .. w - 1 : \E k \in Word(i) : b = 32 * i + k
                                     \/ \E i \in 4 * w .. last : \E k \in Byte(i) : b = 8 * i + k
  BY <1>7, <1>12, <1>13
<1>10. \A b \in Care(o, kept) : b \in o.care
  BY <1>5, <1>6, <1>8, <1>9
<1>11. \A b \in o.care : b \in Care(o, kept)
  <2> SUFFICES ASSUME NEW b \in o.care
               PROVE  b \in Care(o, kept)
    OBVIOUS
  <2>1. b \in 0 .. n - 1
    BY <1>1
  <2>2. CASE b < 32 * w
    <3> DEFINE i == b \div 32
               k == b % 32
    <3>1. i \in Nat /\ k \in 0 .. 31 /\ b = 32 * i + k
      BY <2>1
    <3> HIDE DEF i, k
    <3>2. i \in 0 .. w - 1
      BY <3>1, <2>2, <1>3
    <3>3. k \in Word(i)
      BY <3>1, <3>2, <1>5
    <3> QED BY <3>1, <3>2, <3>3, <1>9
  <2>3. CASE ~ (b < 32 * w)
    <3> DEFINE i == b \div 8
               k == b % 8
    <3>1. i \in Nat /\ k \in 0 .. 7 /\ b = 8 * i + k
      BY <2>1
    <3> HIDE DEF i, k, q, m
    <3>2. i \in 4 * w .. 4 * q
      BY <3>1, <2>1, <2>3, <1>1, <1>2, <1>3
    <3>3. i \in 4 * w .. last
      BY <3>2, <1>2
    <3>4. k \in Byte(i)
      BY <3>1, <3>3, <1>6
    <3> QED BY <3>1, <3>3, <3>4, <1>9
  <2> QED BY <2>2, <2>3
<1> QED BY <1>10, <1>11

LEMMA TakenIs ==
  ASSUME NEW o, Overlap(o)
  PROVE  TakenData(o) = o.data
<1> DEFINE n == o.length
           dc == Datacare(o)
           q == n \div 32
           m == n % 32
           top == 8 * ((n + 7) \div 8)
<1>1. n \in Nat /\ n >= 32 /\ m \in 1 .. 4 /\ o.care \subseteq 32 .. n - 1 /\ o.data \subseteq 0 .. n - 1
  BY DEF Overlap, Exact
<1>2. top >= n /\ top < n + 8 /\ top \in Nat
  <2> HIDE DEF n
  <2> QED BY <1>1
<1>3. dc = (o.data \cap UpTo(n)) \cup {n + k : k \in o.care \cap UpTo(n)}
  BY DEF Datacare
<1>4. TakenData(o) = {b \in dc : b < top}
  BY DEF TakenData
<1> HIDE DEF n, dc, top, m, q
<1>5. \A b \in o.data : b \in UpTo(n) /\ b < top
  BY <1>1, <1>2 DEF UpTo
<1>6. \A k \in o.care : ~ (n + k < top)
  BY <1>1, <1>2
<1>7. o.data \subseteq dc
  BY <1>3, <1>5
<1>8. \A b \in dc : b < top => b \in o.data
  BY <1>3, <1>6
<1> QED BY <1>4, <1>5, <1>7, <1>8

(* The overlay replaces what is cared for.                                 *)
LEMMA OverlaidIs ==
  ASSUME NEW o, Overlap(o), NEW kept
  PROVE  IF o.data \subseteq o.care
         THEN /\ Overlaid(o, kept).rc = "OK"
              /\ Decompressed(Container(Overlaid(o, kept).ones, o.length)).ones \cap UpTo(o.length) = (o.vpd \ o.care) \cup o.data
         ELSE Overlaid(o, kept).rc = "DATACARE_RING_MESS"
<1>1. Overlaid(o, kept) = IF o.data \subseteq o.care THEN [rc |-> "OK", ones |-> (o.vpd \ o.care) \cup o.data]
                          ELSE [rc |-> "DATACARE_RING_MESS", ones |-> {}]
  BY CareIs, TakenIs DEF Overlaid
<1>2. CASE ~ (o.data \subseteq o.care)
  BY <1>1, <1>2
<1>3. CASE o.data \subseteq o.care
  <2> DEFINE u == (o.vpd \ o.care) \cup o.data
             n == o.length
  <2>1. u \subseteq UpTo(n) /\ n \in Nat
    <3>1. n \in Nat /\ o.vpd \subseteq UpTo(n) /\ o.data \subseteq 32 .. n - 1
      BY DEF Overlap
    <3> HIDE DEF n
    <3> QED BY <3>1 DEF UpTo
  <2>2. Overlaid(o, kept).rc = "OK" /\ Overlaid(o, kept).ones = u
    BY <1>1, <1>3
  <2> HIDE DEF u, n
  <2>3. Decompressed(Container(u, n)) = [rc |-> "OK", ones |-> u]
    BY <2>1, CompressionReverses
  <2>4. Decompressed(Container(u, n)).ones \cap UpTo(n) = u
    BY <2>1, <2>3
  <2> QED BY <2>2, <2>4, <1>3 DEF u, n
<1> QED BY <1>2, <1>3

-----------------------------------------------------------------------------
(***************************************************************************)
(* The invariant: at each step what there is of a ring is a function of    *)
(* the ring.                                                               *)
(***************************************************************************)
Wanted(ring) == Delta(ring.init, ring.alter, ring.length)
GoodRing(ring) ==
    /\ ring \in [length : Nat, init : SUBSET Nat, alter : SUBSET Nat, flush : BOOLEAN, poll : BOOLEAN, file : BOOLEAN]
    /\ ring.length >= 32 /\ Wanted(ring) \cap (0 .. 31) = {}
    /\ ring.flush => ring.init \cap UpTo(ring.length) = {}
OverlayDone(o, rc, container) ==
    \E kept \in BOOLEAN : rc = Overlaid(o, kept).rc /\ container = Container(Overlaid(o, kept).ones, o.length)
AsItShould ==
    /\ job.step \in {"delta", "raw", "saved"} => job.delta = Wanted(job.ring)
    /\ job.step = "compressed" => job.container = Container(Wanted(job.ring), job.ring.length)
    /\ job.step = "program" => job.ops = WiggleFlip(Wanted(job.ring), job.ring)
    /\ job.step = "scanned" => job.error = "none" /\ job.hw = Part(job.ring, Wanted(job.ring), job.ring.length)
RingSteps == {"taken", "refused", "delta", "compressed", "raw", "saved", "program", "scanned"}
RingsInductive ==
    /\ job.step \in RingSteps \cup {"idle", "overlay", "overlaid"}
    /\ job.step \in RingSteps => GoodRing(job.ring) /\ (AsRead(job.ring) => AsItShould)
    /\ job.step \in {"overlay", "overlaid"} => job.overlay \in Overlays
    /\ job.step = "overlaid" => OverlayDone(job.overlay, job.rc, job.container)

LEMMA GoodRingChanges ==
  ASSUME NEW ring, GoodRing(ring)
  PROVE  /\ ring.length \in Nat /\ ring.length >= 32
         /\ Wanted(ring) \subseteq UpTo(ring.length)
         /\ Changes(ring, Wanted(ring))
<1>1. ring.length \in Nat /\ ring.length >= 32 /\ Wanted(ring) \cap (0 .. 31) = {}
      /\ (ring.flush => ring.init \cap UpTo(ring.length) = {})
  BY DEF GoodRing
<1>2. Wanted(ring) \subseteq UpTo(ring.length)
  BY DEF Wanted, Delta
<1> QED BY <1>1, <1>2 DEF Changes

LEMMA OverlaysOverlap ==
  ASSUME NEW o \in Overlays, Exact(o.length)
  PROVE  Overlap(o)
<1>1. o \in [length : Nat, vpd : SUBSET Nat, data : SUBSET Nat, care : SUBSET Nat]
      /\ o.length >= 32 /\ o.vpd \subseteq UpTo(o.length) /\ o.data \cup o.care \subseteq 32 .. o.length - 1
  BY OverlayAssumption
<1>2. o.length \in Nat
  BY <1>1
<1> QED BY <1>1, <1>2 DEF Overlap

(* What is saved and scanned is right where the steps before it are.       *)
LEMMA ScannedRight ==
  ASSUME NEW ring, GoodRing(ring)
  PROVE  LET hw == Part(ring, Wanted(ring), ring.length)
             c == Container(Wanted(ring), ring.length)
         IN  /\ Register(hw) = CheckWord
             /\ DecompressedInto(c, ring).hw = hw
             /\ ScanError(hw, DecompressedInto(c, ring).left, c) = "none"
             /\ Run(Marked(ring), WiggleFlip(Wanted(ring), ring)) = hw
             /\ Decompressed(c) = [rc |-> "OK", ones |-> Wanted(ring)]
             /\ Saved(Wanted(ring), ring.length) = Wanted(ring)
<1> DEFINE s == Wanted(ring)
           n == ring.length
           c == Container(s, n)
           hw == Part(ring, s, n)
<1>1. n \in Nat /\ n >= 32 /\ s \subseteq UpTo(n) /\ Changes(ring, s)
  BY GoodRingChanges
<1>2. n \in Nat \ {0}
  <2> HIDE DEF n
  <2> QED BY <1>1
<1>3. s = Delta(ring.init, ring.alter, ring.length)
  BY DEF Wanted
<1>4. Register(hw) = CheckWord
  <2> HIDE DEF s
  <2> QED BY <1>1, <1>3, PartEnds
<1>5. Decompressed(c) = [rc |-> "OK", ones |-> s] /\ Saved(s, n) = s
  <2> HIDE DEF s, n
  <2> QED BY <1>1, <1>2, CompressionReverses, SavedIs
<1>6. Run(Marked(ring), WiggleFlip(s, ring)) = hw
  <2> HIDE DEF s
  <2> QED BY <1>1, WiggleFlipIs
<1> HIDE DEF s, hw, c
<1>7. DecompressedInto(c, ring).hw = hw /\ DecompressedInto(c, ring).left = 0
  <2>1. c = Container(s, ring.length)
    BY DEF c
  <2> QED BY <2>1, <1>1, IntoIs DEF hw
<1>8. (Len(c.code) + 15) \div 16 = Doublewords(c)
  <2> HIDE DEF n
  <2> QED BY <1>1, SizeIs DEF c
<1>9. ScanError(hw, DecompressedInto(c, ring).left, c) = "none"
  BY <1>4, <1>7, <1>8 DEF ScanError
<1> QED BY <1>4, <1>5, <1>6, <1>7, <1>9 DEF s, n, c, hw

LEMMA RingsStart == RingInit => RingsInductive
BY DEF RingInit, RingsInductive, Idle, RingSteps

LEMMA RingsGoOn ==
  ASSUME RingsInductive, RingNext
  PROVE  RingsInductive'
<1> DEFINE ring == job.ring
<1>1. CASE TakeRing
  <2>1. PICK r \in Rings : job' = [step |-> "taken", ring |-> r]
    BY <1>1 DEF TakeRing
  <2>2. GoodRing(r)
    BY RingAssumption DEF GoodRing, Wanted
  <2>3. job'.step = "taken" /\ job'.ring = r
    BY <2>1
  <2> QED BY <2>2, <2>3 DEF RingsInductive, AsItShould, RingSteps
<1>2. CASE CalcDelta
  <2>1. job' = [step |-> "delta", ring |-> ring, delta |-> Wanted(ring)] /\ GoodRing(ring)
    BY <1>2 DEF CalcDelta, RingsInductive, RingSteps, Wanted
  <2> HIDE DEF ring
  <2>2. job'.step = "delta" /\ job'.ring = ring /\ job'.delta = Wanted(ring)
    BY <2>1
  <2> QED BY <2>1, <2>2 DEF RingsInductive, AsItShould, RingSteps
<1>3. CASE CalcFileDelta
  <2> DEFINE new == [ring EXCEPT !.file = TRUE]
             delta == FileDelta(ring.init, ring.alter, ring.length)
  <2>1. PICK same \in BOOLEAN :
           job' = IF ~ same THEN [step |-> "refused", ring |-> ring] ELSE [step |-> "delta", ring |-> new, delta |-> delta]
    BY <1>3 DEF CalcFileDelta
  <2>2. GoodRing(ring)
    BY <1>3 DEF CalcFileDelta, RingsInductive, RingSteps
  <2> HIDE DEF ring
  <2>3. /\ new \in [length : Nat, init : SUBSET Nat, alter : SUBSET Nat, flush : BOOLEAN, poll : BOOLEAN, file : BOOLEAN]
        /\ new.length = ring.length /\ new.init = ring.init /\ new.alter = ring.alter /\ new.flush = ring.flush /\ new.file = TRUE
    BY <2>2 DEF GoodRing
  <2>4. ring.length \in Nat
    BY <2>2 DEF GoodRing
  <2> HIDE DEF new, delta
  <2>5. GoodRing(new) /\ Wanted(new) = Wanted(ring)
    BY <2>2, <2>3 DEF GoodRing, Wanted
  <2>6. AsRead(new) => delta = Wanted(ring)
    <3> SUFFICES ASSUME AsRead(new) PROVE delta = Wanted(ring)
      OBVIOUS
    <3>1. LongBits = 32 /\ ring.length % 32 = 0 => ring.length - 32 \notin ring.init \cup ring.alter
      BY <2>3 DEF AsRead
    <3> QED BY <3>1, <2>4, FileDeltaIs DEF delta, Wanted
  <2>7. CASE same
    <3>1. job'.step = "delta" /\ job'.ring = new /\ job'.delta = delta
      BY <2>1, <2>7
    <3> QED BY <3>1, <2>5, <2>6 DEF RingsInductive, AsItShould, RingSteps
  <2>8. CASE ~ same
    <3>1. job'.step = "refused" /\ job'.ring = ring
      BY <2>1, <2>8
    <3> QED BY <3>1, <2>2 DEF RingsInductive, AsItShould, RingSteps
  <2> QED BY <2>7, <2>8
<1>4. CASE Compress
  <2>1. job' = [step |-> "compressed", ring |-> ring, container |-> Container(job.delta, ring.length)]
    BY <1>4 DEF Compress
  <2>2. GoodRing(ring) /\ (AsRead(ring) => job.delta = Wanted(ring))
    BY <1>4 DEF Compress, RingsInductive, AsItShould, RingSteps
  <2> HIDE DEF ring
  <2>3. job'.step = "compressed" /\ job'.ring = ring /\ job'.container = Container(job.delta, ring.length)
    BY <2>1
  <2> QED BY <2>2, <2>3 DEF RingsInductive, AsItShould, RingSteps
<1> DEFINE s == Wanted(ring)
           c == Container(s, ring.length)
           hw == Part(ring, s, ring.length)
<1>5. ASSUME GoodRing(ring)
      PROVE  /\ Register(hw) = CheckWord
             /\ DecompressedInto(c, ring).hw = hw
             /\ ScanError(hw, DecompressedInto(c, ring).left, c) = "none"
             /\ Run(Marked(ring), WiggleFlip(s, ring)) = hw
             /\ Decompressed(c) = [rc |-> "OK", ones |-> s]
             /\ Saved(s, ring.length) = s
  <2> HIDE DEF ring
  <2> QED BY <1>5, ScannedRight, Zenon
<1>6. job.step = "compressed" => GoodRing(ring) /\ (AsRead(ring) => job.container = c)
  BY DEF RingsInductive, AsItShould, RingSteps
<1>7. CASE DecompressScan
  <2> DEFINE into == DecompressedInto(job.container, ring)
  <2>1. job.step = "compressed"
        /\ job' = [step |-> "scanned", ring |-> ring, hw |-> into.hw, error |-> ScanError(into.hw, into.left, job.container)]
    BY <1>7 DEF DecompressScan
  <2>2. GoodRing(ring) /\ (AsRead(ring) => into.hw = hw /\ ScanError(into.hw, into.left, job.container) = "none")
    <3> HIDE DEF ring, c, hw
    <3> QED BY <1>5, <1>6, <2>1
  <2> HIDE DEF into, ring, c, s
  <2>3. job'.step = "scanned" /\ job'.ring = ring /\ job'.hw = into.hw /\ job'.error = ScanError(into.hw, into.left, job.container)
    BY <2>1
  <2> QED BY <2>2, <2>3 DEF RingsInductive, AsItShould, RingSteps, s
<1>8. CASE Decompress
  <2> DEFINE ones == Decompressed(job.container).ones
  <2>1. job.step = "compressed" /\ job' = [step |-> "raw", ring |-> ring, delta |-> ones]
    BY <1>8 DEF Decompress
  <2>2. GoodRing(ring) /\ (AsRead(ring) => ones = s)
    <3> HIDE DEF ring, c, hw, s
    <3> QED BY <1>5, <1>6, <2>1
  <2> HIDE DEF ones, ring, c, s
  <2>3. job'.step = "raw" /\ job'.ring = ring /\ job'.delta = ones
    BY <2>1
  <2> QED BY <2>2, <2>3 DEF RingsInductive, AsItShould, RingSteps, s
<1>9. CASE SaveDelta
  <2> DEFINE ones == Saved(Decompressed(job.container).ones, ring.length)
  <2>1. job.step = "compressed" /\ job' = [step |-> "saved", ring |-> ring, delta |-> ones]
    BY <1>9 DEF SaveDelta
  <2>2. GoodRing(ring) /\ (AsRead(ring) => ones = s)
    <3> HIDE DEF ring, c, hw, s
    <3> QED BY <1>5, <1>6, <2>1
  <2> HIDE DEF ones, ring, c, s
  <2>3. job'.step = "saved" /\ job'.ring = ring /\ job'.delta = ones
    BY <2>1
  <2> QED BY <2>2, <2>3 DEF RingsInductive, AsItShould, RingSteps, s
<1>10. CASE CreateWiggleFlip
  <2> DEFINE ops == WiggleFlip(job.delta, ring)
  <2>1. job' = [step |-> "program", ring |-> ring, ops |-> ops]
    BY <1>10 DEF CreateWiggleFlip
  <2>2. GoodRing(ring) /\ (AsRead(ring) => ops = WiggleFlip(s, ring))
    BY <1>10 DEF CreateWiggleFlip, RingsInductive, AsItShould, RingSteps
  <2> HIDE DEF ops, ring, s
  <2>3. job'.step = "program" /\ job'.ring = ring /\ job'.ops = ops
    BY <2>1
  <2> QED BY <2>2, <2>3 DEF RingsInductive, AsItShould, RingSteps, s
<1>11. CASE RunWiggleFlip
  <2> DEFINE ran == Run(Marked(ring), job.ops)
             error == IF Register(ran) = CheckWord THEN "none" ELSE "checkword_error"
  <2>1. job' = [step |-> "scanned", ring |-> ring, hw |-> ran, error |-> error]
    BY <1>11 DEF RunWiggleFlip
  <2>2. GoodRing(ring) /\ (AsRead(ring) => job.ops = WiggleFlip(s, ring))
    BY <1>11 DEF RunWiggleFlip, RingsInductive, AsItShould, RingSteps
  <2>3. AsRead(ring) => ran = hw /\ error = "none"
    <3> HIDE DEF ring, c, hw, s
    <3> QED BY <1>5, <2>2
  <2> HIDE DEF ran, error, ring, s
  <2>4. job'.step = "scanned" /\ job'.ring = ring /\ job'.hw = ran /\ job'.error = error
    BY <2>1
  <2> QED BY <2>2, <2>3, <2>4 DEF RingsInductive, AsItShould, RingSteps, s
<1>12. CASE TakeOverlay
  <2>1. PICK o \in Overlays : job' = [step |-> "overlay", overlay |-> o]
    BY <1>12 DEF TakeOverlay
  <2>2. job'.step = "overlay" /\ job'.overlay = o
    BY <2>1
  <2> QED BY <2>2 DEF RingsInductive, RingSteps
<1>13. CASE Overlay
  <2> DEFINE o == job.overlay
  <2>1. PICK kept \in BOOLEAN :
           job' = [step |-> "overlaid", overlay |-> o, rc |-> Overlaid(o, kept).rc,
                   container |-> Container(Overlaid(o, kept).ones, o.length)]
    BY <1>13 DEF Overlay
  <2>2. o \in Overlays
    BY <1>13 DEF Overlay, RingsInductive
  <2> HIDE DEF o
  <2>3. /\ job'.step = "overlaid" /\ job'.overlay = o /\ job'.rc = Overlaid(o, kept).rc
        /\ job'.container = Container(Overlaid(o, kept).ones, o.length)
    BY <2>1
  <2>4. OverlayDone(o, job'.rc, job'.container)
    BY <2>3 DEF OverlayDone
  <2> QED BY <2>2, <2>3, <2>4 DEF RingsInductive, RingSteps
<1> QED BY <1>1, <1>2, <1>3, <1>4, <1>7, <1>8, <1>9, <1>10, <1>11, <1>12, <1>13 DEF RingNext, RingStep

(* What the steps leave is always a function of the ring.                  *)
LEMMA RingsAlways == RingSpec => []RingsInductive
<1>1. RingInit => RingsInductive
  BY RingsStart
<1>2. RingsInductive /\ [RingNext]_job => RingsInductive'
  <2> SUFFICES ASSUME RingsInductive, [RingNext]_job
               PROVE  RingsInductive'
    OBVIOUS
  <2>1. CASE RingNext
    BY <2>1, RingsGoOn
  <2>2. CASE UNCHANGED job
    BY <2>2 DEF RingsInductive, RingSteps, AsItShould
  <2> QED BY <2>1, <2>2
<1> QED BY <1>1, <1>2, PTL DEF RingSpec

LEMMA RingsReachHolds ==
  ASSUME RingsInductive
  PROVE  RingsReach
<1> DEFINE ring == job.ring
           s == Wanted(ring)
           c == Container(s, ring.length)
           hw == Part(ring, s, ring.length)
<1>1. ASSUME job.step = "scanned", AsRead(ring)
      PROVE  /\ job.error = "none" /\ job.hw.at = 0
             /\ job.hw.ones \ (0 .. 31) = (ring.alter \cap UpTo(ring.length)) \ (0 .. 31)
  <2>1. GoodRing(ring) /\ job.error = "none" /\ job.hw = hw
    BY <1>1 DEF RingsInductive, RingSteps, AsItShould
  <2> HIDE DEF ring
  <2>2. Changes(ring, s) /\ s = Delta(ring.init, ring.alter, ring.length)
    BY <2>1, GoodRingChanges DEF Wanted
  <2> HIDE DEF s
  <2>3. hw.at = 0 /\ hw.ones \ (0 .. 31) = (ring.alter \cap UpTo(ring.length)) \ (0 .. 31)
    BY <2>2, PartEnds
  <2> HIDE DEF hw
  <2> QED BY <2>1, <2>3
<1>2. ASSUME job.step = "saved", AsRead(ring)
      PROVE  job.delta = Delta(ring.init, ring.alter, ring.length)
  BY <1>2 DEF RingsInductive, RingSteps, AsItShould, Wanted
<1>3. ASSUME job.step = "compressed", AsRead(ring)
      PROVE  /\ Decompressed(job.container) = [rc |-> "OK", ones |-> s]
             /\ Redundant(job.container) = [rc |-> "OK", redundant |-> s = {}]
             /\ Len(job.container.code) <= (((ring.length + 3) \div 4 + 14) \div 15) * 17 + 3
  <2>1. GoodRing(ring) /\ job.container = c
    BY <1>3 DEF RingsInductive, RingSteps, AsItShould
  <2> HIDE DEF ring
  <2>2. ring.length \in Nat /\ s \subseteq UpTo(ring.length)
    BY <2>1, GoodRingChanges
  <2> HIDE DEF s
  <2>3. Decompressed(c) = [rc |-> "OK", ones |-> s]
    BY <2>2, CompressionReverses
  <2>4. Redundant(c) = [rc |-> "OK", redundant |-> s = {}]
    BY <2>2, RedundantIs
  <2>5. Len(Compressed(s, ring.length)) <= (((ring.length + 3) \div 4 + 14) \div 15) * 17 + 3
    BY <2>2, CompressedIsShort
  <2>6. c.code = Compressed(s, ring.length)
    BY DEF Container
  <2> HIDE DEF c
  <2> QED BY <2>1, <2>3, <2>4, <2>5, <2>6
<1> QED BY <1>1, <1>2, <1>3 DEF RingsReach, Wanted

(* Every ring that is scanned ends with the wanted bits and the check word *)
(* back in the register, whichever of the two programs scans it; its code  *)
(* gives it back, tells whether it is redundant, and is not longer than    *)
(* the worst case (p8_image_help.C, p8_scan_compression.C and              *)
(* proc_sbe_decompress_scan.S).                                            *)
THEOREM RingsComeThrough == RingSpec => []RingsReach
<1>1. RingsInductive => RingsReach
  BY RingsReachHolds
<1> QED BY <1>1, RingsAlways, PTL

(* A datacare overlay replaces exactly the bits that are cared for, and is *)
(* refused exactly if it has data without care, for every overlay of up to *)
(* four bits more than whole words (p8_image_help.C,                       *)
(* check_and_perform_ring_datacare).                                       *)
THEOREM OverlaysReplace == RingSpec => []DatacareReplaces
<1>1. RingsInductive => DatacareReplaces
  <2> SUFFICES ASSUME RingsInductive, job.step = "overlaid", Exact(job.overlay.length)
               PROVE  LET o == job.overlay
                      IN  IF o.data \subseteq o.care
                          THEN /\ job.rc = "OK"
                               /\ Decompressed(job.container).ones \cap UpTo(o.length) = (o.vpd \ o.care) \cup o.data
                          ELSE job.rc = "DATACARE_RING_MESS"
    BY DEF DatacareReplaces
  <2> DEFINE o == job.overlay
  <2>1. o \in Overlays /\ OverlayDone(o, job.rc, job.container)
    BY DEF RingsInductive
  <2> HIDE DEF o
  <2>2. PICK kept \in BOOLEAN : job.rc = Overlaid(o, kept).rc /\ job.container = Container(Overlaid(o, kept).ones, o.length)
    BY <2>1 DEF OverlayDone
  <2>3. Overlap(o)
    BY <2>1, OverlaysOverlap DEF o
  <2>4. IF o.data \subseteq o.care
        THEN /\ Overlaid(o, kept).rc = "OK"
             /\ Decompressed(Container(Overlaid(o, kept).ones, o.length)).ones \cap UpTo(o.length) = (o.vpd \ o.care) \cup o.data
        ELSE Overlaid(o, kept).rc = "DATACARE_RING_MESS"
    BY <2>3, OverlaidIs
  <2> QED BY <2>2, <2>4 DEF o
<1> QED BY <1>1, RingsAlways, PTL

-----------------------------------------------------------------------------
(***************************************************************************)
(* The macros of pgas.h.  Register files are over any set V of bits that   *)
(* has the zero; an instruction of a macro is one of Instructed.           *)
(***************************************************************************)
Files == DOMAIN Power
Zero == <<"zero", 0>>
Contents(V) == [Files -> [Bits -> V]]
Instructed ==
    {<<"mr", a, b>> : a \in Data, b \in Files} \cup {<<"rols", a, b, n>> : a \in Data, b \in Files, n \in Bits}
    \cup {<<"andi", a, b, m>> : a \in Data, b \in Files, m \in SUBSET Bits} \cup {<<"or", a, "D0", "D1">> : a \in Data}
(* What a register holds after a rotate, and after a mask.                 *)
Turning(w, n) == [b \in Bits |-> w[(b + n) % 64]]
Kept(w, m) == [b \in Bits |-> IF b \in m THEN w[b] ELSE Zero]
Put(regs, a, w) == [regs EXCEPT ![a] = w]

LEMMA FilesAre == Files = {"D0", "D1", "IFR"} /\ Data = {"D0", "D1"} /\ Data \subseteq Files /\ Bits = 0 .. 63
BY DEF Files, Power, Data, Bits, Width

(* The instructions, one by one.                                           *)
LEMMA Steps ==
  ASSUME NEW regs, NEW a, NEW b, NEW n
  PROVE  /\ Step(regs, <<"mr", a, b>>) = Put(regs, a, regs[b])
         /\ Step(regs, <<"rols", a, b, n>>) = Put(regs, a, Turning(regs[b], n))
         /\ Step(regs, <<"andi", a, b, n>>) = Put(regs, a, Kept(regs[b], n))
         /\ Step(regs, <<"or", a, "D0", "D1">>) =
               Put(regs, a, [k \in Bits |-> Combined(regs["D0"][k], regs["D1"][k])])
<1>1. Step(regs, <<"mr", a, b>>) = [regs EXCEPT ![a] = regs[b]]
  BY DEF Step
<1>2. Step(regs, <<"rols", a, b, n>>) = [regs EXCEPT ![a] = Turning(regs[b], n)]
  BY DEF Step, Turning, Width
<1>3. Step(regs, <<"andi", a, b, n>>) = [regs EXCEPT ![a] = Kept(regs[b], n)]
  BY DEF Step, Kept, Zero
<1>4. Step(regs, <<"or", a, "D0", "D1">>) =
         [regs EXCEPT ![a] = [k \in Bits |-> Combined(regs["D0"][k], regs["D1"][k])]]
  BY DEF Step
<1> QED BY <1>1, <1>2, <1>3, <1>4, Zenon DEF Put

LEMMA Puts ==
  ASSUME NEW V, NEW regs \in Contents(V), NEW a \in Files, NEW w \in [Bits -> V]
  PROVE  /\ Put(regs, a, w) \in Contents(V)
         /\ Put(regs, a, w)[a] = w
         /\ \A b \in Files : b # a => Put(regs, a, w)[b] = regs[b]
         /\ \A b \in Files : regs[b] \in [Bits -> V]
         /\ Put(regs, a, regs[a]) = regs
         /\ \A v \in [Bits -> V] : Put(Put(regs, a, w), a, v) = Put(regs, a, v)
BY DEF Put, Contents

RunsOf(f, N, regs, program) == f = [k \in 0 .. N |-> IF k = 0 THEN regs ELSE Step(f[k - 1], program[k])]
(* The recursive definition of a run has a solution.                       *)
LEMMA RunsExist ==
  ASSUME NEW N \in Nat, NEW regs, NEW program
  PROVE  \E f : RunsOf(f, N, regs, program)
<1> DEFINE T == {n \in 0 .. N : ~ \E f : RunsOf(f, n, regs, program)}
<1> SUFFICES ASSUME T # {} PROVE FALSE
  OBVIOUS
<1>1. PICK last \in T : \A x \in T : last <= x
  <2>1. T \subseteq Nat
    OBVIOUS
  <2> HIDE DEF T
  <2> QED BY <2>1, LeastOf
<1>2. last # 0
  <2> DEFINE g == [k \in 0 .. 0 |-> regs]
  <2>1. g = [k \in 0 .. 0 |-> IF k = 0 THEN regs ELSE Step(g[k - 1], program[k])]
    OBVIOUS
  <2> HIDE DEF g
  <2>2. RunsOf(g, 0, regs, program)
    BY <2>1 DEF RunsOf
  <2> QED BY <1>1, <2>2
<1>3. last \in Nat \ {0} /\ last - 1 \in 0 .. N /\ ~ (last <= last - 1)
  BY <1>1, <1>2
<1>4. last - 1 \notin T
  <2> HIDE DEF T
  <2> QED BY <1>1, <1>3
<1>5. PICK g : RunsOf(g, last - 1, regs, program)
  BY <1>3, <1>4
<1> DEFINE h == [k \in 0 .. last |-> IF k = 0 THEN regs ELSE Step(g[k - 1], program[k])]
<1>6. \A k \in 0 .. last - 1 : h[k] = g[k]
  <2>1. \A k \in 0 .. last - 1 : g[k] = IF k = 0 THEN regs ELSE Step(g[k - 1], program[k])
    BY <1>5 DEF RunsOf
  <2>2. \A k \in 0 .. last - 1 : k \in 0 .. last
    BY <1>3
  <2> QED BY <2>1, <2>2
<1>7. \A k \in 0 .. last : k # 0 => k - 1 \in 0 .. last - 1
  BY <1>3
<1>8. h = [k \in 0 .. last |-> IF k = 0 THEN regs ELSE Step(h[k - 1], program[k])]
  <2>1. \A k \in 0 .. last : (IF k = 0 THEN regs ELSE Step(g[k - 1], program[k]))
                           = (IF k = 0 THEN regs ELSE Step(h[k - 1], program[k]))
    <3> HIDE DEF h
    <3> QED BY <1>6, <1>7
  <2> QED BY <2>1
<1> HIDE DEF h
<1>9. RunsOf(h, last, regs, program)
  BY <1>8 DEF RunsOf
<1> QED BY <1>1, <1>9

LEMMA RunsAre ==
  ASSUME NEW regs, NEW program, Len(program) \in Nat
  PROVE  \E f : RunsOf(f, Len(program), regs, program) /\ Runs(program, regs) = f[Len(program)]
<1> DEFINE ran == CHOOSE f : RunsOf(f, Len(program), regs, program)
<1>1. RunsOf(ran, Len(program), regs, program)
  BY RunsExist
<1>2. Runs(program, regs) = ran[Len(program)]
  BY DEF Runs, RunsOf
<1> QED BY <1>1, <1>2

(* What steps as far as a run goes is the run.                             *)
LEMMA RunsTo ==
  ASSUME NEW regs, NEW program, Len(program) \in Nat, NEW g, g[0] = regs,
         \A k \in 1 .. Len(program) : Step(g[k - 1], program[k]) = g[k]
  PROVE  Runs(program, regs) = g[Len(program)]
<1> DEFINE n == Len(program)
<1>1. PICK f : RunsOf(f, n, regs, program) /\ Runs(program, regs) = f[n]
  BY RunsAre
<1>2. f[0] = regs /\ \A k \in 1 .. n : f[k] = Step(f[k - 1], program[k])
  BY <1>1 DEF RunsOf
<1> HIDE DEF n
<1> DEFINE T == {k \in 0 .. n : f[k] # g[k]}
<1> SUFFICES ASSUME T # {} PROVE FALSE
  <2>1. n \in 0 .. n
    BY DEF n
  <2> QED BY <2>1, <1>1 DEF n
<1>3. PICK k \in T : \A x \in T : k <= x
  <2>1. T \subseteq Nat
    OBVIOUS
  <2> HIDE DEF T
  <2> QED BY <2>1, LeastOf
<1>4. k # 0
  BY <1>2, <1>3
<1>5. k \in 1 .. n /\ k - 1 \in 0 .. n /\ ~ (k <= k - 1)
  BY <1>3, <1>4 DEF n
<1>6. k - 1 \notin T
  <2> HIDE DEF T
  <2> QED BY <1>3, <1>5
<1>7. f[k - 1] = g[k - 1]
  BY <1>5, <1>6
<1>8. f[k] = g[k]
  BY <1>2, <1>5, <1>7 DEF n
<1> QED BY <1>3, <1>8

(* A program after another runs from where the first ends.                 *)
LEMMA RunsOn ==
  ASSUME NEW p \in Seq(Instructed), NEW q \in Seq(Instructed), NEW regs
  PROVE  Runs(p \o q, regs) = Runs(q, Runs(p, regs))
<1> DEFINE m == Len(p)
           n == Len(q)
<1>1. m \in Nat /\ n \in Nat /\ Len(p \o q) = m + n
  OBVIOUS
<1>2. \A k \in 1 .. m + n : (p \o q)[k] = IF k <= m THEN p[k] ELSE q[k - m]
  OBVIOUS
<1>3. PICK f : RunsOf(f, m, regs, p) /\ Runs(p, regs) = f[m]
  BY <1>1, RunsAre
<1>4. PICK h : RunsOf(h, n, f[m], q) /\ Runs(q, f[m]) = h[n]
  BY <1>1, RunsAre
<1> HIDE DEF m, n
<1>5. f[0] = regs /\ \A k \in 1 .. m : f[k] = Step(f[k - 1], p[k])
  BY <1>1, <1>3 DEF RunsOf
<1>6. h[0] = f[m] /\ \A k \in 1 .. n : h[k] = Step(h[k - 1], q[k])
  BY <1>1, <1>4 DEF RunsOf
<1> DEFINE g == [k \in 0 .. m + n |-> IF k <= m THEN f[k] ELSE h[k - m]]
<1>7. g[0] = regs /\ g[m + n] = h[n]
  BY <1>1, <1>5, <1>6
<1>a. \A k \in 0 .. m : g[k] = f[k]
  BY <1>1
<1>b. \A k \in 0 .. n : g[m + k] = h[k]
  <2> SUFFICES ASSUME NEW k \in 0 .. n PROVE g[m + k] = h[k]
    OBVIOUS
  <2>1. CASE k = 0
    BY <1>1, <1>6, <2>1
  <2>2. CASE k # 0
    <3>1. m + k \in 0 .. m + n /\ ~ (m + k <= m) /\ (m + k) - m = k
      BY <1>1, <2>2
    <3> QED BY <3>1
  <2> QED BY <2>1, <2>2
<1> HIDE DEF g
<1>8. ASSUME NEW k \in 1 .. m + n
      PROVE  Step(g[k - 1], (p \o q)[k]) = g[k]
  <2>1. CASE k <= m
    <3>1. k \in 0 .. m /\ k - 1 \in 0 .. m /\ k \in 1 .. m
      BY <1>1, <2>1
    <3>2. g[k] = f[k] /\ g[k - 1] = f[k - 1]
      BY <1>a, <3>1
    <3>3. (p \o q)[k] = p[k]
      BY <1>2, <2>1
    <3>4. f[k] = Step(f[k - 1], p[k])
      BY <1>5, <3>1
    <3> QED BY <3>2, <3>3, <3>4
  <2>2. CASE k > m
    <3> DEFINE l == k - m
    <3>1. l \in 1 .. n /\ l \in 0 .. n /\ l - 1 \in 0 .. n /\ k = m + l /\ k - 1 = m + (l - 1)
      BY <1>1, <2>2
    <3>2. ~ (k <= m)
      BY <1>1, <2>2
    <3>3. (p \o q)[k] = q[l]
      BY <1>2, <3>2
    <3> HIDE DEF l
    <3>4. g[k] = h[l] /\ g[k - 1] = h[l - 1]
      BY <1>b, <3>1
    <3>5. h[l] = Step(h[l - 1], q[l])
      BY <1>6, <3>1
    <3> QED BY <3>3, <3>4, <3>5
  <2> QED BY <1>1, <2>1, <2>2
<1>9. Runs(p \o q, regs) = g[m + n]
  <2>1. m + n \in Nat
    BY <1>1
  <2> QED BY <1>1, <1>7, <1>8, <2>1, RunsTo
<1> QED BY <1>3, <1>4, <1>7, <1>9

LEMMA RunsOne ==
  ASSUME NEW i, NEW regs
  PROVE  Runs(<<i>>, regs) = Step(regs, i)
<1> DEFINE g == [k \in 0 .. 1 |-> IF k = 0 THEN regs ELSE Step(regs, i)]
<1>1. Len(<<i>>) = 1 /\ <<i>>[1] = i
  OBVIOUS
<1>2. g[0] = regs /\ g[1] = Step(regs, i)
  OBVIOUS
<1> HIDE DEF g
<1> QED BY <1>1, <1>2, RunsTo

LEMMA RunsNone ==
  ASSUME NEW regs
  PROVE  Runs(<<>>, regs) = regs
<1> DEFINE g == [k \in 0 .. 0 |-> regs]
<1>1. Len(<<>>) = 0 /\ g[0] = regs
  OBVIOUS
<1> HIDE DEF g
<1> QED BY <1>1, RunsTo

(* Registers are registers after a rotate and a mask, of which two in      *)
(* succession are one.                                                     *)
LEMMA Turnings ==
  ASSUME NEW V, NEW w \in [Bits -> V], NEW n \in Nat
  PROVE  /\ Turning(w, n) \in [Bits -> V]
         /\ n = 0 => Turning(w, n) = w
<1>1. \A b \in Bits : (b + n) % 64 \in Bits
  BY FilesAre
<1>2. Turning(w, n) \in [Bits -> V]
  BY <1>1 DEF Turning
<1>3. ASSUME n = 0
      PROVE  Turning(w, n) = w
  <2>1. \A b \in Bits : (b + n) % 64 = b
    BY <1>3, FilesAre
  <2> QED BY <2>1 DEF Turning
<1> QED BY <1>2, <1>3

LEMMA TurnsTwice ==
  ASSUME NEW w, NEW n \in Nat, NEW k \in Nat, NEW m \in Nat, m = n + k
  PROVE  Turning(Turning(w, n), k) = Turning(w, m)
<1>1. \A b \in Bits : (b + k) % 64 \in Bits /\ (((b + k) % 64) + n) % 64 = (b + m) % 64
  BY FilesAre
<1>2. \A b \in Bits : Turning(w, n)[(b + k) % 64] = w[(b + m) % 64]
  BY <1>1 DEF Turning
<1> QED BY <1>2 DEF Turning

LEMMA Pair ==
  ASSUME NEW x, NEW y
  PROVE  <<x>> \o <<y>> = <<x, y>>
<1>1. <<x>> \in Seq({x, y}) /\ <<y>> \in Seq({x, y}) /\ <<x, y>> \in Seq({x, y})
  OBVIOUS
<1> DEFINE p == <<x>> \o <<y>>
<1>2. p \in Seq({x, y}) /\ Len(p) = 2 /\ p[1] = x /\ p[2] = y
  BY <1>1
<1> HIDE DEF p
<1>3. p = <<x, y>>
  BY <1>2
<1> QED BY <1>3 DEF p

LEMMA Masks ==
  ASSUME NEW V, Zero \in V, NEW w \in [Bits -> V], NEW m
  PROVE  Kept(w, m) \in [Bits -> V]
BY DEF Kept

LEMMA Instructions ==
  ASSUME NEW a \in Data, NEW b \in Files
  PROVE  /\ <<"mr", a, b>> \in Instructed
         /\ \A n \in Bits : <<"rols", a, b, n>> \in Instructed
         /\ \A m \in SUBSET Bits : <<"andi", a, b, m>> \in Instructed
         /\ <<"or", a, "D0", "D1">> \in Instructed
BY DEF Instructed

(* The largest rotate there is.                                            *)
LEMMA LargestIs ==
  ASSUME NEW n \in Nat \ {0}
  PROVE  Largest(n) \in 1 .. 32 /\ Largest(n) <= n
<1> DEFINE S == {1, 4, 8, 16, 32}
           T == {m \in S : m <= n}
           P(x) == x <= n /\ \A m \in S : m <= n => m <= x
<1>1. \E x \in S : P(x)
  <2>1. CASE n >= 32
    BY <2>1
  <2>2. CASE n < 32 /\ n >= 16
    BY <2>2
  <2>3. CASE n < 16 /\ n >= 8
    BY <2>3
  <2>4. CASE n < 8 /\ n >= 4
    BY <2>4
  <2>5. CASE n < 4
    BY <2>5
  <2> QED BY <2>1, <2>2, <2>3, <2>4, <2>5
<1>2. Largest(n) \in S /\ P(Largest(n))
  BY <1>1 DEF Largest
<1> QED BY <1>2

RollsOf(f, ra, N) == f = [n \in 0 .. N |-> IF n = 0 THEN <<>>
                                           ELSE <<<<"rols", ra, ra, Largest(n)>>>> \o f[n - Largest(n)]]
(* The recursive definition of a rotation has a solution.                  *)
LEMMA RollsExist ==
  ASSUME NEW ra, NEW N \in Nat
  PROVE  \E f : RollsOf(f, ra, N)
<1> DEFINE T == {n \in 0 .. N : ~ \E f : RollsOf(f, ra, n)}
           Is(f, k) == IF k = 0 THEN <<>> ELSE <<<<"rols", ra, ra, Largest(k)>>>> \o f[k - Largest(k)]
<1> SUFFICES ASSUME T # {} PROVE FALSE
  OBVIOUS
<1>1. PICK last \in T : \A x \in T : last <= x
  <2>1. T \subseteq Nat
    OBVIOUS
  <2> HIDE DEF T
  <2> QED BY <2>1, LeastOf
<1>2. last # 0
  <2> DEFINE g == [k \in 0 .. 0 |-> <<>>]
  <2>1. g = [k \in 0 .. 0 |-> Is(g, k)]
    OBVIOUS
  <2> HIDE DEF g
  <2>2. RollsOf(g, ra, 0)
    BY <2>1 DEF RollsOf
  <2> QED BY <1>1, <2>2
<1>3. last \in Nat \ {0} /\ last - 1 \in 0 .. N /\ ~ (last <= last - 1)
  BY <1>1, <1>2
<1>4. last - 1 \notin T
  <2> HIDE DEF T
  <2> QED BY <1>1, <1>3
<1>5. PICK g : RollsOf(g, ra, last - 1)
  BY <1>3, <1>4
<1>6. \A k \in 0 .. last - 1 : g[k] = Is(g, k)
  BY <1>5 DEF RollsOf
<1>7. \A k \in 0 .. last : k # 0 => k - Largest(k) \in 0 .. last - 1
  <2> SUFFICES ASSUME NEW k \in 0 .. last, k # 0
               PROVE  k - Largest(k) \in 0 .. last - 1
    OBVIOUS
  <2>1. Largest(k) \in 1 .. 32 /\ Largest(k) <= k
    BY LargestIs
  <2> QED BY <2>1, <1>3
<1> DEFINE h == [k \in 0 .. last |-> Is(g, k)]
<1>8. \A k \in 0 .. last - 1 : h[k] = g[k]
  <2>1. \A k \in 0 .. last - 1 : k \in 0 .. last
    BY <1>3
  <2>2. \A k \in 0 .. last : h[k] = Is(g, k)
    <3> HIDE DEF Is
    <3> QED OBVIOUS
  <2> HIDE DEF h, Is
  <2> QED BY <2>1, <2>2, <1>6
<1>9. \A k \in 0 .. last : Is(g, k) = Is(h, k)
  <2> HIDE DEF h
  <2> QED BY <1>7, <1>8
<1>10. h = [k \in 0 .. last |-> Is(h, k)]
  <2> HIDE DEF Is
  <2> QED BY <1>9
<1> HIDE DEF h
<1>11. RollsOf(h, ra, last)
  BY <1>10 DEF RollsOf
<1> QED BY <1>1, <1>11

(* ..rotlr rotates by what it is told, in steps of what the engine has.    *)
LEMMA RotlrIs ==
  ASSUME NEW V, NEW ra \in Data, NEW n \in 0 .. 64
  PROVE  /\ Rotlr(ra, n) \in Seq(Instructed)
         /\ \A regs \in Contents(V) : Runs(Rotlr(ra, n), regs) = Put(regs, ra, Turning(regs[ra], n))
<1> DEFINE f == CHOOSE g : RollsOf(g, ra, Width)
           Right(k) == \A regs \in Contents(V) : Runs(f[k], regs) = Put(regs, ra, Turning(regs[ra], k))
           Good(k) == f[k] \in Seq(Instructed) /\ Right(k)
           T == {k \in 0 .. 64 : ~ Good(k)}
<1>1. RollsOf(f, ra, Width)
  BY RollsExist DEF Width
<1>2. Rotlr(ra, n) = f[n]
  BY DEF Rotlr, RollsOf
<1> HIDE DEF f
<1>3. f[0] = <<>> /\ \A k \in 1 .. 64 : f[k] = <<<<"rols", ra, ra, Largest(k)>>>> \o f[k - Largest(k)]
  <2>1. \A k \in 0 .. 64 : f[k] = IF k = 0 THEN <<>>
                                ELSE <<<<"rols", ra, ra, Largest(k)>>>> \o f[k - Largest(k)]
    BY <1>1 DEF RollsOf, Width
  <2>2. ASSUME NEW k \in 1 .. 64
        PROVE  f[k] = <<<<"rols", ra, ra, Largest(k)>>>> \o f[k - Largest(k)]
    <3>1. k \in 0 .. 64 /\ k # 0
      OBVIOUS
    <3> QED BY <2>1, <3>1
  <2>3. f[0] = <<>>
    <3>1. 0 \in 0 .. 64
      OBVIOUS
    <3> QED BY <2>1, <3>1, Zenon
  <2> QED BY <2>2, <2>3
<1> SUFFICES ASSUME T # {} PROVE FALSE
  <2>1. n \notin T => Good(n)
    <3>1. n \in {k \in 0 .. 64 : ~ Good(k)} <=> ~ Good(n)
      <4> HIDE DEF Good
      <4> QED OBVIOUS
    <3> HIDE DEF Good
    <3> QED BY <3>1
  <2>2. Good(n) => f[n] \in Seq(Instructed) /\ Right(n)
    OBVIOUS
  <2> HIDE DEF Good, T, Right
  <2>3. T = {} => f[n] \in Seq(Instructed) /\ Right(n)
    BY <2>1, <2>2
  <2> QED BY <1>2, <2>3 DEF Right
<1>5. PICK k \in T : \A x \in T : k <= x
  <2> HIDE DEF Good
  <2>1. T \subseteq Nat
    OBVIOUS
  <2> HIDE DEF T
  <2> QED BY <2>1, LeastOf
<1>6. k # 0
  <2> SUFFICES ASSUME k = 0 PROVE FALSE
    OBVIOUS
  <2> HIDE DEF T
  <2>0. f[k] = <<>>
    BY <1>3
  <2>1. f[k] \in Seq(Instructed)
    BY <2>0
  <2>2. ASSUME NEW regs \in Contents(V)
        PROVE  Runs(f[k], regs) = Put(regs, ra, Turning(regs[ra], k))
    <3>1. ra \in Files
      BY FilesAre
    <3>2. regs[ra] \in [Bits -> V]
      BY <3>1 DEF Contents
    <3>3. Turning(regs[ra], k) = regs[ra]
      BY <3>2, Turnings
    <3>4. Runs(f[k], regs) = regs
      BY <2>0, RunsNone
    <3>5. Put(regs, ra, regs[ra]) = regs
      BY <3>1, <3>2, Puts
    <3> QED BY <3>3, <3>4, <3>5
  <2>3. Good(k)
    BY <2>1, <2>2
  <2> HIDE DEF Good
  <2> QED BY <1>5, <2>3 DEF T
<1>7. k \in 1 .. 64 /\ Largest(k) \in 1 .. 32 /\ Largest(k) <= k
  <2>1. k \in 0 .. 64
    <3> HIDE DEF Good
    <3> QED OBVIOUS
  <2>2. k \in 1 .. 64 /\ k \in Nat \ {0}
    BY <1>6, <2>1
  <2> QED BY <2>2, LargestIs
<1> HIDE DEF Good, T, Right
<1> DEFINE big == Largest(k)
           op == <<"rols", ra, ra, big>>
<1>8. k - big \in 0 .. 64 /\ ~ (k <= k - big) /\ big \in Bits
  BY <1>7, FilesAre
<1>9. k - big \notin T
  <2> HIDE DEF big
  <2> QED BY <1>5, <1>8
<1>10. f[k - big] \in Seq(Instructed) /\ Right(k - big)
  BY <1>8, <1>9 DEF T, Good
<1>11. op \in Instructed /\ <<op>> \in Seq(Instructed)
  <2>1. op \in Instructed
    <3> HIDE DEF big
    <3> QED BY <1>8, Instructions, FilesAre
  <2> HIDE DEF op
  <2> QED BY <2>1
<1>12. f[k] = <<op>> \o f[k - big]
  BY <1>3, <1>7
<1>13. f[k] \in Seq(Instructed)
  <2> HIDE DEF op, big
  <2> QED BY <1>10, <1>11, <1>12
<1>14. ASSUME NEW regs \in Contents(V)
       PROVE  Runs(f[k], regs) = Put(regs, ra, Turning(regs[ra], k))
  <2> DEFINE after == Put(regs, ra, Turning(regs[ra], big))
  <2>1. ra \in Files /\ regs[ra] \in [Bits -> V]
    BY FilesAre DEF Contents
  <2> DEFINE rest == k - big
  <2>2. big \in Nat /\ rest \in Nat /\ k = big + rest /\ k \in Nat
    BY <1>7
  <2> HIDE DEF big, rest
  <2>3. Turning(regs[ra], big) \in [Bits -> V]
        /\ Turning(Turning(regs[ra], big), rest) = Turning(regs[ra], k)
        /\ Turning(regs[ra], k) \in [Bits -> V]
    <3>1. Turning(regs[ra], big) \in [Bits -> V] /\ Turning(regs[ra], k) \in [Bits -> V]
      BY <2>1, <2>2, Turnings, Zenon
    <3>2. Turning(Turning(regs[ra], big), rest) = Turning(regs[ra], k)
      BY <2>2, TurnsTwice
    <3> QED BY <3>1, <3>2
  <2>4. Runs(<<op>>, regs) = after
    <3>1. Step(regs, op) = after
      BY Steps, Zenon
    <3> QED BY <3>1, RunsOne, Zenon
  <2>5. after \in Contents(V) /\ after[ra] = Turning(regs[ra], big)
        /\ Put(after, ra, Turning(regs[ra], k)) = Put(regs, ra, Turning(regs[ra], k))
    BY <2>1, <2>3, Puts
  <2> HIDE DEF op, after
  <2>6. Runs(f[k], regs) = Runs(f[k - big], after)
    <3>1. Runs(<<op>> \o f[k - big], regs) = Runs(f[k - big], Runs(<<op>>, regs))
      BY <1>10, <1>11, RunsOn
    <3> QED BY <1>12, <2>4, <3>1
  <2>7. Runs(f[k - big], after) = Put(after, ra, Turning(after[ra], k - big))
    BY <1>10, <2>5 DEF Right
  <2> QED BY <2>3, <2>5, <2>6, <2>7, Zenon DEF rest
<1>15. Good(k)
  BY <1>13, <1>14 DEF Good, Right
<1> QED BY <1>5, <1>15 DEF T

(* ..rotlrr rotates from one register to another, by a move if by nothing. *)
LEMMA RotlrrIs ==
  ASSUME NEW V, NEW ra \in Data, NEW rs \in Files, NEW n \in Bits
  PROVE  /\ Rotlrr(ra, rs, n) \in Seq(Instructed)
         /\ \A regs \in Contents(V) : Runs(Rotlrr(ra, rs, n), regs) = Put(regs, ra, Turning(regs[rs], n))
<1>1. CASE n = 0
  <2>1. <<"mr", ra, rs>> \in Instructed
    BY Instructions
  <2>2. Rotlrr(ra, rs, n) = <<<<"mr", ra, rs>>>>
    BY <1>1 DEF Rotlrr
  <2>3. Rotlrr(ra, rs, n) \in Seq(Instructed)
    BY <2>1, <2>2
  <2>4. ASSUME NEW regs \in Contents(V)
        PROVE  Runs(Rotlrr(ra, rs, n), regs) = Put(regs, ra, Turning(regs[rs], n))
    <3>1. regs[rs] \in [Bits -> V]
      BY DEF Contents
    <3>2. Turning(regs[rs], n) = regs[rs]
      BY <1>1, <3>1, Turnings
    <3>3. Runs(Rotlrr(ra, rs, n), regs) = Put(regs, ra, regs[rs])
      <4>1. Step(regs, <<"mr", ra, rs>>) = Put(regs, ra, regs[rs])
        BY Steps, Zenon
      <4>2. Runs(<<<<"mr", ra, rs>>>>, regs) = Step(regs, <<"mr", ra, rs>>)
        BY RunsOne, Zenon
      <4> QED BY <2>2, <4>1, <4>2
    <3> QED BY <3>2, <3>3, Zenon
  <2> QED BY <2>3, <2>4
<1>2. CASE n # 0
  <2> DEFINE big == Largest(n)
             op == <<"rols", ra, rs, big>>
  <2>1. n \in Nat \ {0} /\ n \in 1 .. 63
    BY <1>2, FilesAre
  <2>2. big \in 1 .. 32 /\ big <= n
    BY <2>1, LargestIs
  <2> HIDE DEF big
  <2>3. big \in Bits /\ big \in Nat /\ n - big \in 0 .. 64 /\ n - big \in Nat /\ big + (n - big) = n
    BY <2>1, <2>2, FilesAre
  <2>4. op \in Instructed
    BY <2>3, Instructions
  <2>5. Rotlrr(ra, rs, n) = <<op>> \o Rotlr(ra, n - big)
    BY <1>2 DEF Rotlrr, big
  <2>6. Rotlr(ra, n - big) \in Seq(Instructed)
        /\ \A regs \in Contents(V) :
              Runs(Rotlr(ra, n - big), regs) = Put(regs, ra, Turning(regs[ra], n - big))
    BY <2>3, RotlrIs
  <2>7. <<op>> \in Seq(Instructed) /\ Rotlrr(ra, rs, n) \in Seq(Instructed)
    <3> HIDE DEF op
    <3> QED BY <2>4, <2>5, <2>6
  <2>8. ASSUME NEW regs \in Contents(V)
        PROVE  Runs(Rotlrr(ra, rs, n), regs) = Put(regs, ra, Turning(regs[rs], n))
    <3> DEFINE after == Put(regs, ra, Turning(regs[rs], big))
    <3> DEFINE rest == n - big
    <3>1. ra \in Files /\ regs[rs] \in [Bits -> V]
      BY FilesAre DEF Contents
    <3>2. Turning(regs[rs], big) \in [Bits -> V]
          /\ Turning(Turning(regs[rs], big), rest) = Turning(regs[rs], n)
          /\ Turning(regs[rs], n) \in [Bits -> V]
      <4>1. rest \in Nat /\ n = big + rest /\ n \in Nat /\ big \in Nat
        BY <2>1, <2>3
      <4> HIDE DEF rest
      <4>2. Turning(Turning(regs[rs], big), rest) = Turning(regs[rs], n)
        BY <4>1, TurnsTwice
      <4> QED BY <3>1, <4>1, <4>2, Turnings
    <3> HIDE DEF rest
    <3>3. Runs(<<op>>, regs) = after
      <4>1. Step(regs, op) = after
        BY Steps, Zenon
      <4> QED BY <4>1, RunsOne, Zenon
    <3>4. after \in Contents(V) /\ after[ra] = Turning(regs[rs], big)
          /\ Put(after, ra, Turning(regs[rs], n)) = Put(regs, ra, Turning(regs[rs], n))
      BY <3>1, <3>2, Puts
    <3> HIDE DEF op, after
    <3>5. Runs(Rotlrr(ra, rs, n), regs) = Runs(Rotlr(ra, n - big), after)
      <4>1. Runs(<<op>> \o Rotlr(ra, n - big), regs) = Runs(Rotlr(ra, n - big), Runs(<<op>>, regs))
        BY <2>6, <2>7, RunsOn
      <4> QED BY <2>5, <3>3, <4>1
    <3>6. Runs(Rotlr(ra, n - big), after) = Put(after, ra, Turning(after[ra], n - big))
      BY <2>6, <3>4
    <3> QED BY <3>2, <3>4, <3>5, <3>6, Zenon DEF rest
  <2> QED BY <2>7, <2>8
<1> QED BY <1>1, <1>2

-----------------------------------------------------------------------------
(* The bits that rldinm keeps, and what it leaves.                         *)
KeptBits(mb, me) == IF NoMask(mb, me) THEN Bits ELSE Mask(mb, me)
LEMMA KeptBitsAre ==
  ASSUME NEW mb \in Bits, NEW me \in Bits
  PROVE  /\ KeptBits(mb, me) \in SUBSET Bits
         /\ mb <= me => KeptBits(mb, me) = mb .. me
         /\ \A b \in Bits : mb > me => (b \in KeptBits(mb, me) <=> b \notin (me + 1) .. (mb - 1))
<1>1. mb \in Nat /\ me \in Nat /\ mb <= 63 /\ me <= 63 /\ Bits = 0 .. 63
  BY FilesAre
<1>2. NoMask(mb, me) <=> (mb = 0 /\ me = 63) \/ me = mb - 1
  BY DEF NoMask, Width
<1>3. Mask(mb, me) = IF mb <= me THEN mb .. me ELSE (0 .. me) \cup (mb .. 63)
  BY DEF Mask, Width
<1>4. CASE mb <= me
  <2>1. NoMask(mb, me) => mb .. me = Bits
    BY <1>1, <1>2, <1>4
  <2>2. KeptBits(mb, me) = mb .. me
    BY <1>3, <1>4, <2>1 DEF KeptBits
  <2>3. mb .. me \in SUBSET Bits
    BY <1>1
  <2> QED BY <1>1, <1>4, <2>2, <2>3
<1>5. CASE mb > me
  <2>1. ASSUME NEW b \in Bits
        PROVE  b \in KeptBits(mb, me) <=> b \notin (me + 1) .. (mb - 1)
    <3>1. CASE NoMask(mb, me)
      <4>1. me = mb - 1
        BY <1>1, <1>2, <3>1, <1>5
      <4> QED BY <1>1, <3>1, <4>1 DEF KeptBits
    <3>2. CASE ~ NoMask(mb, me)
      <4>1. KeptBits(mb, me) = (0 .. me) \cup (mb .. 63)
        BY <1>1, <1>3, <1>5, <3>2 DEF KeptBits
      <4> QED BY <1>1, <1>5, <4>1
    <3> QED BY <3>1, <3>2
  <2>2. KeptBits(mb, me) \in SUBSET Bits
    BY <1>1, <1>3, <1>5 DEF KeptBits
  <2> QED BY <1>1, <1>5, <2>1, <2>2
<1> QED BY <1>1, <1>4, <1>5

(* Registers are registers with some bits of another.                      *)
LEMMA KeptAll ==
  ASSUME NEW V, NEW w \in [Bits -> V]
  PROVE  Kept(w, Bits) = w
BY DEF Kept

(* RLDINM leaves the kept bits of the rotated source in the target.        *)
LEMMA RldinmIs ==
  ASSUME NEW V, Zero \in V, NEW ra \in Data, NEW rs \in Files,
         NEW sh \in Bits, NEW mb \in Bits, NEW me \in Bits
  PROVE  /\ Rldinm(ra, rs, sh, mb, me) \in Seq(Instructed)
         /\ \A regs \in Contents(V) : Runs(Rldinm(ra, rs, sh, mb, me), regs) =
               Put(regs, ra, Kept(Turning(regs[rs], sh), KeptBits(mb, me)))
<1> DEFINE p == Rldinm(ra, rs, sh, mb, me)
           m == Mask(mb, me)
           andi == <<"andi", ra, ra, m>>
           rotate == Rotlrr(ra, rs, sh)
           first == IF sh # 0 \/ ra # rs THEN rotate ELSE <<>>
<1>0. {sh, mb, me} \subseteq Bits /\ ra \in Files
  BY FilesAre
<1>1. p = IF NoMask(mb, me) THEN rotate ELSE first \o <<andi>>
  BY <1>0 DEF Rldinm
<1>2. /\ rotate \in Seq(Instructed)
      /\ \A regs \in Contents(V) : Runs(rotate, regs) = Put(regs, ra, Turning(regs[rs], sh))
  BY RotlrrIs
<1>3. ASSUME NEW regs \in Contents(V)
      PROVE  /\ regs[rs] \in [Bits -> V] /\ Turning(regs[rs], sh) \in [Bits -> V]
             /\ sh = 0 => Turning(regs[rs], sh) = regs[rs]
  <2>1. regs[rs] \in [Bits -> V]
    BY <1>0 DEF Contents
  <2>2. sh \in Nat
    BY FilesAre
  <2> QED BY <2>1, <2>2, Turnings
<1> HIDE DEF p, rotate
<1>4. CASE NoMask(mb, me)
  <2>1. p = rotate /\ KeptBits(mb, me) = Bits
    BY <1>1, <1>4 DEF KeptBits
  <2>2. ASSUME NEW regs \in Contents(V)
        PROVE  Runs(p, regs) = Put(regs, ra, Kept(Turning(regs[rs], sh), KeptBits(mb, me)))
    <3>1. Kept(Turning(regs[rs], sh), Bits) = Turning(regs[rs], sh)
      BY <1>3, KeptAll
    <3> QED BY <1>2, <2>1, <3>1
  <2> QED BY <1>2, <2>1, <2>2 DEF p
<1>5. CASE ~ NoMask(mb, me)
  <2>1. p = first \o <<andi>> /\ KeptBits(mb, me) = m
    BY <1>1, <1>5 DEF KeptBits
  <2>2. m \in SUBSET Bits
    BY <2>1, KeptBitsAre
  <2>3. andi \in Instructed
    BY <1>0, <2>2, Instructions
  <2> HIDE DEF andi, m
  <2>4. <<andi>> \in Seq(Instructed)
    BY <2>3
  <2>5. first \in Seq(Instructed)
        /\ \A regs \in Contents(V) : Runs(first, regs) = Put(regs, ra, Turning(regs[rs], sh))
    <3>1. CASE sh # 0 \/ ra # rs
      BY <1>2, <3>1
    <3>2. CASE sh = 0 /\ ra = rs
      <4>1. first = <<>>
        BY <3>2
      <4> HIDE DEF first
      <4>2. ASSUME NEW regs \in Contents(V)
            PROVE  Runs(first, regs) = Put(regs, ra, Turning(regs[rs], sh))
        <5>1. Turning(regs[rs], sh) = regs[ra] /\ regs[ra] \in [Bits -> V]
          BY <1>3, <3>2
        <5>2. Put(regs, ra, regs[ra]) = regs
          BY <1>0, <5>1, Puts
        <5>3. Runs(first, regs) = regs
          BY <4>1, RunsNone
        <5> QED BY <5>1, <5>2, <5>3
      <4>3. <<>> \in Seq(Instructed)
        OBVIOUS
      <4> QED BY <4>1, <4>2, <4>3
    <3> QED BY <3>1, <3>2
  <2> HIDE DEF first
  <2>6. ASSUME NEW regs \in Contents(V)
        PROVE  Runs(p, regs) = Put(regs, ra, Kept(Turning(regs[rs], sh), m))
    <3> DEFINE w == Turning(regs[rs], sh)
               after == Put(regs, ra, w)
    <3>1. w \in [Bits -> V]
      BY <1>3
    <3> HIDE DEF w
    <3>2. Kept(w, m) \in [Bits -> V]
      BY <3>1, Masks
    <3>3. after \in Contents(V) /\ after[ra] = w /\ Put(after, ra, Kept(w, m)) = Put(regs, ra, Kept(w, m))
      BY <1>0, <3>1, <3>2, Puts
    <3> HIDE DEF after
    <3>4. Runs(first, regs) = after
      BY <2>5 DEF after, w
    <3>5. Step(after, andi) = Put(after, ra, Kept(after[ra], m))
      BY Steps, Zenon DEF andi
    <3>6. Runs(<<andi>>, after) = Step(after, andi)
      BY RunsOne, Zenon
    <3>7. Runs(first \o <<andi>>, regs) = Runs(<<andi>>, Runs(first, regs))
      BY <2>4, <2>5, RunsOn
    <3>8. Runs(p, regs) = Put(regs, ra, Kept(w, m))
      BY <2>1, <3>3, <3>4, <3>5, <3>6, <3>7
    <3> QED BY <3>8 DEF w
  <2>7. p \in Seq(Instructed)
    BY <2>1, <2>4, <2>5
  <2> QED BY <2>1, <2>6, <2>7 DEF p
<1> QED BY <1>4, <1>5

(* A program that is not refused has arguments in range.                   *)
LEMMA RldinmAccepted ==
  ASSUME NEW ra, NEW rs, NEW sh, NEW mb, NEW me, Accepted(Rldinm(ra, rs, sh, mb, me))
  PROVE  sh \in Bits /\ mb \in Bits /\ me \in Bits
BY DEF Accepted, Rldinm

(* The inserted field is that of the rotated source, the rest the target's.*)
LEMMA RldimiIs ==
  ASSUME NEW V, Zero \in V, NEW ra, NEW rs, NEW sh, NEW mb \in Bits, NEW me \in Bits,
         Accepted(Rldimi(ra, rs, sh, mb, me)), NEW regs \in Contents(V)
  PROVE  /\ {ra, rs} = Data /\ sh \in Bits
         /\ Runs(Rldimi(ra, rs, sh, mb, me), regs)[ra] =
               [b \in Bits |-> IF b \in KeptBits(mb, me) THEN regs[rs][(b + sh) % 64] ELSE regs[ra][b]]
<1>1. {ra, rs} = Data
  BY DEF Rldimi, Dxdy, Accepted
<1>2. ra \in Data /\ rs \in Data /\ ra \in Files /\ rs \in Files /\ ra # rs
  BY <1>1, FilesAre
<1>3. ~ ~ Dxdy(ra, rs)
  BY <1>1 DEF Dxdy
<1>4. regs[rs] \in [Bits -> V] /\ regs[ra] \in [Bits -> V]
  BY <1>2 DEF Contents
<1>5. CASE NoMask(mb, me)
  <2>1. Rldimi(ra, rs, sh, mb, me) = Rldinm(ra, rs, sh, 0, 63)
    BY <1>3, <1>5 DEF Rldimi, Rotldi, Width
  <2>2. sh \in Bits /\ 0 \in Bits /\ 63 \in Bits /\ sh \in Nat
    BY <2>1, RldinmAccepted, FilesAre
  <2>3. KeptBits(0, 63) = Bits /\ KeptBits(mb, me) = Bits
    BY <1>5 DEF KeptBits, NoMask, Width
  <2>4. Runs(Rldinm(ra, rs, sh, 0, 63), regs) = Put(regs, ra, Kept(Turning(regs[rs], sh), KeptBits(0, 63)))
    BY <1>2, <2>2, RldinmIs
  <2>5. Turning(regs[rs], sh) \in [Bits -> V]
    BY <1>4, <2>2, Turnings
  <2>6. Kept(Turning(regs[rs], sh), Bits) = Turning(regs[rs], sh)
    BY <2>5, KeptAll
  <2>7. Put(regs, ra, Turning(regs[rs], sh))[ra] = Turning(regs[rs], sh)
    BY <1>2, <2>5, Puts
  <2>8. Runs(Rldimi(ra, rs, sh, mb, me), regs)[ra] = Turning(regs[rs], sh)
    BY <2>1, <2>3, <2>4, <2>6, <2>7
  <2>9. Turning(regs[rs], sh) =
           [b \in Bits |-> IF b \in KeptBits(mb, me) THEN regs[rs][(b + sh) % 64] ELSE regs[ra][b]]
    BY <2>3 DEF Turning
  <2> QED BY <1>1, <2>2, <2>8, <2>9
<1>6. CASE ~ NoMask(mb, me)
  <2> DEFINE p == Rldinm(rs, rs, sh, mb, me)
             m == Mask(mb, me)
             andi == <<"andi", ra, ra, Bits \ m>>
             or == <<"or", ra, "D0", "D1">>
             q == <<andi, or>>
  <2>1. Rldimi(ra, rs, sh, mb, me) = Follow(p, q)
    BY <1>3, <1>6 DEF Rldimi
  <2>2. Accepted(p) /\ Rldimi(ra, rs, sh, mb, me) = p \o q
    <3> HIDE DEF p, q
    <3> QED BY <2>1 DEF Follow, Accepted
  <2>3. sh \in Bits /\ sh \in Nat
    <3>1. sh \in Bits
      BY <2>2, RldinmAccepted
    <3> QED BY <3>1, FilesAre
  <2>4. KeptBits(mb, me) = m
    BY <1>6 DEF KeptBits
  <2>5. /\ p \in Seq(Instructed)
        /\ Runs(p, regs) = Put(regs, rs, Kept(Turning(regs[rs], sh), m))
    BY <1>2, <2>3, <2>4, RldinmIs
  <2>6. andi \in Instructed /\ or \in Instructed
    <3>1. Bits \ m \in SUBSET Bits
      OBVIOUS
    <3> QED BY <1>2, <3>1, Instructions
  <2> DEFINE w == Kept(Turning(regs[rs], sh), m)
             r1 == Put(regs, rs, w)
             v == Kept(r1[ra], Bits \ m)
             r2 == Put(r1, ra, v)
             u == [k \in Bits |-> Combined(r2["D0"][k], r2["D1"][k])]
  <2>7. Turning(regs[rs], sh) \in [Bits -> V]
    BY <1>4, <2>3, Turnings
  <2>8. w \in [Bits -> V]
    BY <2>7, Masks
  <2> HIDE DEF p, m, andi, or
  <2>9. <<andi>> \in Seq(Instructed) /\ <<or>> \in Seq(Instructed) /\ q = <<andi>> \o <<or>>
        /\ q \in Seq(Instructed)
    <3>1. <<andi>> \in Seq(Instructed) /\ <<or>> \in Seq(Instructed)
      BY <2>6
    <3>2. q = <<andi>> \o <<or>>
      BY Pair
    <3>3. q \in Seq(Instructed)
      BY <2>6
    <3> QED BY <3>1, <3>2, <3>3
  <2> HIDE DEF q, w
  <2>10. r1 \in Contents(V) /\ r1[rs] = w /\ r1[ra] = regs[ra] /\ r1[ra] \in [Bits -> V]
    BY <1>2, <1>4, <2>8, Puts
  <2> HIDE DEF r1
  <2>11. v \in [Bits -> V]
    BY <2>10, Masks
  <2> HIDE DEF v
  <2>12. r2 \in Contents(V) /\ r2[ra] = v /\ r2[rs] = w
    BY <1>2, <2>10, <2>11, Puts
  <2> HIDE DEF r2
  <2>13. Runs(p \o q, regs) = Runs(q, Runs(p, regs))
    BY <2>5, <2>9, RunsOn
  <2>14. Runs(p, regs) = r1
    BY <2>5 DEF r1, w
  <2>15. Runs(<<andi>> \o <<or>>, r1) = Runs(<<or>>, Runs(<<andi>>, r1))
    BY <2>9, RunsOn
  <2>16. Runs(<<andi>>, r1) = r2
    <3>1. Step(r1, andi) = Put(r1, ra, Kept(r1[ra], Bits \ m))
      BY Steps, Zenon DEF andi
    <3>2. Runs(<<andi>>, r1) = Step(r1, andi)
      BY RunsOne, Zenon
    <3> QED BY <3>1, <3>2 DEF r2, v
  <2>17. Runs(<<or>>, r2) = Put(r2, ra, u)
    <3>1. Step(r2, or) = Put(r2, ra, u)
      BY Steps, Zenon DEF or, u
    <3> QED BY <3>1, RunsOne, Zenon
  <2>18. \A b \in Bits : u[b] = IF b \in m THEN Turning(regs[rs], sh)[b] ELSE regs[ra][b]
    <3> SUFFICES ASSUME NEW b \in Bits
                 PROVE  u[b] = IF b \in m THEN Turning(regs[rs], sh)[b] ELSE regs[ra][b]
      OBVIOUS
    <3>1. w[b] = IF b \in m THEN Turning(regs[rs], sh)[b] ELSE Zero
      BY DEF w, Kept
    <3>2. v[b] = IF b \in m THEN Zero ELSE regs[ra][b]
      BY <2>10 DEF v, Kept
    <3>3. u[b] = Combined(v[b], w[b]) \/ u[b] = Combined(w[b], v[b])
      <4>1. u[b] = Combined(r2["D0"][b], r2["D1"][b])
        BY DEF u
      <4>2. (ra = "D0" /\ rs = "D1") \/ (ra = "D1" /\ rs = "D0")
        BY <1>2, FilesAre
      <4> QED BY <2>12, <4>1, <4>2
    <3> QED BY <3>1, <3>2, <3>3 DEF Combined, Zero
  <2>19. u = [b \in Bits |-> IF b \in m THEN regs[rs][(b + sh) % 64] ELSE regs[ra][b]]
    <3>1. u = [b \in Bits |-> u[b]]
      BY DEF u
    <3>2. \A b \in Bits : Turning(regs[rs], sh)[b] = regs[rs][(b + sh) % 64]
      BY DEF Turning
    <3> HIDE DEF u
    <3>3. \A b \in Bits : u[b] = IF b \in m THEN regs[rs][(b + sh) % 64] ELSE regs[ra][b]
      BY <2>18, <3>2
    <3> QED BY <3>1, <3>3
  <2>20. u \in [Bits -> V]
    <3>1. \A b \in Bits : (b + sh) % 64 \in Bits
      BY <2>3, FilesAre
    <3> QED BY <1>4, <2>19, <3>1
  <2> HIDE DEF u
  <2>21. Put(r2, ra, u)[ra] = u
    BY <1>2, <2>12, <2>20, Puts
  <2>22. Runs(p \o q, regs)[ra] = u
    BY <2>9, <2>13, <2>14, <2>15, <2>16, <2>17, <2>21
  <2> QED BY <1>1, <2>2, <2>3, <2>4, <2>19, <2>22
<1> QED BY <1>5, <1>6


-----------------------------------------------------------------------------
(* A register holds the bits it is called by at the beginning.             *)
Names == {Zero} \cup {<<r, i>> : r \in Files, i \in Bits}
LEMMA PowerIs ==
  /\ Zero \in Names
  /\ Power \in Contents(Names)
  /\ \A r \in Files : Power[r] \in [Bits -> Names]
  /\ \A r \in Files : \A b \in Bits : Power[r][b] = <<r, b>>
<1>1. \A r \in Files : Power[r] = [i \in Bits |-> <<r, i>>]
  BY FilesAre DEF Power, Value
<1>2. \A r \in Files, i \in Bits : <<r, i>> \in Names
  BY DEF Names
<1>3. \A r \in Files : Power[r] \in [Bits -> Names]
  BY <1>1, <1>2
<1>4. Power = [r \in Files |-> Power[r]]
  BY DEF Power, Files
<1>5. Power \in Contents(Names)
  <2>1. Power \in [Files -> [Bits -> Names]]
    BY <1>3, <1>4
  <2> QED BY <2>1 DEF Contents
<1>6. \A r \in Files : \A b \in Bits : Power[r][b] = <<r, b>>
  BY <1>1
<1>7. Zero \in Names
  BY DEF Names
<1> QED BY <1>3, <1>5, <1>6, <1>7

(* What the two macros leave of the bits of the beginning.                 *)
RotatedBits(rs, kept, sh) == [b \in Bits |-> IF b \in kept THEN <<rs, (b + sh) % 64>> ELSE Zero]
InsertedBits(ra, rs, kept, sh) == [b \in Bits |-> IF b \in kept THEN <<rs, (b + sh) % 64>> ELSE <<ra, b>>]
LEMMA Rotates ==
  ASSUME NEW ra \in Data, NEW rs \in Files, NEW sh, NEW mb, NEW me,
         Accepted(Rldinm(ra, rs, sh, mb, me))
  PROVE  /\ sh \in Bits /\ mb \in Bits /\ me \in Bits
         /\ Result(Rldinm(ra, rs, sh, mb, me), ra) = RotatedBits(rs, KeptBits(mb, me), sh)
<1>1. sh \in Bits /\ mb \in Bits /\ me \in Bits
  BY RldinmAccepted
<1> DEFINE w == Turning(Power[rs], sh)
           p == Rldinm(ra, rs, sh, mb, me)
<1>2. Runs(p, Power) = Put(Power, ra, Kept(w, KeptBits(mb, me)))
  <2>1. Zero \in Names /\ Power \in Contents(Names)
    BY PowerIs
  <2>2. \A regs \in Contents(Names) : Runs(p, regs) =
               Put(regs, ra, Kept(Turning(regs[rs], sh), KeptBits(mb, me)))
    BY <1>1, <2>1, RldinmIs
  <2> QED BY <2>1, <2>2
<1>3. ra \in Files /\ Power[rs] \in [Bits -> Names] /\ sh \in Nat
  <2>1. ra \in Files /\ sh \in Nat
    BY <1>1, FilesAre
  <2>2. Power[rs] \in [Bits -> Names]
    BY PowerIs
  <2> QED BY <2>1, <2>2
<1>4. w \in [Bits -> Names]
  BY <1>3, Turnings
<1>5. \A b \in Bits : w[b] = <<rs, (b + sh) % 64>>
  <2>1. \A b \in Bits : (b + sh) % 64 \in Bits
    BY <1>3, FilesAre
  <2>2. \A b \in Bits : w[b] = Power[rs][(b + sh) % 64]
    BY DEF Turning
  <2> QED BY <2>1, <2>2, PowerIs
<1> HIDE DEF p, w
<1>6. Kept(w, KeptBits(mb, me)) \in [Bits -> Names]
  BY <1>4, PowerIs, Masks
<1>7. Put(Power, ra, Kept(w, KeptBits(mb, me)))[ra] = Kept(w, KeptBits(mb, me))
  BY <1>3, <1>6, PowerIs, Puts
<1>8. Kept(w, KeptBits(mb, me)) = RotatedBits(rs, KeptBits(mb, me), sh)
  BY <1>5 DEF Kept, RotatedBits
<1>9. Result(p, ra) = RotatedBits(rs, KeptBits(mb, me), sh)
  BY <1>2, <1>7, <1>8 DEF Result
<1> QED BY <1>1, <1>9 DEF p

LEMMA Inserts ==
  ASSUME NEW ra, NEW rs, NEW sh, NEW mb \in Bits, NEW me \in Bits,
         Accepted(Rldimi(ra, rs, sh, mb, me))
  PROVE  /\ sh \in Bits
         /\ Result(Rldimi(ra, rs, sh, mb, me), ra) = InsertedBits(ra, rs, KeptBits(mb, me), sh)
<1> DEFINE p == Rldimi(ra, rs, sh, mb, me)
<1>1. /\ {ra, rs} = Data /\ sh \in Bits
      /\ Runs(p, Power)[ra] =
            [b \in Bits |-> IF b \in KeptBits(mb, me) THEN Power[rs][(b + sh) % 64] ELSE Power[ra][b]]
  BY PowerIs, RldimiIs
<1>2. ra \in Files /\ rs \in Files /\ \A b \in Bits : (b + sh) % 64 \in Bits
  BY <1>1, FilesAre
<1>3. \A b \in Bits : Power[rs][(b + sh) % 64] = <<rs, (b + sh) % 64>> /\ Power[ra][b] = <<ra, b>>
  BY <1>2, PowerIs
<1> HIDE DEF p
<1>4. Result(p, ra) = InsertedBits(ra, rs, KeptBits(mb, me), sh)
  BY <1>1, <1>3 DEF Result, InsertedBits
<1> QED BY <1>1, <1>4 DEF p

(* RLDINM rotates and masks.                                               *)
LEMMA RldinmComputes ==
  ASSUME NEW ra \in Data, NEW rs \in Data, NEW sh, NEW mb, NEW me
  PROVE  RotatesAndMasks(ra, rs, sh, mb, me)
<1> DEFINE p == Rldinm(ra, rs, sh, mb, me)
           zero(b) == \/ mb <= me /\ b \notin mb .. me
                      \/ mb > me /\ b \in (me + 1) .. (mb - 1)
<1> SUFFICES ASSUME Accepted(p)
             PROVE  Result(p, ra) = [b \in Bits |->
                       IF mb <= me /\ b \notin mb .. me THEN <<"zero", 0>>
                       ELSE IF mb > me /\ b \in (me + 1) .. (mb - 1) THEN <<"zero", 0>>
                       ELSE <<rs, (b + sh) % 64>>]
  BY DEF RotatesAndMasks, Width
<1>1. rs \in Files
  BY FilesAre
<1>2. /\ sh \in Bits /\ mb \in Bits /\ me \in Bits
      /\ Result(p, ra) = RotatedBits(rs, KeptBits(mb, me), sh)
  BY <1>1, Rotates
<1>3. mb \in 0 .. 63 /\ me \in 0 .. 63
  BY <1>2, FilesAre
<1>4. \A b \in Bits : b \in KeptBits(mb, me) <=> ~ zero(b)
  <2>1. CASE mb <= me
    BY <1>2, <1>3, <2>1, KeptBitsAre
  <2>2. CASE mb > me
    BY <1>2, <1>3, <2>2, KeptBitsAre
  <2> QED BY <1>3, <2>1, <2>2
<1> HIDE DEF p
<1>5. \A b \in Bits : (IF b \in KeptBits(mb, me) THEN <<rs, (b + sh) % 64>> ELSE Zero) =
                       IF mb <= me /\ b \notin mb .. me THEN <<"zero", 0>>
                       ELSE IF mb > me /\ b \in (me + 1) .. (mb - 1) THEN <<"zero", 0>>
                       ELSE <<rs, (b + sh) % 64>>
  BY <1>4 DEF Zero
<1> QED BY <1>2, <1>5 DEF RotatedBits

(* The kept field, when it does not wrap, comes from D bits on.            *)
Moves(sh, mb, me, D) == sh \in Bits => \A b \in mb .. me : b \in Bits => (b + sh) % 64 = b + D
Moved(rs, mb, me, D) == [b \in Bits |-> IF b \in mb .. me THEN <<rs, b + D>> ELSE Zero]
MovedIn(ra, rs, mb, me, D) == [b \in Bits |-> IF b \in mb .. me THEN <<rs, b + D>> ELSE <<ra, b>>]
LEMMA RldinmField ==
  ASSUME NEW ra \in Data, NEW rs \in Data, NEW sh, NEW mb \in Int, NEW me \in Int, NEW D \in Int,
         Accepted(Rldinm(ra, rs, sh, mb, me)), mb <= me,
         Moves(sh, mb, me, D)
  PROVE  Result(Rldinm(ra, rs, sh, mb, me), ra) = Moved(rs, mb, me, D)
<1> DEFINE p == Rldinm(ra, rs, sh, mb, me)
<1>1. rs \in Files
  BY FilesAre
<1>2. /\ sh \in Bits /\ mb \in Bits /\ me \in Bits
      /\ Result(p, ra) = RotatedBits(rs, KeptBits(mb, me), sh)
  BY <1>1, Rotates
<1>3. KeptBits(mb, me) = mb .. me
  BY <1>2, KeptBitsAre
<1> HIDE DEF p
<1>4. \A b \in Bits : b \in mb .. me => (b + sh) % 64 = b + D
  BY <1>2 DEF Moves
<1>5. Result(p, ra) = Moved(rs, mb, me, D)
  BY <1>2, <1>3, <1>4 DEF RotatedBits, Moved
<1> QED BY <1>5 DEF p

LEMMA RldimiField ==
  ASSUME NEW ra, NEW rs, NEW sh, NEW mb \in Bits, NEW me \in Bits, NEW D \in Int,
         Accepted(Rldimi(ra, rs, sh, mb, me)), mb <= me,
         Moves(sh, mb, me, D)
  PROVE  Result(Rldimi(ra, rs, sh, mb, me), ra) = MovedIn(ra, rs, mb, me, D)
<1> DEFINE p == Rldimi(ra, rs, sh, mb, me)
<1>2. /\ sh \in Bits
      /\ Result(p, ra) = InsertedBits(ra, rs, KeptBits(mb, me), sh)
  BY Inserts
<1>3. KeptBits(mb, me) = mb .. me
  BY KeptBitsAre
<1> HIDE DEF p
<1>4. \A b \in Bits : b \in mb .. me => (b + sh) % 64 = b + D
  BY <1>2 DEF Moves
<1>5. Result(p, ra) = MovedIn(ra, rs, mb, me, D)
  BY <1>2, <1>3, <1>4 DEF InsertedBits, MovedIn
<1> QED BY <1>5 DEF p

(* The rotations and shifts.                                               *)
LEMMA ShiftsCompute ==
  ASSUME NEW ra \in Data, NEW rs \in Data, NEW n \in Nat
  PROVE  /\ Accepted(Rotldi(ra, rs, n)) =>
               Result(Rotldi(ra, rs, n), ra) = [k \in Bits |-> <<rs, (k + n) % 64>>]
         /\ Accepted(Rotrdi(ra, rs, n)) =>
               Result(Rotrdi(ra, rs, n), ra) = [k \in Bits |-> <<rs, (k + 64 - n) % 64>>]
         /\ Accepted(Sldi(ra, rs, n)) => Result(Sldi(ra, rs, n), ra) =
               [k \in Bits |-> IF k \in 0 .. 63 - n THEN <<rs, k + n>> ELSE Zero]
         /\ Accepted(Srdi(ra, rs, n)) => Result(Srdi(ra, rs, n), ra) =
               [k \in Bits |-> IF k \in n .. 63 THEN <<rs, k - n>> ELSE Zero]
<1>0. rs \in Files /\ 0 \in Bits /\ 63 \in Bits
  BY FilesAre
<1>a. \A k \in Bits : k \in KeptBits(0, 63)
  <2>1. NoMask(0, 63)
    BY DEF NoMask, Width
  <2> QED BY <2>1 DEF KeptBits
<1>1. ASSUME Accepted(Rotldi(ra, rs, n))
      PROVE  Result(Rotldi(ra, rs, n), ra) = [k \in Bits |-> <<rs, (k + n) % 64>>]
  <2>1. Rotldi(ra, rs, n) = Rldinm(ra, rs, n, 0, 63)
    BY DEF Rotldi, Width
  <2>2. Result(Rldinm(ra, rs, n, 0, 63), ra) = RotatedBits(rs, KeptBits(0, 63), n)
    BY <1>0, <1>1, <2>1, Rotates
  <2> QED BY <1>a, <2>1, <2>2 DEF RotatedBits
<1>2. ASSUME Accepted(Rotrdi(ra, rs, n))
      PROVE  Result(Rotrdi(ra, rs, n), ra) = [k \in Bits |-> <<rs, (k + 64 - n) % 64>>]
  <2> DEFINE sh == 64 - n
  <2>1. Rotrdi(ra, rs, n) = Rldinm(ra, rs, sh, 0, 63)
    BY DEF Rotrdi, Width
  <2>2. \A k \in Bits : k + sh = k + 64 - n
    BY FilesAre
  <2> HIDE DEF sh
  <2>3. Result(Rldinm(ra, rs, sh, 0, 63), ra) = RotatedBits(rs, KeptBits(0, 63), sh)
    BY <1>0, <1>2, <2>1, Rotates
  <2>4. \A k \in Bits : <<rs, (k + sh) % 64>> = <<rs, (k + 64 - n) % 64>>
    BY <2>2
  <2> QED BY <1>a, <2>1, <2>3, <2>4 DEF RotatedBits
<1>3. ASSUME Accepted(Sldi(ra, rs, n))
      PROVE  Result(Sldi(ra, rs, n), ra) =
                [k \in Bits |-> IF k \in 0 .. 63 - n THEN <<rs, k + n>> ELSE Zero]
  <2> DEFINE last == 63 - n
  <2>1. Sldi(ra, rs, n) = Rldinm(ra, rs, n, 0, last)
    BY DEF Sldi, Width
  <2> HIDE DEF last
  <2>2. n \in Bits /\ last \in Bits
    BY <1>3, <2>1, RldinmAccepted
  <2>3. n \in Int /\ last \in Int /\ 0 <= last
    BY <2>2, FilesAre
  <2>4. Moves(n, 0, last, n)
    BY <2>2, FilesAre DEF last, Moves
  <2>5. Result(Rldinm(ra, rs, n, 0, last), ra) = Moved(rs, 0, last, n)
    BY <1>3, <2>1, <2>3, <2>4, RldinmField
  <2> QED BY <2>1, <2>5 DEF last, Moved
<1>4. ASSUME Accepted(Srdi(ra, rs, n))
      PROVE  Result(Srdi(ra, rs, n), ra) =
                [k \in Bits |-> IF k \in n .. 63 THEN <<rs, k - n>> ELSE Zero]
  <2> DEFINE sh == 64 - n
             D == 0 - n
  <2>1. Srdi(ra, rs, n) = Rldinm(ra, rs, sh, n, 63)
    BY DEF Srdi, Width
  <2> HIDE DEF sh
  <2>2. n \in Bits /\ sh \in Bits
    BY <1>4, <2>1, RldinmAccepted
  <2>3. n \in Int /\ D \in Int /\ 63 \in Int /\ n <= 63
    BY <2>2, FilesAre
  <2>4. Moves(sh, n, 63, D)
    BY <2>2, FilesAre DEF sh, Moves
  <2>5. \A b \in n .. 63 : b + D = b - n
    BY <2>2, FilesAre
  <2> HIDE DEF D
  <2>6. Result(Rldinm(ra, rs, sh, n, 63), ra) = Moved(rs, n, 63, D)
    BY <1>4, <2>1, <2>3, <2>4, RldinmField
  <2> QED BY <2>1, <2>5, <2>6 DEF Moved
<1> QED BY <1>1, <1>2, <1>3, <1>4

(* The fields of n bits from bit b on.                                     *)
LEMMA FieldsCompute ==
  ASSUME NEW ra \in Data, NEW rs \in Data, NEW n \in Nat, NEW b \in Nat, n >= 1, b + n <= 64
  PROVE  /\ Accepted(Extldi(ra, rs, n, b)) => Result(Extldi(ra, rs, n, b), ra) =
               [k \in Bits |-> IF k \in 0 .. n - 1 THEN <<rs, b + k>> ELSE Zero]
         /\ Accepted(Extrdi(ra, rs, n, b)) => Result(Extrdi(ra, rs, n, b), ra) =
               [k \in Bits |-> IF k \in 64 - n .. 63 THEN <<rs, k - (64 - n) + b>> ELSE Zero]
         /\ Accepted(Insldi(ra, rs, n, b)) => Result(Insldi(ra, rs, n, b), ra) =
               [k \in Bits |-> IF k \in b .. b + n - 1 THEN <<rs, k - b>> ELSE <<ra, k>>]
         /\ Accepted(Insrdi(ra, rs, n, b)) => Result(Insrdi(ra, rs, n, b), ra) =
               [k \in Bits |-> IF k \in b .. b + n - 1 THEN <<rs, 64 - n + (k - b)>> ELSE <<ra, k>>]
<1>0. ~ (n < 0) /\ b \in Int /\ n \in Int
  OBVIOUS
<1> DEFINE first == 64 - n
           last == b + n - 1
<1>a. /\ n - 1 \in Int /\ 0 <= n - 1 /\ first \in Int /\ 63 \in Int /\ first <= 63
      /\ b \in Bits /\ last \in Bits /\ b <= last
  BY FilesAre
<1>1. ASSUME Accepted(Extldi(ra, rs, n, b))
      PROVE  Result(Extldi(ra, rs, n, b), ra) =
                [k \in Bits |-> IF k \in 0 .. n - 1 THEN <<rs, b + k>> ELSE Zero]
  <2> DEFINE top == n - 1
  <2>1. Extldi(ra, rs, n, b) = Rldinm(ra, rs, b, 0, top)
    BY <1>0 DEF Extldi
  <2>2. Moves(b, 0, top, b)
    BY <1>a, FilesAre DEF Moves
  <2>3. \A k \in 0 .. top : k + b = b + k
    OBVIOUS
  <2>4. top \in Int /\ 0 <= top
    BY <1>a
  <2> HIDE DEF top
  <2>5. Result(Rldinm(ra, rs, b, 0, top), ra) = Moved(rs, 0, top, b)
    BY <1>1, <2>1, <2>2, <2>4, RldinmField
  <2>6. Result(Extldi(ra, rs, n, b), ra) =
           [k \in Bits |-> IF k \in 0 .. top THEN <<rs, b + k>> ELSE Zero]
    BY <2>1, <2>3, <2>5 DEF Moved
  <2> QED BY <2>6 DEF top
<1>2. ASSUME Accepted(Extrdi(ra, rs, n, b))
      PROVE  Result(Extrdi(ra, rs, n, b), ra) =
                [k \in Bits |-> IF k \in 64 - n .. 63 THEN <<rs, k - (64 - n) + b>> ELSE Zero]
  <2> DEFINE sh == (b + n) % 64
             D == b - first
  <2>1. Extrdi(ra, rs, n, b) = Rldinm(ra, rs, sh, first, 63)
    BY <1>0 DEF Extrdi, Width
  <2>2. sh = IF b + n = 64 THEN 0 ELSE b + n
    OBVIOUS
  <2> HIDE DEF sh
  <2>3. Moves(sh, first, 63, D)
    BY <2>2 DEF Moves
  <2>4. D \in Int /\ \A k \in first .. 63 : k + D = k - (64 - n) + b
    OBVIOUS
  <2>5. first \in Int /\ 63 \in Int /\ first <= 63
    BY <1>a
  <2> HIDE DEF D, first
  <2>6. Result(Rldinm(ra, rs, sh, first, 63), ra) = Moved(rs, first, 63, D)
    BY <1>2, <2>1, <2>3, <2>4, <2>5, RldinmField
  <2>7. Result(Extrdi(ra, rs, n, b), ra) =
           [k \in Bits |-> IF k \in first .. 63 THEN <<rs, k - (64 - n) + b>> ELSE Zero]
    BY <2>1, <2>4, <2>6 DEF Moved
  <2> QED BY <2>7 DEF first
<1>3. ASSUME Accepted(Insldi(ra, rs, n, b))
      PROVE  Result(Insldi(ra, rs, n, b), ra) =
                [k \in Bits |-> IF k \in b .. b + n - 1 THEN <<rs, k - b>> ELSE <<ra, k>>]
  <2> DEFINE sh == 64 - b
             D == 0 - b
  <2>1. Insldi(ra, rs, n, b) = Rldimi(ra, rs, sh, b, last)
    BY <1>0 DEF Insldi, Width
  <2>2. Moves(sh, b, last, D)
    BY <1>a, FilesAre DEF Moves
  <2>3. D \in Int /\ \A k \in b .. last : k + D = k - b
    BY <1>a, FilesAre
  <2>0. b \in Bits /\ last \in Bits /\ b <= last
    BY <1>a
  <2> HIDE DEF D, sh, last
  <2>4. Result(Rldimi(ra, rs, sh, b, last), ra) = MovedIn(ra, rs, b, last, D)
    BY <1>3, <2>0, <2>1, <2>2, <2>3, RldimiField
  <2>5. Result(Insldi(ra, rs, n, b), ra) =
           [k \in Bits |-> IF k \in b .. last THEN <<rs, k - b>> ELSE <<ra, k>>]
    BY <2>1, <2>3, <2>4 DEF MovedIn
  <2> QED BY <2>5 DEF last
<1>4. ASSUME Accepted(Insrdi(ra, rs, n, b))
      PROVE  Result(Insrdi(ra, rs, n, b), ra) =
                [k \in Bits |-> IF k \in b .. b + n - 1 THEN <<rs, 64 - n + (k - b)>> ELSE <<ra, k>>]
  <2> DEFINE sh == 64 - b - n
  <2>1. Insrdi(ra, rs, n, b) = Rldimi(ra, rs, sh, b, last)
    BY <1>0 DEF Insrdi, Width
  <2>2. Moves(sh, b, last, sh)
    BY <1>a, FilesAre DEF Moves
  <2>3. sh \in Int /\ \A k \in b .. last : k + sh = 64 - n + (k - b)
    BY <1>a, FilesAre
  <2>0. b \in Bits /\ last \in Bits /\ b <= last
    BY <1>a
  <2> HIDE DEF sh, last
  <2>4. Result(Rldimi(ra, rs, sh, b, last), ra) = MovedIn(ra, rs, b, last, sh)
    BY <1>4, <2>0, <2>1, <2>2, <2>3, RldimiField
  <2>5. Result(Insrdi(ra, rs, n, b), ra) =
           [k \in Bits |-> IF k \in b .. last THEN <<rs, 64 - n + (k - b)>> ELSE <<ra, k>>]
    BY <2>1, <2>3, <2>4 DEF MovedIn
  <2> QED BY <2>5 DEF last
<1> QED BY <1>1, <1>2, <1>3, <1>4

LEMMA ShiftsAndFieldsCompute ==
  ASSUME NEW ra \in Data, NEW rs \in Data, NEW n \in Nat, NEW b \in Nat
  PROVE  ShiftsAndFields(ra, rs, n, b)
BY ShiftsCompute, FieldsCompute DEF ShiftsAndFields, Field, Cleared, Zero, Width

(* The tests of the engine, of the return code and of its bound.           *)
LEMMA EnginesDecide ==
  \A e, f \in DOMAIN Engine : Teb(e, Engine[f]) = (e = f) /\ Tebn(e, Engine[f]) = (e # f)
<1>1. DOMAIN Engine = {"GPE0", "GPE1", "SLW", "SBE"}
  BY DEF Engine
<1>2. Engine["GPE0"] = {} /\ Engine["GPE1"] = {63} /\ Engine["SLW"] = {60} /\ Engine["SBE"] = {61}
  BY DEF Engine
<1>3. /\ {} \cap (60 .. 63) = {} /\ 63 \in {63} \cap (60 .. 63) /\ 60 \in {60} \cap (60 .. 63)
      /\ 61 \in {61} \cap (60 .. 63)
  OBVIOUS
<1>4. SUFFICES ASSUME NEW e \in DOMAIN Engine, NEW f \in DOMAIN Engine
               PROVE  Teb(e, Engine[f]) = (e = f) /\ Tebn(e, Engine[f]) = (e # f)
  OBVIOUS
<1>5. CASE e = "GPE0"
  BY <1>1, <1>2, <1>3, <1>5 DEF Teb, Tebn, Branches
<1>6. CASE e = "GPE1"
  BY <1>1, <1>2, <1>6 DEF Teb, Tebn, Branches
<1>7. CASE e = "SLW"
  BY <1>1, <1>2, <1>7 DEF Teb, Tebn, Branches
<1>8. CASE e = "SBE"
  BY <1>1, <1>2, <1>8 DEF Teb, Tebn, Branches
<1> QED BY <1>1, <1>4, <1>5, <1>6, <1>7, <1>8

LEMMA BoundsDecide ==
  ASSUME NEW code \in Int, NEW bound \in Int
  PROVE  /\ Tprcbgt(code, bound) = (code > bound)
         /\ Tprcble(code, bound) = (code <= bound)
         /\ Taken("tfbuge", Comparison(code, bound)) = (code >= bound)
         /\ Taken("tfbeq", Comparison(code, bound)) = (code = bound)
<1> DEFINE C == Comparison(code, bound)
<1>1. /\ 48 \in C <=> code > bound
      /\ 49 \in C <=> code < bound
      /\ 55 \in C <=> code = bound
  BY DEF Comparison, Flag
<1> HIDE DEF C
<1>2. \A k : ((C \cap {k}) # {}) <=> k \in C
  OBVIOUS
<1>3. /\ Tests["tfbugt"] = <<"UGT", TRUE>> /\ Tests["tfbule"] = <<"UGT", FALSE>>
      /\ Tests["tfbuge"] = <<"ULT", FALSE>> /\ Tests["tfbeq"] = <<"Z", TRUE>>
      /\ Flag["UGT"] = 48 /\ Flag["ULT"] = 49 /\ Flag["Z"] = 55
  BY DEF Tests, Flag
<1>4. /\ Taken("tfbugt", C) = (48 \in C) /\ Taken("tfbule", C) = (48 \notin C)
      /\ Taken("tfbuge", C) = (49 \notin C) /\ Taken("tfbeq", C) = (55 \in C)
  BY <1>2, <1>3 DEF Taken, Tfb, Tfbn, Branches
<1> QED BY <1>1, <1>4 DEF Tprcbgt, Tprcble, C

(* EXTRPRC moves bits 32 to 35 of IFR to the end.                          *)
LEMMA ExtrprcExtracts ==
  ASSUME NEW dest \in Data
  PROVE  Result(Extrprc(dest), dest) = [b \in Bits |-> IF b \in 60 .. 63 THEN <<"IFR", b - 28>> ELSE Zero]
<1> DEFINE mr == <<"mr", dest, "IFR">>
           p == Rldinm(dest, dest, 36, 60, 63)
           w == Power["IFR"]
           after == Put(Power, dest, w)
           v == Kept(Turning(w, 36), KeptBits(60, 63))
<1>1. dest \in Files /\ "IFR" \in Files /\ 36 \in Bits /\ 60 \in Bits /\ 63 \in Bits /\ 36 \in Nat
  BY FilesAre
<1>2. Extrprc(dest) = <<mr>> \o p
  BY DEF Extrprc, Extrdi, Width
<1>3. mr \in Instructed
  BY <1>1, Instructions
<1>4. w \in [Bits -> Names] /\ \A b \in Bits : w[b] = <<"IFR", b>>
  BY <1>1, PowerIs
<1>5. p \in Seq(Instructed)
      /\ \A regs \in Contents(Names) :
            Runs(p, regs) = Put(regs, dest, Kept(Turning(regs[dest], 36), KeptBits(60, 63)))
  BY <1>1, PowerIs, RldinmIs
<1>6. Runs(<<mr>>, Power) = after
  <2>1. Step(Power, mr) = after
    BY Steps, Zenon
  <2> QED BY <2>1, RunsOne, Zenon
<1> HIDE DEF mr, p, w
<1>7. <<mr>> \in Seq(Instructed)
  BY <1>3
<1>8. Runs(<<mr>> \o p, Power) = Runs(p, Runs(<<mr>>, Power))
  <2>1. p \in Seq(Instructed)
    BY <1>5
  <2> QED BY <1>7, <2>1, RunsOn, Zenon
<1>9. after \in Contents(Names) /\ after[dest] = w
  BY <1>1, <1>4, PowerIs, Puts
<1> HIDE DEF after
<1>10. Runs(p, after) = Put(after, dest, v)
  BY <1>5, <1>9
<1>11. Turning(w, 36) \in [Bits -> Names] /\ KeptBits(60, 63) = 60 .. 63
  <2>1. Turning(w, 36) \in [Bits -> Names]
    BY <1>1, <1>4, Turnings
  <2>2. KeptBits(60, 63) = 60 .. 63
    BY <1>1, KeptBitsAre
  <2> QED BY <2>1, <2>2
<1>12. v \in [Bits -> Names]
  BY <1>11, PowerIs, Masks
<1>13. v = [b \in Bits |-> IF b \in 60 .. 63 THEN <<"IFR", b - 28>> ELSE Zero]
  <2>1. \A b \in Bits : b \in 60 .. 63 => Turning(w, 36)[b] = <<"IFR", b - 28>>
    <3> SUFFICES ASSUME NEW b \in Bits, b \in 60 .. 63
                 PROVE  Turning(w, 36)[b] = <<"IFR", b - 28>>
      OBVIOUS
    <3>1. (b + 36) % 64 = b - 28 /\ b - 28 \in Bits
      BY FilesAre
    <3> QED BY <1>4, <3>1 DEF Turning
  <2> QED BY <1>11, <2>1 DEF Kept
<1> HIDE DEF v
<1>14. Put(after, dest, v)[dest] = v
  BY <1>1, <1>9, <1>12, Puts
<1> QED BY <1>2, <1>6, <1>8, <1>10, <1>13, <1>14 DEF Result

(* Every macro of pgas.h that the model runs, the rotations, shifts and    *)
(* fields of every pair of data registers and by every number, the tests   *)
(* of the engine, of the flags and of the PIB's return code, computes what *)
(* it is named for, or is refused by the assembler.                        *)
THEOREM MacrosAreRight == MacroSpec => []MacrosCompute
<1>1. macro = MacroIdle => MacrosCompute
  BY DEF MacroIdle, MacrosCompute
<1>2. MacrosCompute /\ [UseMacro]_macro => MacrosCompute'
  <2> SUFFICES ASSUME MacrosCompute, [UseMacro]_macro
               PROVE  MacrosCompute'
    OBVIOUS
  <2>1. CASE UNCHANGED macro
    BY <2>1 DEF MacrosCompute
  <2>2. CASE UseMacro
    <3>1. PICK ra \in Data, rs \in Data, n \in Shifts, b \in Shifts :
             \/ \E me \in Shifts :
                   macro' = [name |-> "rldinm", ra |-> ra, rs |-> rs, sh |-> n, mb |-> b, me |-> me]
             \/ macro' = [name |-> "tests"]
             \/ macro' = [name |-> "shift", ra |-> ra, rs |-> rs, n |-> n, b |-> b]
      BY <2>2 DEF UseMacro
    <3>2. n \in Nat /\ b \in Nat
      BY MacroAssumption
    <3>3. ASSUME NEW me \in Shifts,
                 macro' = [name |-> "rldinm", ra |-> ra, rs |-> rs, sh |-> n, mb |-> b, me |-> me]
          PROVE  MacrosCompute'
      <4>1. RotatesAndMasks(ra, rs, n, b, me)
        BY RldinmComputes
      <4> QED BY <3>3, <4>1 DEF MacrosCompute
    <3>4. CASE macro' = [name |-> "tests"]
      <4>1. TestsDecide
        BY EnginesDecide, BoundsDecide, ExtrprcExtracts, MacroAssumption
           DEF TestsDecide, Field, Cleared, Zero
      <4> QED BY <3>4, <4>1 DEF MacrosCompute
    <3>5. CASE macro' = [name |-> "shift", ra |-> ra, rs |-> rs, n |-> n, b |-> b]
      <4>1. ShiftsAndFields(ra, rs, n, b)
        BY <3>2, ShiftsAndFieldsCompute
      <4> QED BY <3>5, <4>1 DEF MacrosCompute
    <3> QED BY <3>1, <3>3, <3>4, <3>5
  <2> QED BY <2>1, <2>2
<1> QED BY <1>1, <1>2, PTL DEF MacroSpec
=============================================================================
