------------------------------ MODULE RingScan ------------------------------
(***************************************************************************)
(* What becomes of a scan ring: the difference of its flush and its wanted *)
(* state (p8_image_help.C), the RS4 code of the difference                 *)
(* (p8_scan_compression.C), and the two programs that scan it into the     *)
(* hardware, the decompressor of the SBE (proc_sbe_decompress_scan.S) and  *)
(* the wiggle-flip program generated for the SLW engine.                   *)
(*                                                                         *)
(* A string of bits is its length and the set of its ones; a nibble is the *)
(* number of its four bits.  Bits after the length may be dirty.           *)
(***************************************************************************)
EXTENDS Integers, Sequences, FiniteSets

CONSTANTS
    Rings,          \* the rings, as [length, init, alter, flush, poll, file]
    Overlays,       \* the rings with a datacare ring, as [length, vpd, data, care]
    MaxRotate,      \* MAX_ROTATE_BITS of the decompressor
    ScanMaxRotate,  \* i_scanMaxRotate of the wiggle-flip program
    MaxLong,        \* SCAN_MAX_ROTATE_LONG, where it polls
    LongBits        \* the width of a long where p8_delta_scan_w runs

ASSUME RotateAssumption == LongBits \in {32, 64} /\ MaxRotate \in Nat \ {0} /\ {ScanMaxRotate, MaxLong} \subseteq Nat \ (0 .. 31)

VARIABLE job   \* the ring at hand

Least(a, b) == IF a < b THEN a ELSE b
WordCount(length) == (length + 31) \div 32
UpTo(length) == 0 .. length - 1
Xor(u, v) == (u \ v) \cup (v \ u)
Delta(init, alter, length) == Xor(init, alter) \cap UpTo(length)

(***************************************************************************)
(* p8_delta_scan_w has its own: it reads the two states from files that    *)
(* must be of one length, the last word by strtol from its bits, which     *)
(* ends at the greatest long, and masks the words it compares.             *)
(***************************************************************************)
WordBits(s, i, length) == {k \in 0 .. 31 : 32 * i + k < length /\ 32 * i + k \in s}
ReadWord(s, i, length) ==
    IF LongBits = 32 /\ 32 * (i + 1) = length /\ 32 * i \in s THEN 1 .. 31 ELSE WordBits(s, i, length)
FileDelta(init, alter, length) ==
    LET mask(i) == 0 .. Least(length - 32 * i, 32) - 1
        words == 0 .. WordCount(length) - 1
    IN  UNION {{32 * i + k : k \in Xor(ReadWord(init, i, length), ReadWord(alter, i, length)) \cap mask(i)} : i \in words}

(* p8_delta_scan_r writes the difference to a file: whole bytes, then the  *)
(* bits of the last.                                                       *)
Saved(s, length) ==
    LET whole == (length - 1) \div 8
    IN  {b \in s : b < 8 * whole} \cup {8 * whole + k : k \in {j \in 0 .. length - 8 * whole - 1 : 8 * whole + j \in s}}

-----------------------------------------------------------------------------
(***************************************************************************)
(* RS4: whole nibbles in turns of rotate, a stop code of how many are      *)
(* zero, and scan, how many follow and then these; a scan of none ends the *)
(* string, and the number of bits that remain comes with their nibble.     *)
(***************************************************************************)
Nibble(s, i) == (IF 4 * i \in s THEN 8 ELSE 0) + (IF 4 * i + 1 \in s THEN 4 ELSE 0)
                + (IF 4 * i + 2 \in s THEN 2 ELSE 0) + (IF 4 * i + 3 \in s THEN 1 ELSE 0)
Weights == <<8, 4, 2, 1>>
NibbleBits(v) == {b \in 0 .. 3 : (v \div Weights[b + 1]) % 2 = 1}

StopEncode(count) ==
    LET high[c \in 0 .. count] == IF c = 0 THEN <<>> ELSE high[c \div 8] \o <<c % 8>>
    IN  high[count \div 8] \o <<8 + (count % 8)>>

ZeroRun(s, i, n) == CHOOSE z \in 0 .. n - i : /\ \A k \in i .. i + z - 1 : Nibble(s, k) = 0
                                              /\ i + z = n \/ Nibble(s, i + z) # 0
(* A run ends after 15 nibbles and before two that are zero.               *)
RunEnds(s, i, k, n) == k = 15 \/ i + k = n \/ (i + k + 1 < n /\ Nibble(s, i + k) = 0 /\ Nibble(s, i + k + 1) = 0)
ScanRun(s, i, n) == CHOOSE d \in 1 .. 15 : RunEnds(s, i, d, n) /\ \A k \in 1 .. d - 1 : ~ RunEnds(s, i, k, n)

Onward(s, i, n) == i + ZeroRun(s, i, n)
TurnCode(s, i, n) ==
    LET j == Onward(s, i, n)
        d == ScanRun(s, j, n)
    IN  StopEncode(j - i) \o <<d>> \o [k \in 1 .. d |-> Nibble(s, j + k - 1)]
EndCode(s, i, n, r) == StopEncode(n - i) \o <<0, r>> \o (IF r = 0 THEN <<>> ELSE <<Nibble(s, n)>>)
Compressed(s, length) ==
    LET n == length \div 4
        from[i \in 0 .. n] ==
            LET j == Onward(s, i, n)
            IN  IF j = n THEN EndCode(s, i, n, length % 4) ELSE TurnCode(s, i, n) \o from[j + ScanRun(s, j, n)]
    IN  from[0]

(* The container: a header of 24 bytes, and padding to 8.                  *)
ContainerBytes(nibbles) == (((nibbles + 1) \div 2 + 24 + 7) \div 8) * 8
Container(s, length) ==
    LET code == Compressed(s, length)
    IN  [code |-> code, length |-> length, bytes |-> ContainerBytes(Len(code))]

(* Reading the code back from one of its nibbles: the value of a stop code *)
(* and the turn it begins, then the turns up to the end.                   *)
Stop(code, i) == CHOOSE j \in i .. Len(code) : code[j] >= 8 /\ \A k \in i .. j - 1 : code[k] < 8
StopDecode(code, i) ==
    LET value[k \in i - 1 .. Stop(code, i)] == IF k < i THEN 0 ELSE 8 * value[k - 1] + (code[k] % 8)
    IN  value[Stop(code, i)]
Turn(code, i) ==
    LET j == Stop(code, i) + 1
    IN  [rotate |-> StopDecode(code, i), scan |-> SubSeq(code, j + 1, j + code[j]), next |-> j + code[j] + 1]

FirstTurn == [next |-> 1, at |-> 0, ones |-> {}, ends |-> FALSE]
Placed(scan, at) == UNION {{4 * (at + k - 1) + b : b \in NibbleBits(scan[k])} : k \in DOMAIN scan}
DecodedTurn(code, so) ==
    LET turn == Turn(code, so.next)
        at == so.at + turn.rotate
    IN  IF so.ends THEN so
        ELSE [next |-> turn.next, at |-> at + Len(turn.scan), ones |-> so.ones \cup Placed(turn.scan, at), ends |-> turn.scan = <<>>]
Bulk(code) ==
    LET after[k \in 0 .. Len(code)] == IF k = 0 THEN FirstTurn ELSE DecodedTurn(code, after[k - 1])
    IN  after[Len(code)]
Decompressed(c) ==
    LET bulk == Bulk(c.code)
        r == c.code[bulk.next]
        last == IF r = 0 THEN {} ELSE {4 * bulk.at + b : b \in NibbleBits(c.code[bulk.next + 1])}
    IN  IF 4 * bulk.at + r # c.length THEN [rc |-> "SIZE_ERROR", ones |-> {}] ELSE [rc |-> "OK", ones |-> bulk.ones \cup last]

(* A ring is redundant if the first rotate is all of it but its last bits, *)
(* and these are zero.                                                     *)
Redundant(c) ==
    LET j == Stop(c.code, 1) + 1
        length == 4 * StopDecode(c.code, 1)
        r == c.code[j + 1]
        redundant == c.code[j] = 0 /\ (r = 0 \/ c.code[j + 2] = 0)
    IN  [redundant |-> redundant,
         rc |-> IF length > c.length \/ (redundant /\ length + r # c.length) THEN "SIZE_ERROR" ELSE "OK"]

-----------------------------------------------------------------------------
(***************************************************************************)
(* The hardware: a ring whose 32 bits at the head are the scan data        *)
(* register.  An operation changes the register and rotates the ring.      *)
(***************************************************************************)
CheckWord == {0, 2, 5, 7, 9, 11, 12, 14, 16 + 1, 16 + 3, 16 + 4, 16 + 6, 16 + 9, 16 + 11, 16 + 12, 16 + 14}
Register(hw) == {k \in 0 .. 31 : (hw.at + k) % hw.length \in hw.ones}
Loaded(hw, v) ==
    [hw EXCEPT !.ones = (@ \ {(hw.at + k) % hw.length : k \in 0 .. 31}) \cup {(hw.at + k) % hw.length : k \in v}]
Turned(hw, n) == [hw EXCEPT !.at = (@ + n) % hw.length]
Operate(hw, op) ==
    CASE op[1] = "rotate" -> Turned(hw, op[2])
      [] op[1] = "write"  -> Turned(Loaded(hw, op[2]), op[3])
      [] op[1] = "xor"    -> Turned(Loaded(hw, Xor(Register(hw), op[2])), op[3])
      [] op[1] = "keep"   -> Turned(Loaded(hw, (Register(hw) \cap (op[3] .. 31)) \cup op[2]), op[3])
Run(hw, ops) ==
    LET ran[k \in 0 .. Len(ops)] == IF k = 0 THEN hw ELSE Operate(ran[k - 1], ops[k])
    IN  ran[Len(ops)]
Hardware(ring) == [length |-> ring.length, ones |-> ring.init \cap UpTo(ring.length), at |-> 0]
Marked(ring) == Loaded(Hardware(ring), CheckWord)

(* The decompressor of the SBE takes a nibble at a time, and rotates no    *)
(* more than MAX_ROTATE_BITS at once.  Its register may be written rather  *)
(* than changed while 32 bits or more remain after the run.                *)
Rotated(hw, n) ==
    LET rotated[k \in 0 .. n] == IF k <= MaxRotate THEN Turned(hw, k) ELSE Turned(rotated[k - MaxRotate], MaxRotate)
    IN  rotated[n]
ScannedTurn(c, flush, so) ==
    LET turn == Turn(c.code, so.next)
        left == so.left - 4 * (turn.rotate + Len(turn.scan))
        way == IF flush /\ left >= 32 THEN "write" ELSE "xor"
        ops == [k \in DOMAIN turn.scan |-> <<way, NibbleBits(turn.scan[k]), 4>>]
    IN  IF so.ends THEN so
        ELSE [next |-> turn.next, left |-> left, hw |-> Run(Rotated(so.hw, 4 * turn.rotate), ops), ends |-> turn.scan = <<>>]
DecompressedInto(c, ring) ==
    LET start == [next |-> 1, left |-> c.length, hw |-> Marked(ring), ends |-> FALSE]
        after[k \in 0 .. Len(c.code)] == IF k = 0 THEN start ELSE ScannedTurn(c, ring.flush, after[k - 1])
        bulk == after[Len(c.code)]
        r == c.code[bulk.next]
    IN  [left |-> bulk.left - r,
         hw |-> IF r = 0 THEN bulk.hw ELSE Operate(bulk.hw, <<"xor", NibbleBits(c.code[bulk.next + 1]), r>>)]
Doublewords(c) == (c.bytes - 24) \div 8
ScanError(hw, left, c) ==
    CASE Register(hw) # CheckWord -> "checkword_error"
      [] (Len(c.code) + 15) \div 16 # Doublewords(c) -> "data_size_error"
      [] left # 0 -> "ring_length_error"
      [] OTHER -> "none"

(* The wiggle-flip program takes a word at a time.                         *)
MutantFlip(s, i, ring) ==
    LET shift == Least(ring.length - 32 * i, 32)
        v == WordBits(s, i, ring.length)
    IN  IF ring.flush THEN <<"write", v, shift>> ELSE <<"xor", v, shift>>
Flip(s, i, ring) ==
    LET shift == Least(ring.length - 32 * i, 32)
        v == WordBits(s, i, ring.length)
    IN  IF ~ ring.flush THEN <<"xor", v, shift>> ELSE IF shift < 32 THEN <<"keep", v, shift>> ELSE <<"write", v, shift>>
Rotation(n) == IF n = 0 THEN <<>> ELSE <<<<"rotate", n>>>>
AfterWord(so, i, s, ring) ==
    LET turn == so.rotate + Least(ring.length - 32 * i, 32)
        most == IF ring.poll THEN MaxLong ELSE ScanMaxRotate
        over == IF ring.poll THEN turn >= most ELSE turn > most
    IN  IF WordBits(s, i, ring.length) # {}
        THEN [ops |-> so.ops \o Rotation(so.rotate) \o <<Flip(s, i, ring)>>, rotate |-> 0]
        ELSE IF over THEN [ops |-> so.ops \o Rotation(most), rotate |-> turn - most]
        ELSE [so EXCEPT !.rotate = turn]
WiggleFlip(s, ring) ==
    LET words[i \in 0 .. WordCount(ring.length)] ==
            IF i = 0 THEN [ops |-> <<>>, rotate |-> 0] ELSE AfterWord(words[i - 1], i - 1, s, ring)
        all == words[WordCount(ring.length)]
    IN  all.ops \o Rotation(all.rotate)

-----------------------------------------------------------------------------
(***************************************************************************)
(* The datacare overlay: the bits of the VPD ring that are cared for come  *)
(* from the data.  The datacare ring is the data followed by the care, of  *)
(* which words and bytes are put together from two parts; whole words      *)
(* while more than 64 bits remain.                                         *)
(***************************************************************************)
Datacare(o) == (o.data \cap UpTo(o.length)) \cup {o.length + b : b \in o.care \cap UpTo(o.length)}
WholeWords(length) == IF length <= 64 THEN 0 ELSE (length - 64 + 31) \div 32
(* The shift by 32 of a word, when the length is whole words, is undefined *)
(* and leaves either nothing of the word or all of it.                     *)
CareWord(dc, length, i, kept) ==
    LET first == 32 * (length \div 32 + i)
    IN  {k \in 0 .. 31 : \/ first + (length % 32) + k \in dc
                         \/ length % 32 = 0 /\ kept /\ first + 32 + k \in dc}
CareByte(dc, length, i) ==
    LET first == 32 * (length \div 32) + 8 * i
        here == IF length - 8 * i > 8 THEN 0 .. 7 ELSE 0 .. 7 - (length % 8)
    IN  {k \in here : first + (length % 8) + k \in dc}
Care(o, kept) ==
    LET words == WholeWords(o.length)
        bytes == 4 * words .. (o.length + 7) \div 8 - 1
    IN  (UNION {{32 * i + k : k \in CareWord(Datacare(o), o.length, i, kept)} : i \in 0 .. words - 1})
        \cup (UNION {{8 * i + k : k \in CareByte(Datacare(o), o.length, i)} : i \in bytes})
(* The last byte of the data goes on into the care, and is taken whole.    *)
TakenData(o) == {b \in Datacare(o) : b < 8 * ((o.length + 7) \div 8)}
MutantOverlaid(o, kept) ==
    IF TakenData(o) \subseteq Care(o, kept) THEN [rc |-> "OK", ones |-> o.vpd \cup TakenData(o)]
    ELSE [rc |-> "DATACARE_RING_MESS", ones |-> {}]
Overlaid(o, kept) ==
    IF TakenData(o) \subseteq Care(o, kept) THEN [rc |-> "OK", ones |-> (o.vpd \ Care(o, kept)) \cup TakenData(o)]
    ELSE [rc |-> "DATACARE_RING_MESS", ones |-> {}]

-----------------------------------------------------------------------------
(***************************************************************************)
(* A ring holds the register, none of whose bits is changed, and is all    *)
(* zeros where it is flushed; an overlay cares for none of these bits.     *)
(***************************************************************************)
ASSUME RingAssumption ==
    /\ Rings \subseteq [length : Nat, init : SUBSET Nat, alter : SUBSET Nat, flush : BOOLEAN, poll : BOOLEAN, file : BOOLEAN]
    /\ \A r \in Rings :
          r.length >= 32 /\ Delta(r.init, r.alter, r.length) \cap (0 .. 31) = {} /\ (r.flush => r.init \cap UpTo(r.length) = {})
ASSUME OverlayAssumption ==
    /\ Overlays \subseteq [length : Nat, vpd : SUBSET Nat, data : SUBSET Nat, care : SUBSET Nat]
    /\ \A o \in Overlays :
          o.length >= 32 /\ o.vpd \subseteq UpTo(o.length) /\ o.data \cup o.care \subseteq 32 .. o.length - 1

-----------------------------------------------------------------------------
(***************************************************************************)
(* The steps a ring takes.                                                 *)
(***************************************************************************)
Idle == [step |-> "idle"]
TakeRing == job = Idle /\ \E r \in Rings : job' = [step |-> "taken", ring |-> r]
CalcDelta ==
    /\ job.step = "taken"
    /\ job' = [step |-> "delta", ring |-> job.ring, delta |-> Delta(job.ring.init, job.ring.alter, job.ring.length)]
CalcFileDelta ==    \* p8_delta_scan_w
    /\ job.step = "taken"
    /\ \E same \in BOOLEAN :
          job' = IF ~ same THEN [step |-> "refused", ring |-> job.ring]
                 ELSE [step |-> "delta", ring |-> [job.ring EXCEPT !.file = TRUE],
                       delta |-> FileDelta(job.ring.init, job.ring.alter, job.ring.length)]
Compress ==
    /\ job.step = "delta"
    /\ job' = [step |-> "compressed", ring |-> job.ring, container |-> Container(job.delta, job.ring.length)]
DecompressScan ==   \* the SBE's way
    /\ job.step = "compressed"
    /\ LET into == DecompressedInto(job.container, job.ring)
       IN  job' = [step |-> "scanned", ring |-> job.ring, hw |-> into.hw,
                   error |-> ScanError(into.hw, into.left, job.container)]
Decompress ==       \* the SLW engine's way
    /\ job.step = "compressed" /\ Decompressed(job.container).rc = "OK"
    /\ job' = [step |-> "raw", ring |-> job.ring, delta |-> Decompressed(job.container).ones]
SaveDelta ==        \* p8_delta_scan_r
    /\ job.step = "compressed" /\ Decompressed(job.container).rc = "OK"
    /\ job' = [step |-> "saved", ring |-> job.ring,
               delta |-> Saved(Decompressed(job.container).ones, job.ring.length)]
CreateWiggleFlip ==
    /\ job.step = "raw"
    /\ job' = [step |-> "program", ring |-> job.ring, ops |-> WiggleFlip(job.delta, job.ring)]
RunWiggleFlip ==
    /\ job.step = "program"
    /\ LET hw == Run(Marked(job.ring), job.ops)
       IN  job' = [step |-> "scanned", ring |-> job.ring, hw |-> hw,
                   error |-> IF Register(hw) = CheckWord THEN "none" ELSE "checkword_error"]
TakeOverlay == job = Idle /\ \E o \in Overlays : job' = [step |-> "overlay", overlay |-> o]
Overlay ==
    /\ job.step = "overlay"
    /\ \E kept \in BOOLEAN :
          LET done == Overlaid(job.overlay, kept)
          IN  job' = [step |-> "overlaid", overlay |-> job.overlay, rc |-> done.rc,
                      container |-> Container(done.ones, job.overlay.length)]

RingInit == job = Idle
RingStep ==
    CalcDelta \/ CalcFileDelta \/ Compress \/ DecompressScan \/ Decompress \/ SaveDelta \/ CreateWiggleFlip \/ RunWiggleFlip \/ Overlay
RingNext == TakeRing \/ TakeOverlay \/ RingStep
RingSpec == RingInit /\ [][RingNext]_job

-----------------------------------------------------------------------------
(* A ring that is scanned ends with the wanted bits, whichever program     *)
(* scans it, and the check word comes back to the register.  On the way    *)
(* its code gives its bits back, is redundant exactly if there are none,   *)
(* and is no longer than one nibble more than the worst case; saved again, *)
(* it is the difference.  Rings read from files are such if a long holds   *)
(* their last word.                                                        *)
AsRead(ring) ==
    ring.file /\ LongBits = 32 /\ ring.length % 32 = 0 => ring.length - 32 \notin ring.init \cup ring.alter
RingsReach ==
    /\ job.step = "scanned" /\ AsRead(job.ring) =>
        /\ job.error = "none" /\ job.hw.at = 0
        /\ job.hw.ones \ (0 .. 31) = (job.ring.alter \cap UpTo(job.ring.length)) \ (0 .. 31)
    /\ job.step = "saved" /\ AsRead(job.ring) => job.delta = Delta(job.ring.init, job.ring.alter, job.ring.length)
    /\ job.step = "compressed" /\ AsRead(job.ring) =>
        LET delta == Delta(job.ring.init, job.ring.alter, job.ring.length)
        IN  /\ Decompressed(job.container) = [rc |-> "OK", ones |-> delta]
            /\ Redundant(job.container) = [rc |-> "OK", redundant |-> delta = {}]
            /\ Len(job.container.code) <= (((job.ring.length + 3) \div 4 + 14) \div 15) * 17 + 3

(* The overlay replaces the bits that are cared for and no other, and is   *)
(* refused exactly if it has data without care, where its two parts are    *)
(* put together as they were taken apart, which is up to 4 bits more than  *)
(* whole words, in rings that care for none of their first 32 bits.        *)
Exact(length) == length % 32 \in 1 .. 4
DatacareReplaces ==
    job.step = "overlaid" /\ Exact(job.overlay.length) =>
        LET o == job.overlay
        IN  IF o.data \subseteq o.care
            THEN /\ job.rc = "OK"
                 /\ Decompressed(job.container).ones \cap UpTo(o.length) = (o.vpd \ o.care) \cup o.data
            ELSE job.rc = "DATACARE_RING_MESS"
=============================================================================
