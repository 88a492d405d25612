-------------------------------- MODULE Pgas --------------------------------
(***************************************************************************)
(* pgas.h: the registers and opcodes of the PORE as its assembler names    *)
(* them, and the macros that build what the PORE has no instruction for,   *)
(* rotation by any number, masks, tests of flags and of the engine, from   *)
(* the instructions that it has.                                           *)
(*                                                                         *)
(* A bit of a data register is zero or the bit of the register it came     *)
(* from, so that one run of a macro stands for its runs on all values.     *)
(***************************************************************************)
EXTENDS Integers, Sequences

Width == 64
Bits == 0 .. Width - 1

RegisterNumber == [P0 |-> 0, P1 |-> 1, A0 |-> 2, A1 |-> 3, CTR |-> 4, D0 |-> 5, D1 |-> 6,
                   EMR |-> 7, ETR |-> 9, SPRG0 |-> 10, PC |-> 14, IFR |-> 15]
Registers == DOMAIN RegisterNumber
Data == {"D0", "D1"}

-----------------------------------------------------------------------------
(***************************************************************************)
(* The instructions, on the data registers and IFR.                        *)
(***************************************************************************)
Zero64 == [i \in Bits |-> <<"zero", 0>>]
Value(reg) == [i \in Bits |-> <<reg, i>>]
Power == [r \in {"D0", "D1", "IFR"} |-> Value(r)]

Combined(u, v) == IF u = <<"zero", 0>> THEN v ELSE IF v = <<"zero", 0>> THEN u ELSE <<"mixed", 0>>
Step(regs, i) ==
    CASE i[1] = "mr"   -> [regs EXCEPT ![i[2]] = regs[i[3]]]
      [] i[1] = "rols" -> [regs EXCEPT ![i[2]] = [b \in Bits |-> regs[i[3]][(b + i[4]) % Width]]]
      [] i[1] = "andi" -> [regs EXCEPT ![i[2]] = [b \in Bits |-> IF b \in i[4] THEN regs[i[3]][b] ELSE <<"zero", 0>>]]
      [] i[1] = "or"   -> [regs EXCEPT ![i[2]] = [b \in Bits |-> Combined(regs["D0"][b], regs["D1"][b])]]
Runs(program, regs) ==
    LET ran[k \in 0 .. Len(program)] == IF k = 0 THEN regs ELSE Step(ran[k - 1], program[k])
    IN  ran[Len(program)]

(***************************************************************************)
(* Shift and mask mnemonics.  An argument out of range is an error of the  *)
(* assembler, which makes no program.                                      *)
(***************************************************************************)
Refused == <<"error">>
Accepted(program) == program # Refused
Follow(p, q) == IF Accepted(p) /\ Accepted(q) THEN p \o q ELSE Refused

Largest(sh) == CHOOSE n \in {1, 4, 8, 16, 32} : n <= sh /\ \A m \in {1, 4, 8, 16, 32} : m <= sh => m <= n
Rotlr(ra, sh) ==
    LET rest[n \in 0 .. Width] == IF n = 0 THEN <<>>
                                  ELSE <<<<"rols", ra, ra, Largest(n)>>>> \o rest[n - Largest(n)]
    IN  rest[sh]
Rotlrr(ra, rs, sh) ==
    IF sh = 0 THEN <<<<"mr", ra, rs>>>>
    ELSE <<<<"rols", ra, rs, Largest(sh)>>>> \o Rotlr(ra, sh - Largest(sh))

MutantMask(mb, me) == IF mb <= me THEN mb .. me ELSE 0 .. mb - 1 \cup me .. Width - 1
Mask(mb, me) == IF mb <= me THEN mb .. me ELSE 0 .. me \cup mb .. Width - 1
NoMask(mb, me) == (mb = 0 /\ me = Width - 1) \/ me = mb - 1

Rldinm(ra, rs, sh, mb, me) ==
    IF ~ {sh, mb, me} \subseteq Bits THEN Refused
    ELSE IF NoMask(mb, me) THEN Rotlrr(ra, rs, sh)
    ELSE (IF sh # 0 \/ ra # rs THEN Rotlrr(ra, rs, sh) ELSE <<>>) \o <<<<"andi", ra, ra, Mask(mb, me)>>>>

Extldi(ra, rs, n, b) == IF n < 0 THEN Refused ELSE Rldinm(ra, rs, b, 0, n - 1)
Extrdi(ra, rs, n, b) == IF n < 0 THEN Refused ELSE Rldinm(ra, rs, (b + n) % Width, Width - n, Width - 1)
Rotldi(ra, rs, n) == Rldinm(ra, rs, n, 0, Width - 1)
Rotrdi(ra, rs, n) == Rldinm(ra, rs, Width - n, 0, Width - 1)
Sldi(ra, rs, n) == Rldinm(ra, rs, n, 0, Width - 1 - n)
Srdi(ra, rs, n) == Rldinm(ra, rs, Width - n, n, Width - 1)

(* RLDIMI destroys RS.                                                     *)
Dxdy(ra, rs) == {ra, rs} = Data
Rldimi(ra, rs, sh, mb, me) ==
    IF ~ Dxdy(ra, rs) THEN Refused
    ELSE IF NoMask(mb, me) THEN Rotldi(ra, rs, sh)
    ELSE Follow(Rldinm(rs, rs, sh, mb, me),
                <<<<"andi", ra, ra, Bits \ Mask(mb, me)>>, <<"or", ra, "D0", "D1">>>>)
Insldi(ra, rs, n, b) == IF n < 0 THEN Refused ELSE Rldimi(ra, rs, Width - b, b, b + n - 1)
Insrdi(ra, rs, n, b) == IF n < 0 THEN Refused ELSE Rldimi(ra, rs, Width - b - n, b, b + n - 1)

-----------------------------------------------------------------------------
(***************************************************************************)
(* The tests of IFR: the engine in its last bits, the condition codes, and *)
(* the parity and return code of the PIB in bits 32 to 35.                 *)
(***************************************************************************)
Flag == [UGT |-> 48, ULT |-> 49, SGT |-> 50, SLT |-> 51, C |-> 52, V |-> 53, N |-> 54, Z |-> 55]
Engine == [GPE0 |-> {}, GPE1 |-> {63}, SLW |-> {60}, SBE |-> {61}]

Branches(ifr, mask, nonzero) == ((ifr \cap mask) # {}) = nonzero   \* mr, andi, and branz or braz
Tfb(ifr, flag) == Branches(ifr, {Flag[flag]}, TRUE)
Tfbn(ifr, flag) == Branches(ifr, {Flag[flag]}, FALSE)
Tests == [tfbcs |-> <<"C", TRUE>>, tfbcc |-> <<"C", FALSE>>, tfbvs |-> <<"V", TRUE>>, tfbvc |-> <<"V", FALSE>>,
          tfbns |-> <<"N", TRUE>>, tfbnc |-> <<"N", FALSE>>, tfbeq |-> <<"Z", TRUE>>, tfbne |-> <<"Z", FALSE>>,
          tfbult |-> <<"ULT", TRUE>>, tfbule |-> <<"UGT", FALSE>>, tfbuge |-> <<"ULT", FALSE>>,
          tfbugt |-> <<"UGT", TRUE>>, tfbslt |-> <<"SLT", TRUE>>, tfbsle |-> <<"SGT", FALSE>>,
          tfbsge |-> <<"SLT", FALSE>>, tfbsgt |-> <<"SGT", TRUE>>]
Taken(test, ifr) == IF Tests[test][2] THEN Tfb(ifr, Tests[test][1]) ELSE Tfbn(ifr, Tests[test][1])

Teb(engine, ifr) ==
    IF engine = "GPE0" THEN Branches(ifr, 60 .. 63, FALSE) ELSE Branches(ifr, Engine[engine], TRUE)
Tebn(engine, ifr) ==
    IF engine = "GPE0" THEN Branches(ifr, 60 .. 63, TRUE) ELSE Branches(ifr, Engine[engine], FALSE)

(* The flags the hardware sets for a - b, here of small numbers.           *)
Comparison(a, b) ==
    {Flag[f] : f \in {f \in {"UGT", "SGT"} : a > b} \cup {f \in {"ULT", "SLT"} : a < b}
                     \cup {f \in {"Z"} : a = b}}

(* EXTRPRC, and the tests of the return code for zero and against a bound. *)
Extrprc(dest) == <<<<"mr", dest, "IFR">>>> \o Extrdi(dest, dest, 4, 32)
Tprcbz(code) == code = 0
Tprcbgt(code, bound) == Taken("tfbugt", Comparison(code, bound))
Tprcble(code, bound) == Taken("tfbule", Comparison(code, bound))
=============================================================================
