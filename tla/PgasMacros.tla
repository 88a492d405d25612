----------------------------- MODULE PgasMacros -----------------------------
(***************************************************************************)
(* What the macros of pgas.h promise, for every call of them.              *)
(***************************************************************************)
EXTENDS Pgas

CONSTANTS
    Shifts,   \* the rotations and bit numbers the macros are called with
    Codes     \* the return codes and bounds of the tests of the PIB

ASSUME MacroAssumption == Shifts \subseteq Nat /\ Codes \subseteq Int

VARIABLE macro   \* the macro at hand, with its arguments

(***************************************************************************)
(* What they promise, bit by bit.  Where a field would go past the last    *)
(* bit the mnemonics do not say what they do, and none bit is inserted by  *)
(* replacing all of them.                                                  *)
(***************************************************************************)
Result(program, ra) == Runs(program, Power)[ra]
Field(first, last, Source(_), Rest(_)) == [b \in Bits |-> IF b \in first .. last THEN Source(b) ELSE Rest(b)]
Cleared(b) == <<"zero", 0>>

RotatesAndMasks(ra, rs, sh, mb, me) ==
    LET rotated(b) == <<rs, (b + sh) % Width>>
    IN  Accepted(Rldinm(ra, rs, sh, mb, me)) =>
            Result(Rldinm(ra, rs, sh, mb, me), ra) = [b \in Bits |->
                IF mb <= me /\ b \notin mb .. me THEN <<"zero", 0>>
                ELSE IF mb > me /\ b \in (me + 1) .. (mb - 1) THEN <<"zero", 0>> ELSE rotated(b)]

ShiftsAndFields(ra, rs, n, b) ==
    LET right(k) == <<rs, k - n>>
        left(k)  == <<rs, k + n>>
        same(k)  == <<ra, k>>
        is(program, v) == Accepted(program) => Result(program, ra) = v
    IN  /\ is(Rotldi(ra, rs, n), [k \in Bits |-> <<rs, (k + n) % Width>>])
        /\ is(Rotrdi(ra, rs, n), [k \in Bits |-> <<rs, (k + Width - n) % Width>>])
        /\ is(Sldi(ra, rs, n), Field(0, Width - 1 - n, left, Cleared))
        /\ is(Srdi(ra, rs, n), Field(n, Width - 1, right, Cleared))
        /\ n >= 1 /\ b + n <= Width =>
            /\ is(Extldi(ra, rs, n, b), Field(0, n - 1, LAMBDA k : <<rs, b + k>>, Cleared))
            /\ is(Extrdi(ra, rs, n, b), Field(Width - n, Width - 1, LAMBDA k : <<rs, k - (Width - n) + b>>, Cleared))
            /\ is(Insldi(ra, rs, n, b), Field(b, b + n - 1, LAMBDA k : <<rs, k - b>>, same))
            /\ is(Insrdi(ra, rs, n, b), Field(b, b + n - 1, LAMBDA k : <<rs, Width - n + (k - b)>>, same))

(* The tests of the engine and of the PIB's return code.                   *)
TestsDecide ==
    /\ \A e, f \in DOMAIN Engine : Teb(e, Engine[f]) = (e = f) /\ Tebn(e, Engine[f]) = (e # f)
    /\ \A dest \in Data : Result(Extrprc(dest), dest) = Field(60, 63, LAMBDA b : <<"IFR", b - 28>>, Cleared)
    /\ \A code, bound \in Codes : /\ Tprcbgt(code, bound) = (code > bound)
                                  /\ Tprcble(code, bound) = (code <= bound)
                                  /\ Taken("tfbuge", Comparison(code, bound)) = (code >= bound)
                                  /\ Taken("tfbeq", Comparison(code, bound)) = (code = bound)

-----------------------------------------------------------------------------
(***************************************************************************)
(* One macro after another.                                                *)
(***************************************************************************)
MacroIdle == [name |-> "none"]
UseMacro ==
    /\ macro = MacroIdle
    /\ \E ra, rs \in Data, n, b \in Shifts :
          \/ \E me \in Shifts : macro' = [name |-> "rldinm", ra |-> ra, rs |-> rs, sh |-> n, mb |-> b, me |-> me]
          \/ macro' = [name |-> "tests"]
          \/ macro' = [name |-> "shift", ra |-> ra, rs |-> rs, n |-> n, b |-> b]
MacroSpec == macro = MacroIdle /\ [][UseMacro]_macro

-----------------------------------------------------------------------------
(* A mnemonic computes what it says on every value of its operands, and    *)
(* the tests of the flags and of the engine decide what they are named     *)
(* for.                                                                    *)
MacrosCompute ==
    /\ macro.name = "rldinm" => RotatesAndMasks(macro.ra, macro.rs, macro.sh, macro.mb, macro.me)
    /\ macro.name = "shift" => ShiftsAndFields(macro.ra, macro.rs, macro.n, macro.b)
    /\ macro.name = "tests" => TestsDecide
=============================================================================
