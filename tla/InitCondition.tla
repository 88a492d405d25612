--------------------------- MODULE InitCondition ---------------------------
(***************************************************************************)
(* What ifScrubber makes of the fragment of a spy in an initfile: whether  *)
(* its condition holds for the chip at hand, so that the spy is static,    *)
(* and which of its value lines apply (ifScrubInitfile.C).                 *)
(*                                                                         *)
(* The chip is [ec, mode, type, env].  A condition is [when, groups]: each *)
(* group is a sequence of the sides of a logical or, each side a sequence  *)
(* of clauses; a group of one side is an and.  A clause is [on, op, value, *)
(* name, flip], flipped if its operand, a value or a name, is on the left; *)
(* values below 0 and the name "?" cannot be read.  Ors within ors, which  *)
(* the code takes from the inside out, are left out.                       *)
(***************************************************************************)
EXTENDS Integers, Sequences, FiniteSets, TLC
LOCAL INSTANCE SequencesExt

RiskLevel == 0
Current(chip, on) ==
    CASE on = "IPLMODE" -> chip.mode [] on = "PU_CHIP_TYPE" -> chip.type [] on = "avpTestCase" -> "NONE"
Readable(c) ==
    CASE c.on \in {"ec", "RISK_LEVEL"} -> c.value >= 0
      [] c.on = "IPLMODE" -> c.name \in {"HBI", "RUNTIME"}
      [] c.on = "PU_CHIP_TYPE" -> c.name \in {"MURANO", "VENICE", "NAPLES"}
      [] OTHER -> c.on = "avpTestCase"

Compare(l, op, r) ==
    \/ op = "<" /\ l < r
    \/ op = ">" /\ l > r
    \/ op = "<=" /\ l <= r
    \/ op = ">=" /\ l >= r
    \/ op = "==" /\ l = r
    \/ op = "!=" /\ l # r
Equate(l, op, r) == (op = "==" /\ l = r) \/ (op = "!=" /\ l # r)
Holds(chip, c) ==
    CASE c.on = "ec" -> IF c.flip THEN Compare(c.value, c.op, chip.ec) ELSE Compare(chip.ec, c.op, c.value)
      [] c.on = "RISK_LEVEL" -> Equate(RiskLevel, c.op, c.value)
      [] OTHER -> Equate(Current(chip, c.on), c.op, c.name)

(* Logical or: a side with a clause that is false for this chip is         *)
(* deleted, the left one first.  Only clauses with the value on the right  *)
(* are recognised, and a clause with a hexadecimal value lends this value  *)
(* to the ec clauses after it.                                             *)
NamedFalse(chip, c) ==
    /\ ~ c.flip
    /\ \/ c.on = "RISK_LEVEL" /\ ~ Equate(RiskLevel, c.op, c.value)
       \/ c.on \in {"IPLMODE", "PU_CHIP_TYPE", "avpTestCase"} /\ ~ Equate(Current(chip, c.on), c.op, c.name)
EcFalse(chip, side, i) ==
    /\ side[i].on \in {"ec", "RISK_LEVEL"} /\ ~ side[i].flip
    /\ \E j \in i .. Len(side) :
          side[j].on = "ec" /\ ~ side[j].flip /\ ~ Compare(chip.ec, side[j].op, side[i].value)
SideFalse(chip, side) == \E i \in DOMAIN side : NamedFalse(chip, side[i]) \/ EcFalse(chip, side, i)

(* The sides that are left; more than one is a failure.  The flag that     *)
(* says a side is false is not initialised: it may delete the first one.   *)
SidesLeft(chip, group, flag) ==
    LET sides == IF flag /\ Len(group) > 1 THEN Tail(group) ELSE group
        standing == SelectSeq(sides, LAMBDA s : ~ SideFalse(chip, s))
    IN  IF Len(sides) = 1 THEN sides ELSE IF standing = <<>> THEN <<Last(sides)>> ELSE standing
FirstOr(cond) == {g \in DOMAIN cond.groups : /\ Len(cond.groups[g]) > 1
                                             /\ \A h \in 1 .. g - 1 : Len(cond.groups[h]) = 1}
Reduced(chip, cond, flag) ==
    [g \in DOMAIN cond.groups |-> SidesLeft(chip, cond.groups[g], flag /\ g \in FirstOr(cond))]

(* What is left is a sequence of clauses, of which the line parser, which  *)
(* stops at 8 tokens, sees three.  They are decided up to the first that   *)
(* is false or cannot be read.                                             *)
MaxClauses == 3
Clauses(groups) == FoldLeft(LAMBDA cs, g : cs \o g[1], <<>>, groups)
Seen(clauses) == SubSeq(clauses, 1, IF Len(clauses) < MaxClauses THEN Len(clauses) ELSE MaxClauses)
Decide(chip, clauses) ==
    LET clause(d, c) == IF d # "static" THEN d
                        ELSE IF ~ Readable(c) THEN "fatal" ELSE IF Holds(chip, c) THEN "static" ELSE "no"
    IN  FoldLeft(clause, "static", clauses)
MatchConditionAndEc(chip, cond, flag) ==
    LET groups == Reduced(chip, cond, flag)
    IN  IF \E g \in DOMAIN groups : Len(groups[g]) > 1 THEN "fatal"
        ELSE IF cond.when \notin {"L", "C"} THEN "fatal" ELSE Decide(chip, Seen(Clauses(groups)))

(* The meaning of a condition.                                             *)
Meaning(chip, cond) ==
    \A g \in DOMAIN cond.groups : \E s \in DOMAIN cond.groups[g] :
        \A i \in DOMAIN cond.groups[g][s] : Holds(chip, cond.groups[g][s][i])

-----------------------------------------------------------------------------
(***************************************************************************)
(* The value lines.  A line is [guard, name, op, arg, level, value],      *)
(*   "none"  VALUE;              "any"  VALUE, any;                        *)
(*   "env"   VALUE, def, any;    "freq" VALUE, def, (frequency == n);      *)
(*   "def"   VALUE, (def == n);  "mode" VALUE, (IPLMODE == m);             *)
(*   "ec"    VALUE, (ec op n);   "avp"  VALUE, (avpTestCase op c);         *)
(* A guard follows an enum or bare bits.  The value of an espy is [enum],  *)
(* that of an ispy [kind, first, bits]: "bare" bits, or those from the     *)
(* first on, or an expression, which is "bad".  known maps the definitions read so far to their values.         *)
(***************************************************************************)
NotKnown == ""
Defined(known, d) == IF d \in DOMAIN known THEN known[d] ELSE NotKnown
NamesDefine(line) == line.guard \in {"env", "freq", "def"}
Looked(known, line) == IF NamesDefine(line) THEN known @@ (line.name :> NotKnown) ELSE known
Filters(spy) == spy.format \in {"expr", "env"}

(* An espy takes the first line that applies, or the last of those without *)
(* a guard.  The filter looks at the fourth token, so a line that has none *)
(* always applies.  A guard where the format has no column for it is an    *)
(* error.                                                                  *)
EspyApplies(chip, value, line) ==
    LET mode == IF line.guard = "mode" THEN line.arg ELSE NotKnown
    IN  \/ line.guard \in {"none", "any", "env"}
        \/ value = chip.env
        \/ line.guard = "mode" /\ mode = chip.mode
        \/ line.guard = "def" /\ value = line.arg
EspyLine(chip, spy, acc, line) ==
    LET value == IF NamesDefine(line) THEN Defined(acc.known, line.name) ELSE NotKnown
    IN  IF acc.included THEN acc
        ELSE IF line.guard # "none" /\ ~ Filters(spy) THEN [acc EXCEPT !.last = NotKnown, !.error = TRUE]
        ELSE LET tried == [acc EXCEPT !.known = Looked(@, line), !.last = value]
             IN  IF EspyApplies(chip, value, line)
                 THEN [tried EXCEPT !.enum = line.value.enum, !.included = line.guard # "none"]
                 ELSE tried

(* An ispy takes the first line that applies, and after it those with a    *)
(* bit range.  A range is valid only if it makes the buffer longer; its    *)
(* bits are set in any case.  The value of a definition stays for the      *)
(* lines of the spies that follow.  The names of the test cases are        *)
(* compared with the parenthesis that follows them, so no such line ever   *)
(* applies, and ec == always does.                                         *)
BitsOf(value) == value.first .. value.first + Len(value.bits) - 1
SetBuffer(data, value) ==
    LET top == value.first + Len(value.bits)
        grows == value.kind = "bare" \/ top > data.length
    IN  [data EXCEPT !.length = IF top > @ THEN top ELSE @,
                     !.valid = IF grows THEN @ \cup BitsOf(value) ELSE @,
                     !.ones = (@ \ BitsOf(value)) \cup {b \in BitsOf(value) : value.bits[b - value.first + 1] = 1}]
HasColon(line) == line.value.kind = "bits" /\ Len(line.value.bits) > 1
IspyApplies(chip, value, line) ==
    CASE NamesDefine(line) -> value = chip.env
      [] line.guard = "ec" -> line.op = "==" \/ Compare(chip.ec, line.op, line.level)
      [] line.guard = "avp" -> FALSE
      [] line.guard = "mode" -> value = chip.env \/ line.arg = chip.mode \/ value = line.arg
      [] OTHER -> TRUE
IspyLine(chip, acc, line) ==
    LET value == IF NamesDefine(line) THEN Defined(acc.known, line.name) ELSE acc.last
        tried == [acc EXCEPT !.known = Looked(@, line), !.last = value]
    IN  IF acc.error \/ (acc.included /\ ~ HasColon(line)) THEN acc
        ELSE IF ~ IspyApplies(chip, value, line) THEN tried
        ELSE IF line.value.kind = "bad" THEN [tried EXCEPT !.error = TRUE]
        ELSE [tried EXCEPT !.included = TRUE, !.data = SetBuffer(@, line.value)]

(* What a spy is found to be: a value, none for this chip, or an error; an *)
(* espy's value is a name.                                                 *)
NoEnum == ""
NoData == [length |-> 0, valid |-> {}, ones |-> {}]
Spied(chip, known, last, spy) ==
    LET blank == [known |-> known, last |-> last, included |-> FALSE, error |-> FALSE, enum |-> NoEnum, data |-> NoData]
    IN  IF spy.type = "espy" THEN FoldLeft(LAMBDA acc, line : EspyLine(chip, spy, acc, line), blank, spy.lines)
        ELSE FoldLeft(LAMBDA acc, line : IspyLine(chip, acc, line), blank, spy.lines)
HasValue(spy, spied) ==
    IF spy.type = "espy" THEN spied.enum # NoEnum ELSE ~ spied.error /\ (spied.included \/ ~ Filters(spy))
=============================================================================
