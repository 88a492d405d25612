------------------------------ MODULE MCScrub ------------------------------
(***************************************************************************)
(* Initfiles, lists of excluded rings, a spydef and a scandef for the      *)
(* scrubber.                                                               *)
(***************************************************************************)
EXTENDS Integers, Sequences, FiniteSets, TLC

Define(n, form, v) == [kind |-> "define", name |-> n, form |-> form, value |-> v]
End == [kind |-> "END_INITFILE"]
ASpy(type, names, format, cond, lines) ==
    [kind |-> "spy", type |-> type, names |-> names, format |-> format, cond |-> cond, lines |-> lines]
Clause(on, op, v) == [on |-> on, op |-> op, value |-> v, name |-> "", flip |-> FALSE]
Named(on, op, n) == [on |-> on, op |-> op, value |-> 0, name |-> n, flip |-> FALSE]
Flipped(c) == [c EXCEPT !.flip = TRUE]
When(w, groups) == [when |-> w, groups |-> groups]
One(c) == << <<c>> >>

Old == Clause("ec", "<", 32)
New == Clause("ec", ">=", 32)
Murano == Named("PU_CHIP_TYPE", "==", "MURANO")
Venice == Named("PU_CHIP_TYPE", "==", "VENICE")
Runtime == Named("IPLMODE", "==", "RUNTIME")
NoRisk == Clause("RISK_LEVEL", "==", 0)
NoAvp == Named("avpTestCase", "==", "NONE")
Always == When("L", <<>>)
SomeConditions ==
    {Always, When("X", <<>>), When("L", <<One(New)>>), When("C", <<One(Runtime), One(Flipped(Clause("ec", "<=", 16)))>>),
     When("L", <<One(Clause("ec", ">=", -1))>>), When("L", <<<< <<Murano>>, <<Venice, New>> >>>>),
     When("L", <<One(NoRisk), << <<Venice>>, <<NoRisk, Old>> >>>>), When("L", <<<< <<Murano>>, <<New>> >>>>),
     When("L", <<One(NoAvp), One(Murano), One(New)>>), When("L", <<One(NoAvp), One(Murano), One(New), One(Runtime)>>)}

Bare(bits) == [kind |-> "bare", first |-> 0, bits |-> bits]
Bits(first, bits) == [kind |-> "bits", first |-> first, bits |-> bits]
Bad == [kind |-> "bad", first |-> 0, bits |-> <<>>]
Enum(e) == [enum |-> e]
Line(guard, name, op, arg, v) == [guard |-> guard, name |-> name, op |-> op, arg |-> arg, level |-> 16, value |-> v]
Plain(v) == Line("none", "", "", "", v)

Alpha(cond) == ASpy("ispy", <<"alpha">>, "spyv", cond, <<Plain(Bare(<<1, 0, 1, 0, 0, 1, 1, 0, 1>>))>>)
AlphaBits(lines) == ASpy("ispy", <<"alpha">>, "bits", Always, lines)
Beta(format, lines) == ASpy("espy", <<"beta">>, format, Always, lines)
Fans == ASpy("ispy", <<"fan0", "fan1">>, "spyv", Always, <<Plain(Bare(<<1, 0>>))>>)
Wide(type) == ASpy(type, <<type \o "wide">>, "spyv", Always,
                   <<Plain(IF type = "espy" THEN Enum("ON") ELSE Bare(<<1, 1, 0, 1>>))>>)
Groups == ASpy("ispy", <<"groups">>, "spyv", When("L", <<One(Murano)>>), <<Plain(Bare(<<1, 0, 1>>))>>)
Twin == ASpy("ispy", <<"twin">>, "spyv", Always, <<Plain(Bare(<<0>>))>>)
Lost == ASpy("ispy", <<"nowhere">>, "spyv", Always, <<Plain(Bare(<<1>>))>>)

FirstSpies ==
    {Alpha(c) : c \in SomeConditions}
    \cup {AlphaBits(ls) : ls \in {<<Plain(Bits(2, <<1, 1>>)), Plain(Bits(5, <<1, 0, 1>>))>>, <<>>, <<Plain(Bad)>>,
                                  <<Plain(Bits(5, <<1, 1>>)), Plain(Bits(0, <<0, 1>>))>>,
                                  <<Plain(Bits(1, <<1>>)), Plain(Bits(3, <<0, 1>>)), Plain(Bits(2, <<1, 1>>)), Plain(Bits(6, <<0>>))>>,
                                  <<Plain(Bare(<<0, 1, 0>>)), Plain(Bits(1, <<0, 1>>)), Plain(Bits(2, <<0, 1, 0>>)),
                                    Plain(Bare(<<1, 1>>))>>}}
    \cup {ASpy("ispy", <<"alpha">>, "unsupported", Always, <<>>)}
SecondSpies ==
    {Beta("spyv", <<Plain(Enum("ON"))>>), Beta("spyv", <<Plain(Enum("NONE"))>>), Beta("spyv", <<Line("any", "", "", "", Enum("ON"))>>),
     Beta("expr", <<Line("mode", "", "", "HBI", Enum("ON")), Line("def", "def_m", "", "0", Enum("OFF"))>>),
     Beta("env", <<Line("freq", "def_u", "", "", Enum("ON")), Line("env", "def_x", "", "", Enum("OFF"))>>),
     ASpy("ispy", <<"fan0", "fan1">>, "expr", Always,
          <<Line("ec", "", ">", "", Bare(<<0, 1>>)), Line("env", "def_x", "", "", Bare(<<1, 1>>))>>),
     ASpy("ispy", <<"fan0", "fan1">>, "expr", Always,
          <<Line("avp", "", "==", "NONE", Bare(<<0, 0>>)), Line("mode", "", "", "HBI", Bare(<<1, 0>>)),
            Line("ec", "", "==", "", Bare(<<0, 1>>))>>)}
ThirdSpies == {Fans, Wide("ispy"), Wide("espy"), Groups, Twin, Lost}
Initfiles ==
    {<<Define("def_x", "literal", "W"), Define("def_m", "mode", "HBI"), Define("def_u", "other", ""), a, b>> :
        a \in FirstSpies, b \in SecondSpies}
    \cup {<<Define("def_x", "literal", "W"), a, End, b, c>> :
        a \in {Alpha(Always), Twin}, b \in SecondSpies \cup {Alpha(When("L", <<One(New)>>))}, c \in ThirdSpies}

OtherInitfiles == {<<Alpha(Always)>> \o more : more \in {<<>>, <<Beta("spyv", <<Plain(Enum("NONE"))>>)>>, <<Fans>>, <<Twin>>}}

Latch(n, at, inv) == [count |-> n, at |-> at, inv |-> inv, dead |-> FALSE, bad |-> FALSE]
Dead(n) == [count |-> n, at |-> 0, inv |-> FALSE, dead |-> TRUE, bad |-> FALSE]
Unparsed == [count |-> 0, at |-> 0, inv |-> FALSE, dead |-> FALSE, bad |-> TRUE]
Zone(in, ring, lines) == [in |-> in, ring |-> ring, lines |-> lines]
At(n, at) == [count |-> n, at |-> at]
Eplatches(name, even, zones) == [kind |-> "eplatches", name |-> name, even |-> even, zones |-> zones]
In(ring, lines) == [ring |-> ring, lines |-> lines]
Spydef(name, groups, sections, enums, checkers) ==
    [kind |-> "spy", name |-> name, groups |-> groups, sections |-> sections, enums |-> enums, checkers |-> checkers]
Enums == ("ON" :> <<1, 0>>) @@ ("OFF" :> <<0, 1>>)
SomeSpydef ==
    <<Spydef("alpha", FALSE, <<In("ex_func", <<Latch(4, 40, FALSE), Dead(2), Latch(3, 50, TRUE)>>)>>, <<>>, {"ep_a"}),
      Spydef("beta", FALSE, <<In("ex_func", <<Latch(2, 60, FALSE)>>)>>, Enums, {"ep_b"}),
      Spydef("fan0", FALSE, <<In("ex_func", <<Latch(2, 70, FALSE)>>)>>, <<>>, {}),
      Spydef("fan1", FALSE, <<In("ex_gptr", <<Latch(1, 33, TRUE), Latch(1, 35, FALSE)>>)>>, <<>>, {"ep_c"}),
      Spydef("ispywide", FALSE, <<In("ex_gptr", <<Latch(2, 36, FALSE)>>), In("ex_func", <<Latch(2, 75, FALSE)>>)>>, <<>>, {}),
      Spydef("espywide", FALSE, <<In("ex_gptr", <<Latch(1, 37, FALSE)>>), In("ex_func", <<Latch(1, 76, FALSE)>>)>>, Enums, {}),
      Spydef("groups", TRUE, <<In("ex_gptr", <<Latch(2, 32, FALSE), Latch(1, 34, FALSE)>>), In("ex_gptr", <<Latch(3, 38, FALSE)>>)>>,
             <<>>, {}),
      Spydef("twin", FALSE, <<In("ex_func", <<Latch(1, 42, FALSE)>>)>>, <<>>, {}),
      Eplatches("ep_b", TRUE, <<Zone(TRUE, "ex_func", <<At(4, 60)>>), Zone(FALSE, "ex_func", <<At(1, 64)>>)>>),
      Eplatches("ep_c", FALSE, <<Zone(TRUE, "ex_gptr", <<At(2, 35), At(1, 33)>>), Zone(FALSE, "ex_gptr", <<At(1, 32)>>)>>),
      Eplatches("ep_a", FALSE, <<Zone(TRUE, "ex_func", <<At(1, 40), At(1, 41)>>), Zone(FALSE, "ex_func", <<At(1, 66)>>)>>)>>
(* Latches in of two rings, and a line that cannot be parsed.              *)
OtherSpydef ==
    <<Spydef("alpha", FALSE, <<In("ex_gptr", <<Latch(4, 8, FALSE)>>), In("ex_func", <<Latch(5, 50, TRUE)>>)>>, <<>>, {"ep_a"}),
      Spydef("twin", FALSE, <<In("ex_func", <<Unparsed, Latch(1, 42, FALSE)>>)>>, <<>>, {}),
      Spydef("beta", FALSE, <<In("ex_func", <<Latch(2, 60, FALSE)>>)>>, Enums, {}),
      Spydef("fan0", FALSE, <<In("ex_func", <<Latch(2, 70, FALSE)>>)>>, <<>>, {}),
      Spydef("fan1", FALSE, <<In("ex_gptr", <<Latch(2, 33, TRUE)>>)>>, <<>>, {}),
      Eplatches("ep_a", TRUE, <<Zone(TRUE, "ex_func", <<At(5, 50)>>), Zone(TRUE, "ex_gptr", <<At(4, 8)>>),
                                Zone(FALSE, "ex_gptr", <<At(1, 12)>>)>>)>>
RingIs(ring, length, inv, ends) ==
    [ring |-> ring, core |-> ring # "ex_mode", gptr |-> ring = "ex_gptr", length |-> length, inv |-> inv, ends |-> ends]
SomeScandef ==
    <<RingIs("ex_gptr", 40, {35, 39}, {33, 35, 36, 39, 40}), RingIs("ex_mode", 32, {}, {32}),
      RingIs("ex_func", 77, {51, 61, 63, 64, 70}, {51, 52, 61, 62, 63, 65, 70, 71, 77})>>

Excluding(ec, entries) == [ec |-> ec, entries |-> entries]
Ring(ring, how, ec) == [ring |-> ring, how |-> how, ec |-> ec]
SomeConfigs ==
    {<<>>, <<Excluding(0, <<Ring("ex_func", "!", 16)>>)>>, <<Excluding(16, <<Ring("ex_gptr", "plain", 0)>>)>>,
     <<Excluding(0, <<Ring("ex_mode", "plain", 0), Ring("ex_gptr", "=", 0)>>)>>}
SomeScrubJobs ==
    [chip : {[ec |-> e, mode |-> m, type |-> "MURANO", env |-> "W"] : e \in {16, 32}, m \in {"HBI", "RUNTIME"}}
            \cup {[ec |-> 32, mode |-> "RUNTIME", type |-> t, env |-> "U"] : t \in {"VENICE", "CENTAUR"}},
     initfile : Initfiles, config : SomeConfigs, spydef : {SomeSpydef}, scandef : {SomeScandef}, dump : {"ex_func", "ex_gptr"},
     list : {FALSE}]
    \cup [chip : {[ec |-> 32, mode |-> "HBI", type |-> "MURANO", env |-> "W"]}, initfile : OtherInitfiles, config : SomeConfigs,
           spydef : {OtherSpydef}, scandef : {SomeScandef}, dump : {"ex_func", "ex_gptr"}, list : BOOLEAN]
=============================================================================
