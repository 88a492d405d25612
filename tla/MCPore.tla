------------------------------- MODULE MCPore -------------------------------
(***************************************************************************)
(* The tools around the PORE's programs, one after another: a session of   *)
(* the inline assembler and its disassembler, the macros of pgas.h, the    *)
(* scrubber of initfiles, and the programs that scan a ring, given or      *)
(* dumped by the scrubber.                                                 *)
(***************************************************************************)
EXTENDS PoreDisassembler, PgasMacros, RingScan, Scrub

In == INSTANCE MCScrub
SomeScrubJobs == In!SomeScrubJobs

(* Contexts: relocatable and located code, with and without parity, a      *)
(* memory that is small, one that is not aligned, an option that is none.  *)
SomeCreations ==
    {[base |-> 0, size |-> 20, lc |-> 0, options |-> {}],
     [base |-> 0, size |-> 28, lc |-> 64, options |-> {"GENERATE_PARITY"}],
     [base |-> 2, size |-> 28, lc |-> 0, options |-> {}],
     [base |-> 0, size |-> 28, lc |-> 0, options |-> {"BOGUS"}]}

Imm == <<<<165, 23130>>, <<0, 3>>>>
Legal ==
    {<<"NOP">>, <<"HALT">>, <<"WAITS", 2^24 - 1>>, <<"HOOKI", 5, Imm>>, <<"BRA", 64>>, <<"BSR", - 2^25 + 64>>,
     <<"BRAZ", "D1", 0>>, <<"BRANZ", "CTR", 2^21 - 64>>, <<"CMPIBRAEQ", "D0", 68, Imm>>, <<"BRAD", "D1">>,
     <<"BRAIA", 1, <<0, 4096>>>>, <<"ANDI", "D1", "D0", Imm>>, <<"XOR", "D1", "D0", "D1">>,
     <<"ADDS", "A1", "A1", - 2^15>>, <<"NEG", "D0", "D1">>, <<"MR", "PC", "IFR">>, <<"ROLS", "D0", "D1", 32>>,
     <<"LS", "CTR", - 2^19>>, <<"LI", "P1", Imm>>, <<"LD", "D1", 229381 + 2^24, "P1">>, <<"STD", "D0", 2^22 - 8, "A1">>,
     <<"LDANDI", "D0", 8, "A0", Imm>>, <<"STI", 3, "P0", Imm>>, <<"SCAND", 1, 0, 65535, <<1, 2>>, <<3, 4>>>>,
     <<"BSI", "D0", 5, "P0", Imm>>, <<"BCI", "D1", 16, "A1", Imm>>}
Illegal ==
    {<<"WAITS", 0>>, <<"WAITS", 2^24>>, <<"BRA", 2>>, <<"LOOP", 2^25 + 64>>, <<"BRANZ", "P0", 0>>,
     <<"SUBS", "CTR", "CTR", 2^15>>, <<"ADD", "D0", "D1", "D0">>, <<"ROLS", "D0", "D1", 2>>, <<"LS", "A0", 2^19>>,
     <<"LD", "D0", 2^20, "P0">>, <<"STD", "D1", 4, "A0">>, <<"SCAND", 2, 0, 1, <<0, 0>>, <<0, 0>>>>}
SomeCalls == Legal \cup Illegal
SomeTargets == {3, 76, 2^21}
SomeReadings ==
    {[options |-> {"LISTING_MODE", "CHECK_PARITY"}, more |-> 0],
     [options |-> {"CHECK_PARITY", "DISASSEMBLE_UNKNOWN"}, more |-> 4],
     [options |-> {"DISASSEMBLE_DATA", "8_BYTE_DATA"}, more |-> - 2], [options |-> {"BOGUS"}, more |-> 0]}
Program == 2

SomeShifts == {0, 1, 3, 7, 8, 31, 32, 33, 60, 63, 64}
SomeCodes == 0 .. 7

(* Rings of whole words and more, changed in no bit, at the ends of words, *)
(* in the last bit, in runs around 15 nibbles, after long runs of none;    *)
(* with dirty bits after the last.                                         *)
Lengths == {64, 65, 70, 96, 127, 300}
Changes(n) ==
    {{}, {32}, {n - 1}, {63}, {33, n - 2}, {32, 64} \cap UpTo(n), 32 .. n - 1, 40 .. 99, 36 .. 96, 36 .. 95, 36 .. 103,
     {44, 52}, {44, 56}, {n - 33} \cap 32 .. n, {n, n + 1}, {n - 1, n}, {200, 212, 224, 280}}
SomeRings ==
    {r \in UNION {{[length |-> n, init |-> i, alter |-> c, flush |-> f, poll |-> p, file |-> FALSE] :
                      c \in Changes(n), i \in {{}, {32, 45, n - 1}, {36, 60, n + 1}}, f \in BOOLEAN, p \in BOOLEAN} :
                  n \in Lengths} : r.flush => r.init = {}}
SomeOverlays ==
    UNION {{[length |-> n, vpd |-> v, data |-> d \cap 32 .. n - 1, care |-> c \cap 32 .. n - 1] :
               v \in {{}, {40, n - 1} \cap UpTo(n), UpTo(n)}, d \in {{}, {45, n - 1}, {33}},
               c \in {{}, {45, n - 1}, 50 .. 75, {33, n - 1, n - 2}, UpTo(n)}} : n \in {33, 34, 36, 65, 68, 96, 100, 129}}

(* The dump of a ring is the wanted state of one whose flush state is all  *)
(* zeros.  A gptr ring dumped with the bits it cares for overlays the ring *)
(* of the VPD.                                                             *)
TakeScrubbed ==
    /\ job = Idle /\ scrub.stage = "done" /\ scrub.dump # NoDump
    /\ LET def == CHOOSE d \in {scrub.job.scandef[k] : k \in DOMAIN scrub.job.scandef} : Dumped(d)
           length == def.length
       IN  \/ /\ ~ WithCare(def)
              /\ \E flush \in BOOLEAN :
                    job' = [step |-> "taken", ring |-> [length |-> length, init |-> {}, alter |-> scrub.dump.bits,
                                                        flush |-> flush, poll |-> FALSE, file |-> FALSE]]
           \/ /\ WithCare(def)
              /\ \E vpd \in {{}, UpTo(length)} :
                    job' = [step |-> "overlay",
                            overlay |-> [length |-> length, vpd |-> vpd, data |-> scrub.dump.bits \cap UpTo(length),
                                         care |-> {b - length : b \in scrub.dump.bits \ UpTo(length)}]]
    /\ scrub' = ScrubIdle

Unused == ctx = Context /\ ~ reading
Init == DisassemblerInit /\ job = Idle /\ macro = MacroIdle /\ scrub = ScrubIdle
Next ==
    \/ job = Idle /\ macro = MacroIdle /\ scrub = ScrubIdle /\ DisassemblerNext /\ UNCHANGED <<job, macro, scrub>>
    \/ Unused /\ macro = MacroIdle /\ scrub = ScrubIdle /\ (TakeRing \/ TakeOverlay) /\ UNCHANGED <<macro, scrub, disassemblerVars>>
    \/ RingStep /\ UNCHANGED <<macro, scrub, disassemblerVars>>
    \/ Unused /\ job = Idle /\ scrub = ScrubIdle /\ UseMacro /\ UNCHANGED <<job, scrub, disassemblerVars>>
    \/ Unused /\ job = Idle /\ macro = MacroIdle /\ ScrubNext /\ UNCHANGED <<job, macro, disassemblerVars>>
    \/ TakeScrubbed /\ UNCHANGED <<macro, disassemblerVars>>
Spec == Init /\ [][Next]_<<job, macro, scrub, disassemblerVars>>
=============================================================================
