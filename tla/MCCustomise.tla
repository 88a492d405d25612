---------------------------- MODULE MCCustomise ----------------------------
(* An instance of ImageBuild for TLC: two rings that can be overridden, a  *)
(* ring of the VPD with an element per core, two cores.                    *)
EXTENDS ImageBuild

W == Word(0)
MCData == {<<1>>, <<2>>, <<1, 2>>}
MCProgram == [d \in MCData \cup {<<3>>, <<4>>} |-> IF d = <<1>> THEN <<5, 5>> ELSE <<6>>]
MCSlotOf == ("A" :> 65) @@ ("B" :> 67) @@ ("G" :> 69) @@ ("R" :> 71)
MCVpdG == "G" :> [min |-> 16, max |-> 17]
MCVpdR == "R" :> [min |-> 16, max |-> 17]
MCSamples == [s \in Sections |-> {}]

(* .header 0, .ipl_data 1, .fixed_toc 18, .text 19, .data 20, .toc 21,     *)
(* .strings 22, .halt 23, .pibmem0 24.                                     *)
Start == [s \in Sections |->
    CASE s = 0 -> <<0, 1>> [] s = 4 -> <<1, 17>> [] s = 2 -> <<18, 1>> [] s = 5 -> <<19, 1>>
      [] s = 6 -> <<20, 1>> [] s = 7 -> <<21, 1>> [] s = 8 -> <<22, 1>> [] s = 9 -> <<23, 1>>
      [] s = 10 -> <<24, 1>> [] OTHER -> <<0, 0>>]
Base == [mem |-> [i \in 0 .. BufferSize - 1 |-> W], size |-> 25, magic |-> TRUE,
         normalized |-> TRUE, tocSorted |-> TRUE,
         section |-> [s \in Sections |-> [offset |-> Start[s][1], size |-> Start[s][2], alignment |-> 1]]]
MCImages == {Base}

Req(name, dd, phase, override, chiplet, data) ==
    [name |-> name, dd |-> dd, phase |-> phase, override |-> override, chiplet |-> chiplet, data |-> data]
MCRequests == {Req("A", 16, 0, 0, 255, <<1>>), Req("A", 16, 2, 1, 255, <<2>>), Req("A", 16, 2, 0, 255, <<1, 2>>),
               Req("A", 65536, 1, 0, 255, <<1>>),
               Req("G", 16, 0, 0, 16, <<3>>), Req("G", 16, 0, 0, 17, <<4>>), Req("R", 16, 0, 0, 17, <<4>>)}
MCCells == {W} \cup UNION {Range(Rs4Block(back, DdOf(req.dd), req.phase, req.override, req.data)) :
                           req \in MCRequests, back \in 65 .. 110}
Vpd(name, chiplet) == [name |-> name, chiplet |-> chiplet, data |-> <<3>>,
                       raw |-> 2, program |-> <<6>>, worst |-> 2]
MCVpdRings == {Vpd("G", 16), Vpd("R", 17)}

Ram(reg, core, thread, data) == [reg |-> reg, core |-> core, thread |-> thread, data |-> data]
MCRamRequests == {Ram("HRMOR", 0, 2, 1), Ram("HRMOR", 0, 0, 2), Ram("HMEER", 0, 0, 1), Ram("LPCR", 0, 0, 1),
                  Ram("LPCR", 0, 1, 2), Ram("LPCR", 1, 1, 1), Ram("LPCR", 1, 2, 1), Ram("X", 0, 0, 1)}
Scom(operation, core, part, addr, data) ==
    [operation |-> operation, core |-> core, part |-> part, addr |-> addr, data |-> data]
MCScomRequests ==
    {Scom(op, 0, 1, 1, {1}) : op \in Operations}
        \cup {Scom(op, 0, 1, 2, {2}) : op \in {"APPEND", "REPLACE", "NOOP", "AND"}}
        \cup {Scom(op, 0, 1, 1, {2}) : op \in {"OR", "AND_APPEND"}}
        \cup {Scom("REPLACE", 0, 1, 3, {1}), Scom("APPEND", 1, 2, 1, {1}),
              Scom("APPEND", 2, 1, 1, {1}), Scom("APPEND", 1, 4, 1, {1})}
MCScomOps == <<2, 1, 1>>
MCScomVectors == <<75, 77, 79>>
MCRuntimeScom == <<81, 83>>
=============================================================================
