------------------------------- MODULE Scrub -------------------------------
(***************************************************************************)
(* ifScrubber: the spies of an initfile that are static for a chip go into *)
(* the scan rings of its reset state, all others into a reduced initfile.  *)
(* Four files are read in turn (ifScrubber.C, main): the initfile, the     *)
(* list of excluded rings, the spydef, which says where the bits of a spy  *)
(* are, and the scandef, which says how the bits of a ring are.            *)
(*                                                                         *)
(* A fragment of the initfile is [kind, name, value], or for a spy [kind,  *)
(* type, names, format, cond, lines].  A spy of the spydef, which has it   *)
(* once, is [kind, name, groups, sections, enums, checkers]: a section is  *)
(* a ring and its lines [count, at, inv, dead, bad], a bad one cannot be   *)
(* parsed.  An eplatch is [kind, name, even, zones], a zone [in, ring,     *)
(* lines] with lines [at, count]: of the latches in, or of the parity of   *)
(* them.  A ring of the scandef is [ring, core, gptr, length, inv, ends],  *)
(* in FSI's order: ends are the places where its lines end.  Latches and   *)
(* bits are numbers.                                                       *)
(***************************************************************************)
EXTENDS InitCondition

CONSTANT ScrubJobs   \* the runs, as [chip, initfile, config, spydef, scandef, dump, list]

VARIABLE scrub       \* the run at hand

LOCAL INSTANCE SequencesExt
Put(f, k, v) == (k :> v) @@ f
Min2(a, b) == IF a < b THEN a ELSE b
ScrubIdle == [stage |-> "idle"]
NoImage == [valid |-> FALSE, count |-> 0, rings |-> <<>>]
NoDump == [length |-> 0, bits |-> {}]
TakeScrub ==
    /\ scrub = ScrubIdle
    /\ \E j \in ScrubJobs :
          scrub' = [stage |-> "initfile", job |-> j, at |-> 1, critical |-> FALSE, known |-> <<>>, last |-> NotKnown,
                    spies |-> <<>>, left |-> {}, rif |-> {}, excluded |-> {}, latches |-> {}, veto |-> {},
                    rings |-> <<>>, list |-> {}, image |-> NoImage, dump |-> NoDump]

-----------------------------------------------------------------------------
(***************************************************************************)
(* The initfile, a fragment at a time.  A spy that is not static goes to   *)
(* the reduced initfile.  spies are the static ones, with their place in   *)
(* the file, left those the spydef has not had; of a spy with several      *)
(* names only the first keeps its place.                                   *)
(***************************************************************************)
NoPlace == 0
Fragment == scrub.job.initfile[scrub.at]
Reading(stage, file) == scrub.stage = stage /\ scrub.at <= Len(file)
Advanced(s) == [s EXCEPT !.at = @ + 1]
ToRif(s) == [s EXCEPT !.rif = @ \cup {s.at}]
Critical(s) == [s EXCEPT !.critical = TRUE]

DefineValue(f) ==
    CASE f.form = "literal" -> f.value
      [] f.form = "mode" -> IF f.value = scrub.job.chip.mode THEN "1" ELSE "0"
      [] OTHER -> NotKnown
ReadDefine ==
    /\ Reading("initfile", scrub.job.initfile) /\ Fragment.kind = "define"
    /\ scrub' = Advanced([scrub EXCEPT !.known = @ @@ (Fragment.name :> DefineValue(Fragment))])
ReadEnd ==
    /\ Reading("initfile", scrub.job.initfile) /\ Fragment.kind = "END_INITFILE"
    /\ scrub' = Advanced([scrub EXCEPT !.known = <<>>])

Insert(s, spy, spied) ==
    LET one(acc, name) ==
            IF name \in DOMAIN acc.s.spies THEN [acc EXCEPT !.s = Critical(@)]
            ELSE [s |-> [acc.s EXCEPT !.spies = Put(@, name, [place |-> acc.place, from |-> s.at, spied |-> spied]),
                                      !.left = @ \cup {name}], place |-> NoPlace]
        empty == spy.type = "ispy" /\ spied.data.length = 0
    IN  IF Len(spy.names) = 1 /\ empty THEN Critical(s)
        ELSE FoldLeft(one, [s |-> s, place |-> s.at], spy.names).s
ReadSpy ==
    /\ Reading("initfile", scrub.job.initfile) /\ Fragment.kind = "spy"
    /\ \E flag \in BOOLEAN :
          LET verdict == IF Fragment.format = "unsupported" THEN "unsupported"
                         ELSE MatchConditionAndEc(scrub.job.chip, Fragment.cond, flag)
              spied == Spied(scrub.job.chip, scrub.known, scrub.last, Fragment)
              read == [scrub EXCEPT !.known = spied.known, !.last = spied.last, !.critical = @ \/ spied.error]
          IN  scrub' = CASE verdict = "no" -> Advanced(ToRif(scrub))
                         [] verdict = "unsupported" -> Advanced(ToRif(Critical(scrub)))
                         [] verdict = "fatal" -> [ToRif(Critical(scrub)) EXCEPT !.at = Len(scrub.job.initfile) + 1]
                         [] OTHER -> Advanced(IF HasValue(Fragment, spied) THEN Insert(read, Fragment, spied) ELSE ToRif(read))

(* An input that cannot be opened is an error, but read all the same: a    *)
(* stream that was never open does not come to its end.                    *)
Missing ==
    /\ scrub.stage \in {"initfile", "config", "spydef", "scandef"} /\ scrub.at = 1
    /\ scrub' = [scrub EXCEPT !.stage = "hung"]
Ends(stage, next, file) ==
    /\ scrub.stage = stage /\ scrub.at > Len(file)
    /\ scrub' = [scrub EXCEPT !.stage = IF scrub.critical THEN "failed" ELSE next, !.at = 1]
EndInitfile == Ends("initfile", "config", scrub.job.initfile)

-----------------------------------------------------------------------------
(***************************************************************************)
(* The rings that are excluded, listed under a level of the chip or ANY,   *)
(* plainly, only for one level or for all but one.  A plain one under      *)
(* another level is compared with what the line before it left.            *)
(***************************************************************************)
AnyLevel == 0
Excludes(chip, header, e) ==
    CASE e.how = "plain" -> header.ec \in {AnyLevel, chip.ec}
      [] e.how = "=" -> e.ec \in {AnyLevel, chip.ec}
      [] e.how = "!" -> e.ec = AnyLevel \/ e.ec # chip.ec
Entries(headers) == UNION {{<<h, headers[h].entries[k]>> : k \in DOMAIN headers[h].entries} : h \in DOMAIN headers}
ReadConfig ==
    /\ scrub.stage = "config"
    /\ LET headers == scrub.job.config
           chip == scrub.job.chip
           stale == \E e \in Entries(headers) : e[2].how = "plain" /\ ~ Excludes(chip, headers[e[1]], e[2])
           excluded == {e[2].ring : e \in {x \in Entries(headers) : Excludes(chip, headers[x[1]], x[2])}}
       IN  \/ scrub' = [scrub EXCEPT !.stage = "spydef", !.excluded = excluded]
           \/ stale /\ scrub' = [scrub EXCEPT !.stage = "crashed"]

-----------------------------------------------------------------------------
(***************************************************************************)
(* The spydef: the bits of a static spy are given to its rings, and the    *)
(* latches that check it are remembered.                                   *)
(***************************************************************************)
Definition == scrub.job.spydef[scrub.at]
NoBits == [bits |-> <<>>, parity |-> <<>>]
WithRing(rings, r) == IF r \in DOMAIN rings THEN rings ELSE Put(rings, r, NoBits)
Push(rings, r, what) == [rings EXCEPT ![r].bits = Append(@, what)]

(* The bits of the lines, in the order of the spy's own bits; a spy with   *)
(* groups starts again when all its bits are used up.                      *)
LineBits(acc, line, data, groups) ==
    LET stop == Min2(acc.cur + line.count, data.length)
        again == groups /\ acc.cur = stop
        first == IF again THEN 0 ELSE acc.cur
        last == IF again THEN line.count ELSE stop
        bit(i) == IF (i \in data.ones) = line.inv THEN 0 ELSE 1
        seen == SetToSortSeq({i \in data.valid : first <= i /\ i < last}, <)
    IN  [cur |-> first + line.count,
         bits |-> acc.bits \o [k \in DOMAIN seen |-> [at |-> line.at + seen[k] - first, one |-> bit(seen[k])]]]
MutantNumbered(acc, line, data, groups) ==
    IF line.dead THEN acc ELSE LineBits(acc, line, data, groups)
Numbered(acc, line, data, groups) ==
    IF line.dead THEN [acc EXCEPT !.cur = @ + line.count] ELSE LineBits(acc, line, data, groups)

(* The lines of an excluded ring are skipped, and not numbered.  The value *)
(* of an espy comes after its rings: they are read again, the first one    *)
(* with the ring that was the last.  If one of them is excluded no value   *)
(* is looked for, and the others get no bits.                              *)
Included(def) == SelectSeq(def.sections, LAMBDA x : x.ring \notin scrub.excluded)
RingOf(def, spy, k) ==
    LET sections == Included(def)
    IN  IF spy.type = "espy" /\ k = 1 THEN sections[Len(sections)].ring ELSE sections[k].ring
Distributed(rings, def, spy, data) ==
    LET sections == Included(def)
        made == FoldLeft(LAMBDA rs, x : WithRing(rs, x.ring), rings, sections)
        section(acc, k) ==
            LET lines == FoldLeft(LAMBDA a, l : Numbered(a, l, data, def.groups), [cur |-> acc.cur, bits |-> <<>>],
                                  SelectSeq(sections[k].lines, LAMBDA l : ~ l.bad))
            IN  [cur |-> lines.cur,
                 rings |-> FoldLeft(LAMBDA rs, b : Push(rs, RingOf(def, spy, k), b), acc.rings, lines.bits)]
    IN  FoldLeft(section, [cur |-> 0, rings |-> made], [k \in DOMAIN sections |-> k]).rings
Malformed(def, spy) ==
    LET excluded(k) == def.sections[k].ring \in scrub.excluded
        skipped == spy.type = "espy" /\ Included(def) # def.sections
        parsed == {k \in DOMAIN def.sections : ~ excluded(k) /\ (skipped => \E j \in 1 .. k : excluded(j))}
    IN  \E k \in parsed : \E l \in Range(def.sections[k].lines) : l.bad
EnumData(bits) == [length |-> Len(bits), valid |-> 0 .. Len(bits) - 1, ones |-> {i \in 0 .. Len(bits) - 1 : bits[i + 1] = 1}]
ReadSpydef ==
    /\ Reading("spydef", scrub.job.spydef) /\ Definition.kind = "spy" /\ Definition.name \in scrub.left
    /\ LET def == Definition
           entry == scrub.spies[def.name]
           spy == scrub.job.initfile[entry.from]
           excluded == Included(def) # def.sections
           known == spy.type = "ispy" \/ excluded \/ entry.spied.enum \in DOMAIN def.enums
           data == IF spy.type = "ispy" THEN entry.spied.data
                   ELSE IF ~ excluded /\ known THEN EnumData(def.enums[entry.spied.enum]) ELSE NoData
       IN  scrub' = Advanced([scrub EXCEPT
               !.left = @ \ {def.name}, !.latches = @ \cup def.checkers, !.critical = @ \/ ~ known \/ Malformed(def, spy),
               !.veto = IF excluded /\ entry.place # NoPlace THEN @ \cup {entry.place} ELSE @,
               !.rings = Distributed(@, def, spy, data)])
SkipSpydef ==
    /\ Reading("spydef", scrub.job.spydef)
    /\ Definition.name \notin (IF Definition.kind = "spy" THEN scrub.left ELSE scrub.latches)
    /\ scrub' = Advanced(scrub)

(* The zones of an eplatch become elements of parity: latches in, and the  *)
(* latch that is to have the parity of those since the one before.  A ring *)
(* that is excluded, or has no entry, ends it.  A ring's last run of in    *)
(* latches is closed by ten more from its last line on, and the next one   *)
(* that is in starts with these.                                           *)
Overrun == 10
Latches(line) == line.at .. line.at + line.count - 1
Elements(def, k) ==
    LET zone == def.zones[k]
        more == IF k > 1 /\ zone.in /\ def.zones[k - 1].in
                THEN <<[at |-> Last(def.zones[k - 1].lines).at, count |-> Overrun]>> ELSE <<>>
        lines == more \o zone.lines
    IN  [n \in DOMAIN lines |-> [in |-> zone.in, latches |-> IF zone.in THEN Latches(lines[n]) ELSE {lines[n].at}, even |-> def.even]]
ReadEplatches ==
    /\ Reading("spydef", scrub.job.spydef) /\ Definition.kind = "eplatches" /\ Definition.name \in scrub.latches
    /\ LET zones == Definition.zones
           usable(k) == \A j \in 1 .. k : zones[j].ring \in DOMAIN scrub.rings \ scrub.excluded
           kept(rs, k) == IF usable(k) THEN [rs EXCEPT ![zones[k].ring].parity = @ \o Elements(Definition, k)] ELSE rs
       IN  scrub' = Advanced([scrub EXCEPT !.rings = FoldLeft(kept, @, [k \in DOMAIN zones |-> k])])

(* A static spy that was not found is an error; one with an excluded ring  *)
(* is copied to the reduced initfile after all, unless an enum was not     *)
(* defined or one of the files cannot be opened again.  The rings are      *)
(* added to the list, if one is asked for.                                 *)
Undefined == \E k \in DOMAIN scrub.job.spydef :
    LET def == scrub.job.spydef[k]
    IN  /\ def.kind = "spy" /\ def.name \in DOMAIN scrub.spies /\ Included(def) = def.sections
        /\ scrub.spies[def.name].spied.enum \notin DOMAIN def.enums \cup {NoEnum}
Listed == IF scrub.job.list /\ ~ Undefined THEN DOMAIN scrub.rings ELSE {}
EndSpydef ==
    /\ scrub.stage = "spydef" /\ scrub.at > Len(scrub.job.spydef)
    /\ \/ scrub' = [scrub EXCEPT !.stage = IF scrub.critical \/ scrub.left # {} THEN "failed" ELSE "open", !.at = 1,
                                 !.rif = IF Undefined THEN @ ELSE @ \cup scrub.veto,
                                 !.list = Listed]
       \/ scrub.veto # {} /\ scrub' = [scrub EXCEPT !.stage = "failed", !.at = 1]
       \/ scrub.job.list /\ scrub' = [scrub EXCEPT !.stage = "failed", !.at = 1, !.rif = IF Undefined THEN @ ELSE @ \cup scrub.veto]

-----------------------------------------------------------------------------
(***************************************************************************)
(* The scandef.  The image is a file of rings with their number, marked as *)
(* valid at the end; the ring that is dumped goes to files of its own.     *)
(* Only FSI's order of the latches is modelled, and a ring is in the       *)
(* scandef once.                                                           *)
(***************************************************************************)
OpenImage ==
    /\ scrub.stage = "open"
    /\ \/ scrub' = [scrub EXCEPT !.stage = "scandef", !.image.count = Cardinality(DOMAIN scrub.rings)]
       \/ scrub' = [scrub EXCEPT !.stage = "failed"]   \* a file cannot be opened

(* A gptr ring that is dumped, but for the Centaur's, is written twice as  *)
(* long: the second half has the bits that it cares for.                   *)
RingDef == scrub.job.scandef[scrub.at]
Dumped(def) == def.ring = scrub.job.dump
WithCare(def) == Dumped(def) /\ def.gptr /\ scrub.job.chip.type # "CENTAUR"
WrittenLength(def) == IF WithCare(def) THEN 2 * def.length ELSE def.length

(* The latches are walked in order, and the next of the ring's bits is     *)
(* taken when its latch comes by, so a latch that was given twice stops    *)
(* the walk.  Which of its two bits is first in the queue is not           *)
(* specified.  The queue goes on to show the last bit taken from it, whose *)
(* latch has passed.                                                       *)
Ats(bits) == {bits[k].at : k \in DOMAIN bits}
TwiceIn(bits) == {a \in Ats(bits) : \E k, l \in DOMAIN bits : k # l /\ bits[k].at = a /\ bits[l].at = a}
Reached(bits, end) ==
    {a \in Ats(bits) : a < end /\ \A b \in TwiceIn(bits) : a <= b}
Walked(bits, end) ==
    LET twice == Reached(bits, end) \cap TwiceIn(bits)
        sure == {a \in Reached(bits, end) \ twice : [at |-> a, one |-> 1] \in Range(bits)}
        may(v) == \A a \in twice : [at |-> a, one |-> v] \in Range(bits)
    IN  {w \in {sure, sure \cup twice} : may(IF w = sure THEN 0 ELSE 1) \/ twice = {}}

(* A queue that never held a bit shows what was in the memory before.  If  *)
(* this is a latch of the ring, here the last of any line, the empty queue *)
(* is noticed.  After an error a ring is left at the end of a line.        *)
EndOf(def, a) == CHOOSE e \in def.ends : e > a /\ \A f \in def.ends : f > a => e <= f
Walks(def, bits) ==
    LET end == IF scrub.critical THEN EndOf(def, 0) ELSE def.length
    IN  IF bits # <<>>
        THEN {[ones |-> w, taken |-> Reached(bits, end), end |-> end, critical |-> scrub.critical] : w \in Walked(bits, end)}
        ELSE {[ones |-> {}, taken |-> {}, end |-> end, critical |-> scrub.critical]}
             \cup UNION {{[ones |-> w, taken |-> {a}, end |-> EndOf(def, a), critical |-> TRUE] : w \in {{}, {a}}} :
                             a \in {e - 1 : e \in def.ends \cap 0 .. end}}

(* ones are the latches of the image, scanned the bits of the dump, which  *)
(* are inverted where the scandef says so.  A latch that no bit has set    *)
(* and that is inverted counts as one for parity.  The output is set, not  *)
(* inverted, in both.  sum is the parity of the latches since the last     *)
(* output.                                                                 *)
Flipped(inv, s) == (s \ inv) \cup (inv \ s)
ParityStep(acc, p, untouched) ==
    LET sum == acc.sum + Cardinality({a \in p.latches : (a \in acc.ones) # (a \in untouched)})
        odd == (acc.sum + Cardinality(p.latches \cap untouched)) % 2 = 1
    IN  IF p.in THEN [acc EXCEPT !.sum = sum]
        ELSE IF odd = p.even THEN [ones |-> acc.ones \cup p.latches, scanned |-> acc.scanned \cup p.latches, sum |-> 0]
        ELSE [ones |-> acc.ones \ p.latches, scanned |-> acc.scanned \ p.latches, sum |-> 0]
RingData(def, parity, walk) ==
    LET untouched == (def.inv \cap 0 .. walk.end - 1) \ walk.taken
        walked == [ones |-> walk.ones, sum |-> 0, scanned |-> {a \in walk.taken : (a \in walk.ones) # (a \in def.inv)}]
    IN  FoldLeft(LAMBDA acc, p : ParityStep(acc, p, untouched), walked, parity)

(* Care is taken of all bits of the queue, and of the outputs of parity.   *)
CareBits(store) == Ats(store.bits) \cup UNION {p.latches : p \in {q \in Range(store.parity) : ~ q.in}}
DumpOf(def, store, scanned) ==
    [length |-> WrittenLength(def),
     bits |-> IF WithCare(def) THEN scanned \cup {def.length + a : a \in CareBits(store)} ELSE scanned]

(* The rings of cores are addressed by multicast.  When there is no memory *)
(* for a ring the scandef is left, and the image is marked as valid as if  *)
(* it were all there.                                                      *)
ReadScandef ==
    /\ Reading("scandef", scrub.job.scandef) /\ RingDef.ring \in DOMAIN scrub.rings
    /\ \/ \E walk \in Walks(RingDef, scrub.rings[RingDef.ring].bits) :
             LET store == scrub.rings[RingDef.ring]
                 data == RingData(RingDef, store.parity, walk)
                 written == [multicast |-> RingDef.core, length |-> WrittenLength(RingDef), ones |-> data.ones]
             IN  scrub' = Advanced([scrub EXCEPT
                     !.critical = walk.critical, !.image.rings = Put(@, RingDef.ring, written),
                     !.dump = IF Dumped(RingDef) THEN DumpOf(RingDef, store, data.scanned) ELSE @])
       \/ scrub' = [scrub EXCEPT !.critical = TRUE, !.at = Len(scrub.job.scandef) + 1]
SkipScandef ==
    /\ Reading("scandef", scrub.job.scandef) /\ RingDef.ring \notin DOMAIN scrub.rings
    /\ scrub' = Advanced(scrub)
EndScandef ==
    /\ scrub.stage = "scandef" /\ scrub.at > Len(scrub.job.scandef)
    /\ scrub' = [scrub EXCEPT !.stage = IF scrub.critical THEN "failed" ELSE "done", !.image.valid = TRUE]

ScrubNext ==
    \/ TakeScrub \/ Missing \/ ReadDefine \/ ReadEnd \/ ReadSpy \/ EndInitfile \/ ReadConfig
    \/ ReadSpydef \/ SkipSpydef \/ ReadEplatches \/ EndSpydef \/ OpenImage \/ ReadScandef \/ SkipScandef \/ EndScandef

-----------------------------------------------------------------------------
(* The bits of a spy by their numbers: those of all its rings, one after   *)
(* the other, from the start for each group.                               *)
Lines(def) == FoldLeft(LAMBDA ls, x : ls \o [k \in DOMAIN x.lines |-> [ring |-> x.ring, line |-> x.lines[k]]],
                       <<>>, def.sections)
Start(lines, k) == FoldLeft(LAMBDA n, l : n + l.line.count, 0, SubSeq(lines, 1, k - 1))
BitAt(lines, k, d, def, data) ==
    IF def.groups THEN (Start(lines, k) + d) % data.length ELSE Start(lines, k) + d
Wanted(def, data) ==
    LET ls == Lines(def)
    IN  UNION {{[ring |-> ls[k].ring, at |-> ls[k].line.at + d, on |-> (BitAt(ls, k, d, def, data) \in data.ones) # ls[k].line.inv] :
                   d \in {n \in 0 .. ls[k].line.count - 1 : ~ ls[k].line.dead /\ BitAt(ls, k, n, def, data) \in data.valid}} :
               k \in DOMAIN ls}

(* The bits that the lines of an ispy give it, as they are meant: of those *)
(* that apply the first, and after it the ranges, a later one over those   *)
(* before.  Left out is what the code loses: the bits of a range that does *)
(* not end beyond all lines before it, if they have none from these        *)
(* (setBuffer marks bits as valid only where the buffer grows); those of a *)
(* single bit that is not the first (ifScrubInitfile.C:1145 skips lines    *)
(* without a colon); and spies with a guard that is not compared with what *)
(* it names.                                                               *)
KnownAt(place) ==
    LET define(known, f) == IF f.kind = "define" THEN known @@ (f.name :> DefineValue(f))
                            ELSE IF f.kind = "END_INITFILE" THEN <<>> ELSE known
    IN  FoldLeft(define, <<>>, SubSeq(scrub.job.initfile, 1, place - 1))
Trusted(line) == line.guard \in {"none", "any", "env", "freq"} \/ (line.guard = "ec" /\ line.op # "==")
IntendedFor(chip, known, line) ==
    /\ NamesDefine(line) => Defined(known, line.name) = chip.env
    /\ line.guard = "ec" => Compare(chip.ec, line.op, line.level)
Top(value) == value.first + Len(value.bits)
Intended(spy, place) ==
    LET applies == SelectSeq(spy.lines, LAMBDA l : IntendedFor(scrub.job.chip, KnownAt(place), l))
        ranges == SelectSeq(Tail(applies), LAMBDA l : HasColon(l))
        singles == {l \in Range(Tail(applies)) : l.value.kind = "bits" /\ ~ HasColon(l)}
        parts == [k \in 1 .. Len(ranges) + 1 |-> IF k = 1 THEN applies[1].value ELSE ranges[k - 1].value]
        longer == {k \in DOMAIN parts : \A j \in 1 .. k - 1 : Top(parts[k]) > Top(parts[j])}
        latest(b) == CHOOSE k \in DOMAIN parts : b \in BitsOf(parts[k]) /\ \A j \in k + 1 .. Len(parts) : b \notin BitsOf(parts[j])
        given == UNION {BitsOf(parts[k]) : k \in longer} \ UNION {BitsOf(l.value) : l \in singles}
    IN  IF applies = <<>> THEN NoData
        ELSE [length |-> Top(parts[CHOOSE k \in longer : \A j \in longer : j <= k]), valid |-> given,
              ones |-> {b \in given : parts[latest(b)].bits[b - parts[latest(b)].first + 1] = 1}]
DataOf(entry, def) ==
    LET spy == scrub.job.initfile[entry.from]
    IN  IF spy.type = "ispy" THEN Intended(spy, entry.from)
        ELSE IF entry.spied.enum \in DOMAIN def.enums THEN EnumData(def.enums[entry.spied.enum]) ELSE NoData

(* Left out as well: an espy in several rings, an excluded ring of a spy   *)
(* that is not the first of its names, a ring with a latch that is given   *)
(* twice, a latch or ring that no scandef has.                             *)
OneRing(entry, def) == entry.spied.enum = NoEnum \/ Len(def.sections) = 1
AllTrusted(entry) ==
    LET spy == scrub.job.initfile[entry.from] IN spy.type = "ispy" => \A k \in DOMAIN spy.lines : Trusted(spy.lines[k])
Reachable(ring, at) ==
    /\ TwiceIn(scrub.rings[ring].bits) = {}
    /\ \E k \in DOMAIN scrub.job.scandef : scrub.job.scandef[k].ring = ring /\ at < scrub.job.scandef[k].length
Inverted(ring) == UNION {scrub.job.scandef[k].inv : k \in {n \in DOMAIN scrub.job.scandef : scrub.job.scandef[n].ring = ring}}
AllThere ==
    \A name \in DOMAIN scrub.spies : \A k \in DOMAIN scrub.job.spydef :
        LET entry == scrub.spies[name]
            def == scrub.job.spydef[k]
        IN  def.kind = "spy" /\ def.name = name /\ entry.from \notin scrub.rif /\ OneRing(entry, def) /\ AllTrusted(entry)
              /\ Included(def) = def.sections
            => \A w \in Wanted(def, DataOf(entry, def)) :
                  Reachable(w.ring, w.at) =>
                      /\ w.on = (w.at \in scrub.image.rings[w.ring].ones)
                      /\ w.ring = scrub.job.dump => w.on = ((w.at \in scrub.dump.bits) # (w.at \in Inverted(w.ring)))

(* A spy that is not in the reduced initfile is static, and the latches of *)
(* an eplatch have its parity.                                             *)
AllKept ==
    \A k \in DOMAIN scrub.job.initfile :
        scrub.job.initfile[k].kind = "spy" =>
            k \in scrub.rif \/ \E name \in DOMAIN scrub.spies : scrub.spies[name].from = k
Longest(group) == CHOOSE n \in {Len(group[s]) : s \in DOMAIN group} : \A s \in DOMAIN group : Len(group[s]) <= n
Size(cond) == FoldLeft(LAMBDA n, g : n + Longest(g), 0, cond.groups)
StaticHold(most) ==
    \A name \in DOMAIN scrub.spies :
        LET from == scrub.spies[name].from
            cond == scrub.job.initfile[from].cond
        IN  from \in scrub.rif \/ Size(cond) > most \/ Meaning(scrub.job.chip, cond)
OneRingOnly(def) == \A z \in Range(def.zones) : z.ring = def.zones[1].ring
InOf(def) == UNION {UNION {Latches(l) : l \in Range(z.lines)} : z \in {y \in Range(def.zones) : y.in}}
OutOf(def) == {z.lines[1].at : z \in {y \in Range(def.zones) : ~ y.in}}
Checked(def) == \E p \in Range(scrub.rings[scrub.job.dump].parity) : ~ p.in /\ p.latches = OutOf(def)
ParityHolds ==
    LET eplatches == {def \in Range(scrub.job.spydef) : def.kind = "eplatches"}
        latches == Flipped(Inverted(scrub.job.dump), scrub.dump.bits)
    IN  scrub.dump # NoDump /\ (\A def \in eplatches : OneRingOnly(def)) =>
            \A def \in eplatches :
                def.zones[1].ring = scrub.job.dump /\ Checked(def) =>
                    (Cardinality(latches \cap (InOf(def) \cup OutOf(def))) % 2 = 0) = def.even

(* When ifScrubber ends well, every spy of the initfile is either in the   *)
(* reduced one, or its condition holds for the chip and all bits its lines *)
(* give it, but for those named above, are in its rings, where the spydef  *)
(* and the scandef have them, inverted where these say so; and the latches *)
(* with parity have it.                                                    *)
NothingIsLost == scrub.stage = "done" => AllKept /\ AllThere /\ StaticHold(MaxClauses) /\ ParityHolds

(* "Could be 1 to 4 extra conditions (i.e. ec, PU_CHIP_TYPE and/or iplmode *)
(* and/or avpTestCase and/or RISK_LEVEL)" (ifScrubInitfile.C:508).         *)
ConditionsHold == scrub.stage = "done" => StaticHold(4)
=============================================================================
