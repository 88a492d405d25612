# Verification of the POWER8 Self Boot Engine code

This directory holds TLA+ models of the programs in this repository that run
on the PORE (POWER On/Reset Engine) of a POWER8 chip: the code that boots the
chip (SBE) and the code that serves deep-idle transitions and background
threads afterwards (SLW, PTS); and of the programs on a host that make what
those engines run: the image library, the tools that customise images, the
PORE assembler, the scan ring compression and the initfile scrubber. TLC checks
the models on small instances, TLAPS proves the most important properties for
every value of the constants.

Paths below are relative to `src/src/engd/href/eclipz/chips/p8/working/procedures/`;
`S` stands for `ipl/sbe/` in it, `U` for `utils/`; the scrubber is in
`src/src/engd/initfiles/ifscrub/`.

## 1. Inventory

### 1.1 What the system is

A PORE engine is a small in-order processor: two data registers, a few
address and SPRG registers, a stack of return addresses, a loop counter, an
error mask and a branch table through which errors and interrupts are
vectored. Three of them matter here.

* The **SBE** executes the boot code from its OTPROM and SEEPROM, then from its
  local memory (PIBMEM), and finally serves its host as a small service
  processor.
* The **SLW** engine executes the deep-idle (sleep/winkle) transitions of the
  cores on requests of the power management controller (PMC).
* **PTS**, the PORE Thread Scheduler, is a cooperative scheduler that borrows
  the SLW engine between transitions. Its clients are threads (in the product
  one thread that collects the "24x7" counters), its master is the hypervisor
  (PHYP), and it reports to the OCC through a queue in memory.

On the engines there is no operating system and no lock: every interaction is
a shared word (SCOM register, mailbox, memory) or an interrupt.

What the engines execute is made on a host. The **SBE-XIP image** is a file of
sections with a table of contents. Build tools add to it the scan **rings** of
each chip level, and a chip's firmware later builds from it an IPL image and an
SLW image, with rings compiled to PORE programs and tables of registers to
restore. The programs are put together by an **inline assembler**, the rings
start as the output of the **scrubber**, which takes the static settings out of
initfiles.

### 1.2 Components

| Component | Sources | State | Operations | What is hard | What makes it correct |
|---|---|---|---|---|---|
| PTS scheduler | `S/pts.S`, `pts_structures.h`, `pts_internal.h`, `pts_api.h` | `PtsState`, the scheduler table, `PtsThread`s, SPRG0, EMR, interruptibility | `_ptsSchedule` (10 steps), `_ptsResumeThread`, yield, sleep, suspend, terminate, PIB-error and atomic-mode calls | interrupts between any two instructions of a window abandon the loop; contexts saved earlier; times and special values in one field | first due thread runs; nobody oversleeps; the running thread is the scheduled one, under its own error mask |
| PTS error handling | `S/pts_error.S` | DBG0/1, TBAR, the thread blamed | public error and function vectors, kill thread, kill PTS, error 0 handler | errors while handling errors, recovery and interrupt share one path | a killed thread takes PTS down; fatal errors are reported |
| PTS commands | `S/pts_command.S`, `pts_command.h` | command and response fields | start, stop, schedule, suspend, terminate, remove, error injection | PHYP writes while PTS runs; commands rewrite entries of threads with contexts | answered once; unrunnable threads stay so |
| PTS in SLW | `S/pts_slw_config.S`, `pts_config.h` | `slw_terminator`, DONE override, PMC FIR bit 38, branch tables | enable, disable, entry, thread termination handler, error handler | PMC's requests race the half-finished switch of mask and branch table | PTS runs only when enabled; interrupts reach it only in windows; requests are served |
| PTS completion queue | `S/pts_command.S` (`_ptsWriteCompletionRecord`), `pts_structures.h` | ring, read and write index | write a record; OCC reads | two processors, no lock, PTS may die between two stores | a FIFO that never loses, duplicates or tears a record |
| PTS PBA slaves | `S/pts_pba.S` | PBA slave setup | memory mode switches | switch of a shared slave while the other application uses it | threads leave the mode before they yield (in the PTS model as `atomic`) |
| SLW transitions | `S/proc_slw_base.S`, `proc_slw_poweronoff.S`, `proc_slw_pro_epi_log.S` and others | core/EX bits, PFET and PCB state | sleep/winkle entry and exit per core | order of power steps, errors in the middle | one transition per request, report to PMC |
| 24x7 thread | `S/ima_slw_24x7.S` | counters | the product's PTS client | sleeps and PIB errors | uses the PTS interface as PTS expects |
| SBE istep control | `S/proc_sbe_enable_seeprom.S`, `proc_sbe_istep_seeprom.S`, `proc_sbe_run_exinit.S`, `sbe_common.H`, `proc_sbe_common.S`, `proc_control_bits.H` | SBEVITAL, control words, error attentions | `.callproc` prologue and epilogue for each procedure, halts | some 45 procedures, each with skip/trap/halt/check flags; continuing from halts | halt code and step tell where and how the boot ended |
| Master, core selection, winkle | `S/proc_sbe_check_master.S`, `proc_sbe_select_ex.S`, `proc_sbe_enable_pnor.S`, `proc_sbe_trigger_winkle*.S` | selected EX, SBEVITAL step, core histories | choose master and cores, hand over to Hostboot | SBE, core, PMC and Hostboot move at once; one timeout over all phases | only the master starts; timeouts only when something hangs |
| Interrupt service | `S/proc_sbe_intr_service_pibmem.S` | MBOX2, A0 progress count, CTR | delayed interrupts for Hostboot | a request written between read and clear | no request is lost, one interrupt per request |
| Scan service | `S/proc_sbe_scan_service.S`, `proc_sbe_decompress_scan.S` | two mailboxes, the ring | hotplug scan requests | request and response mailboxes cross | a response means the ring was changed as asked |
| Loaders | `S/proc_sbe_lco_loader*.S`, `proc_sbe_pibmem_loader.S`, `proc_sbe_tp_ld_image.S` | addresses, counters | copy images | wraps, alignment, partial copies | the image arrives whole |
| Switching | `S/proc_sbe_switch*.S`, `proc_sbe_gear_switcher.S`, `proc_sbe_tp_switch_gears.S` | I2C divisor, PIBMEM copy | switch the boot to another gear, side or core | code runs from PIBMEM while its bus changes speed | the boot goes on at the new speed or halts |
| Chiplet initialisation | `S/proc_sbe_*init*.S`, `*startclocks*.S` | SCOM registers | straight-line SCOM sequences with checks | polls with timeouts | - |
| SBE-XIP image library | `S/sbe_xip_image.c`, `sbe_xip_image.h`, `U/sbe_xip_tool.c` | the image: header, section table, sections, TOC; the file | append, delete, duplicate, normalise, find, get, set, validate; the tool's commands | sections only grow and go at the end; a failure after bytes have moved; sorted, unsorted, hashed and stripped TOCs; a file truncated and written again | sections never overlap, a call touches only its own; names find what the link editor meant |
| Image customisation | `U/p8_delta_scan_w/`, `U/p8_delta_scan_r/`, `U/p8_image_help*.C`, `U/p8_ipl_build/`, `U/p8_centaur_build/`, `U/p8_pore_table_gen_api_fixed.C`, `U/p8_scan_compression.C` | the reference image file, ring blocks and their pointers, RAM and SCOM tables | add rings, read them back, build IPL, SLW and Centaur images, fill tables, compress and overlay rings | several runs on one file; `.dcrings` moved for each ring; entries that turn NOP and back; rings that end in mid-code | no ring lost; each slot leads to the ring added last; the tables restore what was asked for |
| PORE inline assembler | `S/pgas.h`, `pore_inline*.c`, `pore_inline.h` | a context on a memory: location, remaining bytes, error | encode, fix up branches, disassemble | operand ranges, memory that ends in an instruction, two contexts on one memory | the disassembly is the program; macros compute what their names say |
| Centaur SBE | `chips/centaur/.../cen_sbe_*.S` | SCOM registers | straight-line | - | - |
| ifScrubber | `src/engd/initfiles/ifscrub/` | spies, exclusions, ring queues, dumps | four passes over initfile, exclusion list, spydef, scandef | each pass deletes what it has used; conditions with several clauses; inverted bits and parity latches | a spy is in the reduced initfile or all its bits are in the rings |

### 1.3 How they interact, and what is hard about it

* **PMC, PHYP and PTS share one engine.** PMC starts a deep-idle transition by
  an interrupt that abandons whatever PTS was doing. PTS therefore enables
  interrupts in three places only (two windows in which it writes the error
  mask register, and its wait) and marks them by the scheduler state
  `INTERRUPTIBLE`; after the transition `slw_terminator` brings the engine back
  to the top of the scheduling loop. The same vector serves the recovery from
  errors, so the scheduler state is what tells the two apart.
* **PHYP commands PTS** through a command and a response field, and enables or
  disables it with an interrupt under special wakeup of all cores.
* **PTS reports to the OCC** through a ring in memory with two indices.
* **The SBE and Hostboot** share SBEVITAL, which both write during the winkle
  handshake, and one mailbox for interrupt requests. The handshake also depends
  on what the SBE polls of the chiplets' power management.
* **A slave SBE and its host** exchange scan requests in two mailboxes.
* **The SBE and the FSP** contend for the I2C bus of the SEEPROM: bit 20 of
  FSIGP4 locks the FSP out while the SBE boots.
* **A debugger** may continue a boot that has halted or trapped.
* **Runs of the customisation tools** share the reference image file, some
  under a lock; each replaces it whole and may be stopped in between.
* **Tools hand on data**: the scrubber dumps rings, the delta and its RS4 code
  are taken apart by the SBE's decompressor or by a program generated for SLW;
  the tables' entries are found again by address by the SLW firmware.

Hard to test are: an interrupt or a request between two particular
instructions; an error while an error is handled; a saved context, a table
entry or a register that is stale when it is used; a deadman count shared by
phases and borrowed as a loop counter; long legal sequences of halts, skips,
commands and recoveries; on the host a write that stops half way, a call that
fails after it has changed the image, an address that is stale after a section
has moved, and codes at the end of a ring or of a memory. `PROJECT.json` lists each such hazard at its
line with the properties that would catch it going wrong.

## 2. Modules

```
PtsState <- PtsScheduler <- PtsError <- PtsCommand <- PtsSlw <- PtsClaims <- MCPts
                                                        ^- PtsSlw_proofs
CompletionFifo  <-(refines)-  PtsCompletionQueue <- MCQueue, PtsCompletionQueue_proofs
SbeState <- SbeIstep <- SbeMaster <- SbeWinkle <- SbeIntrService <- SbeScanService <- Sbe <- MCSbe
                                                                                       ^- Sbe_proofs
SbeProgram <- MCSbe

SectionStack  <-(refines)-  XipImage <- XipToc <- XipTool <- MCXip
                               ^- XipImage_proofs
                               ^- RingBlock <- DeltaScan <- ImageBuild <- MCCustomise
                                     |            |            ^
                                     ^- SlwTable <-------------|
                                                  |            |
                XipImage_proofs <- DeltaScan_proofs <- ImageBuild_proofs <- ImageRings_proofs
Pgas <- PoreInline <- PoreDisassembler <- MCPore
  ^- PgasMacros <----------------------------'
         ^- Pore_proofs -> RingScan <--------'
        InitCondition <- Scrub <-------------'     MCScrub: the scrubber's inputs
```

An arrow is EXTENDS. Each module holds the actions of one source file or
group; the last of a chain composes them with the environment and states the
properties. The names of states, actions and constants are those of the source
in TLA+ spelling.

### 2.1 PTS

One record `cpu` is the PORE engine: the place it executes (`pc`), the
operands in an address register and D0 (`thread`, `code`), SPRG0, the error
mask, the branch table in force, interruptibility, the DONE override, the lock
of DBG0/1, and what is left of the wait. `pts` is `PtsState`, `table` the
scheduler table, `thr` the `PtsThread`s, `slw` what the SLW application and PMC
contribute, `phyp` what the hypervisor remembers of its commands. A step of the
model is a stretch of code without a store that another party can see in the
middle and without an interruptible instruction; the windows are cut where
interrupts are enabled and disabled.

| Module | Code | Actions |
|---|---|---|
| `PtsScheduler` | `pts.S` | steps 1-10 of `_ptsSchedule` as `Schedule`, `OpenWindow`, `CloseWindow`, `ScanStopped/Found/None`, `RescanReady/Wait`, `WaitDone`; `_ptsResumeThread` as `PibWindowClose`, `Dispatch`; one action per system call; `_ptsTerminateSuspendDie` |
| `PtsError` | `pts_error.S` | the hardware's error vectoring, public error and function handlers, blame, `_ptsKillThread`, `_ptsKillPts`, error 0 handler |
| `PtsCommand` | `pts_command.S` | `IssueCommand`/`CollectResponse` of PHYP; each command, the invalid ones too |
| `PtsSlw` | `pts_slw_config.S` | enable, disable, entry, `slw_terminator`, thread termination handler, error handler; PMC's and PHYP's requests; `Tick` |
| `PtsCompletionQueue` | `_ptsWriteCompletionRecord` | store by store, with PTS dying between any two; OCC's reader |
| `CompletionFifo` | the queue's contract in `pts_command.h` | `Put`, `Get`, `Refuse` |
| `PtsClaims` | comments of `pts_command.h` | a statement the code does not keep |

Abstractions. Time is relative: a wakeup is a number of ticks, the special
next-schedule values stay above every time as they do in the code. The body of
a thread is any sequence of system calls (a thread's own computation changes no
state of PTS). A write of EMR while interrupts may be disabled has a
nondeterministic result (`EmrAfter`), after the note on HW271773 in the code.
Statistics, traces and FFDC contents are left out; that a context has been
overwritten by FFDC is kept, as the value of the saved address.

### 2.2 SBE

`sbe` is the engine: where it executes, P0 (the selected chiplet), CTR, the
SBEVITAL it has read and not yet written back, the parity of A0, the request
in hand. `vital` is SBEVITAL, `lock` bit 20 of FSIGP4, `attn` the attention
lines in MASTER_PCB_INT, `ex` the chiplets with the ICP, the block-wakeup bit
and the FIR, `mbox` the mailboxes, `ring` the scan rings, `host` Hostboot or
the host of the scan service. `cfg` is everything set before power-on: control
words as sets of flags, good cores, the boot-core mask, chip position, mailbox
bits.

| Module | Code | Actions |
|---|---|---|
| `SbeIstep` | `proc_sbe_enable_seeprom.S`, `callproc_prologue`, `callproc_epilogue`, `.callproc` | the OTPROM's steps; entry halt, trap, skip, enter; attention checks, exit halt, trap, return; abstract bodies; a debugger |
| `SbeProgram` | `proc_sbe_istep_seeprom.S`, `proc_sbe_run_exinit.S` | no action: the sequence of `.callproc` with its arguments and MPIPL branches |
| `SbeMaster` | `proc_sbe_check_master.S`, `proc_sbe_select_ex.S`, `proc_sbe_enable_pnor.S`, `proc_sbe_ex_host_runtime_scom.S` | master/slave decisions, the two search loops as the code runs them |
| `SbeWinkle` | `proc_sbe_trigger_winkle_pibmem.S` | the handshake, poll by poll; `updatestep_inline` as a read and a write |
| `SbeIntrService` | `proc_sbe_intr_service_pibmem.S` | the service loop, with read and clear of the mailbox as two steps |
| `SbeScanService` | `proc_sbe_scan_service.S` | mailbox protocol, decoding, rotation in chunks, bit flip, header check |
| `Sbe` | - | composition, fairness, properties |

Abstractions. A procedure without a model of its own may record any step in
`Steps`, raise an attention (attentions come while a body executes), stop with an error, or return: more than it really
does, so that what holds for the boot holds whatever those procedures do. A
ring is the set of its flipped bits, relative to its image; one bit stands for
the header. `Magic` step numbers are names. Register set-up without a decision
(BARs, LPC, clock controller) is left out, as are pauses for the FSP and hooks
of the simulation. A request with an unknown ring is as one with an unknown
operation: both take the same branch.

The environment of the handshake is what the SBE's polls need: Hostboot writes
DEADMAN_START when it reads SBE_READY, and HOSTBOOT_ALIVE when it reads
WAITING_FOR_HOSTBOOT on an awake core; a chiplet goes from `run` through
`entering`, `winkled`, `goto`, `restoring` to `awake`, and stays in `goto`, the
state of the PORE's work, for a poll at least. Unless `mayHang` a phase lasts at
most `PhaseMax` polls.

### 2.3 The host's programs

| Module | Code | State and actions |
|---|---|---|
| `XipImage` | layout half of `sbe_xip_image.c` | `image` is the header with the buffer after it, `call` the last call and its return code; `AppendData`, `DeleteSection`, `DuplicateSection`, `WriteDoubleword`, address conversions as operators |
| `SectionStack` | what `sbe_xip_image.h` promises | a stack of sections with contents: `Push`, `Extend`, `Pop` |
| `XipToc` | TOC half of `sbe_xip_image.c` | `Normalize`, sorting, linear, binary and hashed search, get and set of elements, scalars and strings, validation |
| `XipTool` | `sbe_xip_tool.c` | the file as (image, `length`); commands `normalize`, `set`, `setv`, `append`, `delete`, with truncation, write and a stop in between; a program that calls the library |
| `RingBlock` | `p8_image_help_base.C` and the ring writers of `p8_image_help.C` | blocks, forward and back pointers, the removal and re-append of `.dcrings` |
| `DeltaScan` | `p8_delta_scan_w`, `_centaur`, `p8_delta_scan_r` | runs of the programs on one file: `Open` (with the lock), `WriteAndUnlock`, `CentaurOpen`, `CentaurTruncate`, `CentaurWrite`, `Stopped` |
| `SlwTable` | `p8_pore_table_gen_api_fixed.C` | RAM and SCOM tables in `.slw`, each call with its checks and its way through the entries |
| `ImageBuild` | `p8_ipl_build`, `p8_centaur_build`, `p8_image_help.C` | `Build`, `AddVpdIpl`, `AddVpdSlw`, `InitSlw`, `Fix`, `UpdateRuntimeScom`, `FillRam`, `FillScom` |
| `Pgas` | `pgas.h` | the macros as programs over symbolic bits |
| `PgasMacros` | `pgas.h` | what a macro promises for its arguments, and one call of a macro after another |
| `PoreInline` | `pore_inline_assembler.c`, `pore_inline.h` | `Create`, `Assemble`, `Fixup`, `Restart` on a context and its memory |
| `PoreDisassembler` | `pore_inline_disassembler.c` | `Rewind`, `Open`, `Disassemble`, `Reuse` |
| `RingScan` | delta in `p8_image_help.C`, ring files of `p8_delta_scan_w` and `p8_delta_scan_r`, `p8_scan_compression.C`, `proc_sbe_decompress_scan.S`, `create_wiggle_flip_prg` | one ring on its way: `CalcDelta`, `CalcFileDelta`, `Compress`, `DecompressScan`, `Decompress`, `SaveDelta`, `CreateWiggleFlip`, `RunWiggleFlip`, `Overlay` |
| `InitCondition` | conditions in `ifScrubInitfile.C` | operators: `when` clauses, logical ors, EC and mode comparisons |
| `Scrub` | `ifScrubber.C`, `ifScrubInitfile.C`, `ifScrubConfig.C`, `ifScrubSpydef.C`, `ifScrubScandef.C` | the four passes, one action per line group: `ReadDefine`, `ReadSpy`, `ReadConfig`, `ReadSpydef`, `ReadEplatches`, `OpenImage`, `ReadScandef`, their ends, and an input that is `Missing` |

Abstractions. The unit of memory is what the code of a module tells apart: a
byte, with one cell for a TOC entry or a string (`XipToc`), 8 bytes (`RingBlock`,
whose programs align everything to 8), a table entry of 16 bytes (`SlwTable`), a
word of 8 + 24 bits (`PoreInline`), bits as the set of the ones with a length
(`RingScan`). Names, ring data and hashes are model values or small numbers; a
ring's compiled program is a function of its data in `ImageBuild`, and is
executed in `RingScan`. Bits of a register in `Pgas` are symbolic, so that one
run of a macro is all its runs. Text is left out: an instruction's text is its
call, a line of an initfile a record of its tokens. In `Scrub` only the ring
type `FSI`, whose bit addresses ascend, is followed; ors within ors, several
definitions of one name in the spydef and a ring that is in the scandef twice
are left out. Of the image the rings, their number and the mark of validity are
kept, of the dump its bits and its length, which a gptr ring doubles for the bits
it cares for, of the list of rings which ones are added. A line of the spydef that
cannot be parsed is a mark on it (`bad`), an open that fails is a choice of the
action that opens. An uninitialised variable of the scrubber is a
nondeterministic choice, and so is what is read from the front of an empty queue.

What a tool hands to the next is composed in the instances: `MCPore` passes
the ring the scrubber dumps on to `RingScan`, as a ring to be scanned or as an
overlay; `ImageBuild` builds from the file that `DeltaScan` has left.

## 3. Runs

| Run | Instance | What it asks |
|---|---|---|
| `commands` | 2 slots, 2 threads, all thread commands, start, stop, an invalid one; MaxSleep 1 | do commands that rewrite the table under a thread ever let something else run than the table says; is each answered once; does a special value come due |
| `errors` | 2 threads, one with an error 0 handler, one that handles PIB errors; errors 0 and 1 anywhere | error mask of each thread, contexts destroyed by FFDC, that a kill is final and reported, interrupts only in windows |
| `faults` | one thread in the second slot only, atomic mode, double faults, able and unable chips | PTS runs only when enabled, under every fault |
| `live` | 2 threads, MaxSleep = MaxWait = 2, schedule command, no errors, fairness | no oversleeping; requests and commands are served |
| `queue` | 4 entries, 2 records | the queue implements the FIFO |
| `sbe_boot` | all 45 procedures in sequence, 409 configurations, 3 chiplet positions | how each boot can end: halt code, I2C lock, master, selected core, attentions |
| `sbe_services` | 11 configurations: one and all cores, with and without hangs, services skipped or not; a slave | the handshake's order and timeouts, the interrupt service, the scan service; liveness |
| `image` | buffer of 18 cells, 4 base images of 6 sections, of which all tool commands and library calls may delete and append the last three, the TOC among them | no overlap, other sections untouched, failures undone; each name finds its item however the TOC is; valid images stay valid, with files cut short in between |
| `customise` | 2 writers, 4 ring names, 2 of them of the VPD, 2 cores; up to 3 rings in the file | no ring lost by overlapping or stopped runs; rings read back; built images lead to the last ring; tables restore what was asked for |
| `pore` | sessions of 2 assembler calls, all macros with 11 shifts from 0 to 64, rings to 300 bits, the scrubber on 6 chips | the listing is the program; macros; rings scanned by either program; overlays; what the scrubber loses |
| `claim_stop`, `claim_conditions` | the smallest instance that shows it | a comment of the code that the code contradicts (section 6) |

Bounds, and why they are enough:

* *Two slots, two threads.* The product has one thread and the repository's test
  table two. The scheduler relates threads only by "an earlier entry" and "the
  entry of a thread"; two cover both. A third slot adds no new relation but for
  entries passed on the way, which `faults` has with an empty slot.
* *MaxSleep, MaxWait.* 1 has a time now and a time to come; 2, in `live`, has a
  wait that ends before the wakeup of one thread and after that of another.
* *Errors 0 and 1.* The code separates error 0 (SCOM) from the others; 1 stands
  for 1-3, whose vectors are alike.
* *4 entries of the queue* let PTS and OCC wrap with the queue partly full; two
  different records tell loss from duplication.
* *3 chiplet positions* have a first, a middle and a last one, so that both
  search loops end at each side of their bound (the code has 15 and a constant).
* *DeadmanCount 7, PhaseMax 1*: the count covers the sum of the phases, the
  property of the real 16 million polls against phases of milliseconds. The
  theorem `NoFalseCheckstops` says that six of the longest phase are enough; it
  is tight: with a count of 5 the run finds a false checkstop.
* *MaxRotate 3, RingLength 5*: of the form 2^n - 1 that the code asserts, with
  offsets on both sides of a chunk. In `sbe_services` one table has offset 0, a
  table nobody has customised, so that the header check is reached.
* *MaxCount 2, Operations, Buses*: counts zero, one and more; supported and
  unsupported operations; buses inside and outside of the tables.

* *18 cells* are what the base images fill. `.data`, the strings and the TOC can
  be taken off from the end, and the TOC, the strings and the rings put on again,
  in any order that fits: `.rings` with padding, the TOC behind the strings too.
  Two symbols are appended to the linked TOC of two or to an empty one, which is
  then unsorted, is searched, sorted by the next normalization, and taken off
  again, so that the hashed table is searched. `Allocations` 17 and 18 fail on
  the data, on the padding or on the final alignment. The base images have the two kinds
  of unsorted TOC, a hashed table that is too short, and two symbols of one hash.
  `Cuts` 1 and 13 are a file that ends in the header and in a later section.
* *3 rings in the file (`FullList`)* are enough for two of one slot with one
  between them, and for `.dcrings` to move twice. `FullTables` = 1: tables are
  filled in an image made of no ring or of one, while no run is at work on the
  file, which the image no longer depends on. `FullRams` = 0: SCOM calls begin
  with empty RAM tables, since the two kinds of table share no cell.
  `CentaurWriters` {1}: the Centaur program has no lock, two of its runs do lose
  rings (section 6).
* *2 calls per program (`Program`)*: an instruction's encoding depends only on
  its own call and on what is left of the memory; a branch needs a target.
* *LongBits 32*: the width of a long where `p8_delta_scan_w` runs, which the
  repository does not say (its makefiles build for more than one). 32 is the case
  in which `strtol` cuts the last word of a file whose length is a multiple of 32;
  `AsRead` is the condition on the ring under which it does not.
* *MaxRotate 31, ScanMaxRotate 64, MaxLong 127*: the code's 127, 0xFE0 and
  2^20 - 1 are of the same form (2^n - 1, multiple of 32); rings of up to 300
  bits pass each of them at least twice.
* *The scrubber's inputs* (`MCScrub`): 6 chips, initfiles of 2 and 3 spies, 4
  exclusion lists, one spydef of 8 spies and 3 eplatches, one scandef, 2 dumps:
  each kind of line, of operand and of inversion once with and once without. An
  ispy has bare bits or up to four parts: ascending, overlapping, inside or below
  those before, of a single bit first and later.

No state constraint, symmetry or view is used. Deadlock is checked except in
`queue`, where a killed writer and an empty ring really end the system, and in
`customise`, `pore` and `claim_conditions`, whose programs end.
In the engine models a lost, halted or polling engine steps by stuttering actions
(`Lost`, `Polls`) of their own, so a missing branch of the code would still show.

Every property of a passing run has a mutant in `PROJECT.json`: a plausible bug
of the code under which TLC finds the property violated.

## 4. Fairness

`PtsSlw!Fairness`:

* weak for the engine's steps: a PORE that is started executes; weak for system
  calls: `pts_api.h` obliges threads to yield or sleep;
* strong for taking a request: it needs an interruptible window, and windows
  open and close once per loop; the hardware latches the request;
* strong for closing a window and for setting the FIR bit: a deep-idle request
  (or an error) may strike there, but they do not come each time the engine
  passes, since between two of them a whole transition takes place;
* weak for time and for PHYP's reading of a response.

`Sbe!FairSpec`: weak for the engine, for Hostboot and the chiplets when they
do not hang, and for the host of the scan service collecting a response. Nothing
is assumed of when requests are posted; `InterruptComes` excludes a Hostboot that
replaces its request for ever, because the code restarts the count each time.
`DeadmanEnds` needs no fairness of Hostboot: it is what the timer is for.

The host's programs have no liveness property: each ends by itself, and an
operation that does not return is not what is hard about them.

## 5. Proofs

TLAPS checks these for every value of the constants that satisfies the stated
assumptions: any table size, threads, flags, commands and errors
(`PtsAssumption`); any queue size and records (`QueueAssumption`); any sequence
of procedures, configurations, number of chiplets and timeouts (`SbeAssumption`,
`ProgramAssumption`); any section table, buffer, alignments, data and images the
link editor lays out (`XipAssumption`, `ImagesAssumption`); any runs, requests,
ring names and ends of a write (`RingAssumption`, `ScanAssumption`).

**`PtsSlw_proofs`.** `TypeCorrect`, `RunsOnlyWhenEnabled` and
`InterruptsInWindows`. The inductive invariant `Inv` has three parts.

* `TypeInv` adds to the types what D0 and the address register carry at each
  place (`OperandsOK`): one register holds a next-schedule value at `die`, a
  thread's error code at `kill`, PTS' own at `killPts`. Without it the types of
  table entries and of RC are not inductive.
* `EnabledOK` is the control argument: while the loop, a thread or the start
  executes, `slw_terminator` names PTS and PTS' branch table is in force; the
  error handler clears the first before it enables interrupts. An error is
  blamed on a thread only if there is a current one, and the places that run
  after a disable have none. Hence the clause on `currentThread`.
* `WindowsOK` says where interrupts can be enabled while PTS code executes. The
  hard case is the first entry: between the enable and the start interrupts may
  be on in a state that is not `INTERRUPTIBLE`, and what excludes a request there
  is that all cores are under special wakeup. The invariant carries
  `wakeup` and the absence of requests from the enable to the start.

The second half of the module is about the threads: `RunningScheduled`,
`UnrunnableStaysOff`, `NeverOversleeps` and `AnsweredOnlyOnce`, on top of `Inv` and without further
hypotheses: they hold also with double faults.

* `ThreadsOK` relates the table, the back-pointers of the threads and the
  current thread. While a thread is resumed or runs, its entry is `RUNNABLE` and
  names it; the inductive part is the errors. A thread whose own handler takes an
  error 0 goes on as if nothing had happened, so its entry must be runnable at
  the places where the error is blamed; and an error while PTS is being enabled
  again is charged to the thread that was current before, which is why the
  clause on `entry` and `start` is needed. The special values that keep a thread
  off the schedule pass through D0 at `die` (the last clause).
* `DelayOK` says what the loop has found so far while it scans and rescans: the
  delay it will wait is not longer than the wakeup of any entry passed.
* `AnsweredOnce` is inductive with the types.

`MaskMatchesThread`, `ContextsAreSound` and `FatalErrorsAreReported` hold under the hypothesis `NoDoubleFaults`: no error strikes
while DBG0/1 hold another, and PHYP does not force one. The hypothesis is
needed: on error 4 the engine stops wherever it is, and a deep-idle request that
comes before PHYP's recovery leads back to the loop with the half-written state
(section 6.1; with `DoubleFaults` TLC finds each of the three violated).

* `TrapOK` follows the error mask and the places from which an error can be
  trapped: from the dispatch of a thread to the end of the error handling the
  vectors are PTS' and the state is not `INTERRUPTIBLE`; the loop runs under PTS'
  own mask; the operands of the dispatch, the blamed thread and the current one
  are the same thread.
* `ContextOK` says that every mapped thread but the one in the engine's hands can
  be resumed: a saved context is the program's, not FFDC. It holds while PTS is
  enabled and not going down; the next enable restarts all threads.
* `ReportedOK` says where a fatal code in `PtsState` is on its way: at the places
  that set the FIR bit, in the FIR, or in a recovery of PHYP's with the cores under
  special wakeup.

**`PtsCompletionQueue_proofs`.** `QueueTypeCorrect`, `ReadersRecordStays` and
`QueueImplementsFifo`. The invariant says that the index in the writer's hand is
the successor of the published one and not the read index once the check has
passed (`WriterOK`), and that a held record is the one in the slot (`ReaderOK`,
`ReaderUndisturbed`, a property that is proved and has no run): OCC can only free slots between the check and the store,
so the check stays valid although it is old. The refinement maps the slots
between the indices to the FIFO's sequence; publishing is `Put`, releasing is
`Get`, all other steps stutter.

**`Sbe_proofs`.** `HaltCodesTell`, `GoodHaltsUnlock`, `WritesSurvive`,
`OwedInterruptIsPending`, `NoInterruptUnasked` and `AnswersAreApplied`.

* `BootInv` says what SBEVITAL and the lock hold at each place of the engine:
  the halt code is SUCCESS exactly at a good stop (`HaltOK`), so a debugger that
  goes on must put it back; the lock is open at good stops and from the winkle
  handshake on (`LockOK`), because the interrupt service stops without opening
  it; and the step at each place of the handshake (`StepOK`). Hostboot writes at
  steps 1 and 5 only, and the places between a read and a write of the engine
  have other steps: that is why no write is lost.
* `IntrOK` follows a request through the service: at each place of the loop an
  owed interrupt is in the mailbox, in the engine's hands or counted, and what
  is there is wanted. It needs the parity of A0 at each place, since a request
  posted while it is odd is torn. Outside of the service SBEVITAL does not have
  its name, so nobody posts. That is where `ProgramAssumption` comes in: no item
  of the sequence is called `intr_service`, and a skipped procedure that calls
  others has a return.

* `ScanInv` is that of the scan service (`ScanInvariant`). The service answers
  through two mailboxes, so what it has done and what the host expects differ by
  the request in hand: `Shadow` is the rings as they will be when the current
  rotation is finished, and at each place of the service it is what the host
  expects, before or after that request (`ExpectOK`). `TalkOK` is the mailbox
  protocol, `RingsOK` how far the ring is rotated: chunks of `MaxRotate` bits
  forward to the bit, the flip, and back to the header. `TableAssumption` is what
  the ring tables of the code must satisfy: an operation that is supported has
  an entry, and its offset is inside of the ring.

The second half of the module is about the order of the boot: `SlavesNeverStart`,
`RightCoreSelected`, `AttentionsStopTheBoot`, `WokenFromWinkle` and
`NoFalseCheckstops`, each with the inductive invariant it rests on: `OrderInv`,
then `HandInv`, then `DeadmanInv`.

* `OrderInv` locates the engine in the sequence of procedures: behind
  `enable_pnor` a chip is a master, behind the last check there is no attention
  that is not masked, and the winkle handshake is the last item. `SelectOK` is
  the pair of search loops: CTR and the position add up to the last position,
  so that the loop ends at the last chiplet and not one off, and the good boot
  cores before the position are counted (`Before`). What it needs of the sequence
  is `OrderAssumption`: `enable_pnor` comes in every boot and in one piece,
  the call before the last is checked in every boot and `trigger_winkle` is
  the last. TLC evaluates it on the sequence of the source.
* `HandInv` says how SBEVITAL, Hostboot and the chiplets go on together: the
  step that lets Hostboot start, that no core winkles before Hostboot has
  started, that none is awake before its interrupt. A core is woken in one place,
  behind the poll of its state; between that poll and the interrupt the chiplet
  cannot leave winkle, because only the interrupt wakes it.
* `DeadmanInv` is the bound: `PhasesLeft` counts the phases still to come, from
  the start of Hostboot to its last write, and the count left is at least that
  many of the longest phase less what of the current one has passed, unless
  something has been late. Polls of one register take a count each and the age of
  the phase grows with each. The hypotheses are `CountFits` (`DeadmanCount >= 6 *
  PhaseMax`; the code's count is 0xFFFFFF) and that positions fit into the 64 bits
  from which the chiplet's state is read.

**`XipImage_proofs`.** `LayoutDisjoint`, `LayoutOthersUntouched`,
`LayoutFailureRestores`, `LayoutTypeOK` and `LayoutImplementsStack`, all of
`LayoutSpec`: appends, deletes and copies in any order.

* The inductive invariant is `LaidOut(image)`: no two sections share a byte, each
  lies in the image, the image fits its buffer, and its size is a multiple of
  the final alignment. Disjointness alone is not inductive: a delete aligns the
  end of the section before, and only because the old size was aligned is the
  new one not larger (`AlignLeast`), and so in the buffer.
* `sbe_xip_append` asks for the section with the largest offset and takes it to
  be the last one. `FinalIsLast` is that step: since sections do not overlap, the
  one that starts last also ends last, so appending to it (`ExtendedLayout`) or
  after it (`StartBounds`) meets no byte of another section. `LastExists` says
  that a delete always finds what to cut back to.
* What one call does is stated once, in `AppendResult` and `DeleteResult`; the
  safety theorems follow from them action by action. For the refinement the
  contents of a section are read out of the memory (`ContentsOf`) and "below" is
  the order of the offsets (`BelowIn`); a successful append is a push or an
  extension of the top, a delete is a pop (`StackGrows`, `StackShrinks`).

The run `image` checks the same properties of a larger system, with
normalisation, writes by name and the tool's files; there the theorems say
nothing.

**`DeltaScan_proofs`.** `RingsAreKept` (`NoRingLost`) and `RingsReadBack`
(`ReadsBack`) of `ScanSpec`: any number of runs of `p8_delta_scan_w`, on any
reference image, stopped anywhere, each write ending
anywhere. `ScanSpec` has no building of images and tables, which read the file
and do not write it.

* The inductive invariant is `FileInvariant`. The half about the runs
  (`WritersOK`): at most one works, its copy is the image in the file, and its
  change in memory is going to succeed. The half about the file (`FileOK`): a
  file that passes the check of a run *reflects* the requests that have been
  completed (`Reflects`). An accepted file alone says nothing: after a write
  that ended early the file is not the image of any sequence of requests, and
  what makes it refused is that each ring makes the image longer (`FileWritten`),
  so that the header tells more than the file has.
* `Reflects` says where the block of each request starts in `.rings` or
  `.dcrings`, that blocks lie in the order of their requests, fill the section
  (`Tiled`) and nothing else starts in it. `StartsAppend` is the step: a block
  at the end of data that blocks fill adds one start.
* `Starts` walks from header to header and is a recursive function. What it
  yields is proved without an induction theorem: it is the least set with the
  first cell that is closed under the step (`StartsReached`), because a
  last cell at which two such functions differ would have a successor where they
  do (`LeastNatural`).
* One request is four calls of the layout API: `AppendGrows` and `DeleteShrinks`
  build on `AppendResult` and `DeleteResult`, and say more: on an image without
  padding at its end (`Ready`) a call grows or shrinks it by exactly the data, so
  that `.dcrings` comes back as it was (`AddedToRings`). `PointerWritten` says
  that the forward pointer of a #G ring is written into no ring.
* For the reading, `PairOfSlot` recovers a ring's name from the slot in its
  header, and `WantedPlaced` says that the blocks `p8_delta_scan_r` looks for are
  those of the requests with the same name, level, phase and slot; the first of
  them in the section is the first that was added (`FirstIsRead`).

The assumptions are what the code has. `RingAssumption`: blocks, entries and
sections are multiples of 8 bytes in all programs (a cell), so that the final and
the doubleword alignment are one cell; a vector has at most 32 elements; the slots
of two ring names do not overlap. `ScanAssumption`: the bound of the image is not
larger than the buffer; the reference image the first run finds holds no ring,
has a TOC, ends with its last section, and holds the slots outside of `.rings`
and `.dcrings`. TLC evaluates both on the instance of `customise`.

**`ImageBuild_proofs`.** `BuildImplementsScan`, `BuildKeepsRings` and
`TablesAlwaysApply` (`TablesApply`) of `BuildSpec`: the runs above, then any build
from the file, any VPD rings, the making of the SLW image and any number of
calls that fill its tables.

* `BuildImplementsScan` is the refinement: `BuildSpec` implements `ScanSpec`. A
  build and all that is done to its image leave the file, so the theorems about
  the file hold with them (`BuildKeepsRings`).
* `BuildInvariant` (`BuildInductive`) follows the image of a P8 SLW build.
  `SlwReady` holds from the build to the making of `.slw`: the image is laid out
  (`Shaped`), has none of the sections to come, and outside of its ring sections
  and slots is what the reference image was, so that the pointers to the tables
  are still data of a section that rings do not move and those to the RAM tables
  are zero. It is kept through the removal of `.dcrings` and `.rings`, through
  each program the loop adds, and through each VPD ring.
* `TablesFound` holds once `.slw` is there: the section is where `FixedSlw` says
  if the image is a fixed one, each vector leads to the table of its core, and the
  vectors lie before the section, in no table. An SRAM image leaves the RAM
  vectors zero until the first call for the core; the first cell of the table is
  what tells (`RamsLead`). A call writes one table and at most one vector; what it leaves
  alone is said by `RamOnly` and `ScomOnly`.
* `RamHolds` says that the first `n` cells of a core's RAM table are the registers
  and threads asked for, in some order without repetition, with the last value of
  each, that the last of them has the only end bit and that the rest is zero.
  `n` is not in the code: it is what the search for the end bit comes to. The
  hard cases are a value for a register that is in the table, where the end bit
  stays where it was, and the full table.
* `ScomHolds` says that a SCOM table is entries of its core up to a cell `m` and
  returns from there on to the last cell, which no call reaches. For an address that has been
  appended once the table has no more than one entry, which holds what the calls
  leave (`Told`): a no-op takes it away, and an append may reuse an earlier one's
  place. From this follows that running the table writes what was asked
  (`ScomsHoldAsked`).

`BuildAssumption` and `SlwAssumption` are what a build is given. In the reference
image the pointers to the tables are data of sections other than the ring
sections, those to the RAM tables are zero, no ring's slot is one of them or the
pointer to the runtime SCOMs, the slots are in a section that no build takes off
(`.ipl_data`), and `.slw`, `.fit` and `.ffdc` are not there; the vectors of the
parts do not overlap, the sizes are numbers, a table has at least one entry, and
the Centaur image's bound is within its buffer (`p8_delta_scan_rw.h:29-30` has one
number for both). TLC evaluates both on the instance of `customise`.

**`ImageRings_proofs`.** `EverySlotLeads` (`AllLead`) and `TheLastRingWins`
(`LastRingWins`) of `BuildSpec`, and the invariants they rest on:
`RingsInductive`, `CentaurFileInductive`, `CentaurInductive`. Whatever runs have
made the reference image, whatever is taken off, repacked, compiled, appended and
called afterwards, a slot that is not zero leads to a block that points back to it,
and it is the block of the ring that was added last for the slot and the level and
phase of the image; a slot no ring was added for is zero.

* An image on its way is `Sound`: laid out, `.rings` filled by whole blocks, and
  every slot in a present section of `Home`, the sections that no step takes off,
  adds or appends to. So a slot can only be changed through its name. Each step
  is described by what it carries over (`Carried(img, r, slots)`): blocks stay
  where they are with what they hold, and only the slots named may change. The
  relation composes, which is what makes a build of a dozen calls tractable; for
  the taking off of several sections the module walks the recursive function of
  `Deleted` and needs only that each turn carries.
* A delete or append of another section may move nothing of `.rings`, although the
  image is cut or made longer: `FinalIsLast` and the layout lemmas of
  `XipImage_proofs` again. Setting a pointer writes one cell of `Home`, which no
  block covers.
* The loop over the rings of the reference image is a recursive function of the
  turns taken (`LoopOf`). Its invariant (`SlotsTurned`, `RingsWin`) is about the
  blocks *behind* the place reached: a search returns the first match from there
  on (`NextIs`), matches are in the order of their places, so after a turn the
  slot of the block found leads to its data and all others are as before. At the
  end none is left, and "the last block turned" is "the last block that matches".
  The program of a ring is the value of a function (`Program`) of its data; that
  such a program exists follows for each block from `Reflects` (a block is of a
  completed request).
* Rings of the VPD go to slots of their own (`SlotKinds`); `AllLead` holds of
  them, `LastRingWins` says nothing of them.
* Making `.slw`, `.fit` and `.ffdc` and all calls on the tables write only in
  `.slw` and the table pointers (`TablesOnly`), which are in `Home` and are no
  slots; in an SRAM image too.
* `p8_delta_scan_w_centaur` takes no lock, and overlapping runs do lose rings, so
  `Reflects` is of no use for a Centaur image. What all its runs keep is weaker and
  enough (`CentaurInvariant`): the file, and the image in the hands of each run, is
  a stock of whole blocks, each of an accepted request (`Stocked`). A build is then
  right about the rings the file has (`CentaurLinked`).

What is assumed beyond the above is in `ScanAssumption`: the link editor's image
has no ring sections and its slots are zero (`Unlinked`).

**`Pore_proofs`.** `CompressionReverses`, `RingsComeThrough` (`RingsReach`) and
`OverlaysReplace` (`DatacareReplaces`) of `RingSpec`: any ring from flush state to
hardware, by either program, and any overlay. `MacrosAreRight` (`MacrosCompute`) of
`MacroSpec`: the macros for any arguments.

* `CompressionReverses` says that RS4 loses nothing: for every length and every set
  of bits, decompressing the code of a ring is the ring. The code is written and read
  by functions that go from one turn (a rotate and a scan) to the next. What reading
  has found after some turns is the bits below the nibble reached, and what is left
  of the code is the code of the rest (`ReadTo`); the least turn at which this
  fails stands for the induction (`BulkOK`). Below it, a stop code gives back the
  count it encodes, whatever its length, and is recognised where it ends since only its
  last nibble is 8 or more. That a scan of no nibbles cannot be mistaken for the end is
  that every other run has at least one (`RunEnds`).
* The bound on the code (`CodesAreShort`, `Worst`) needs to know what makes a turn
  expensive. A turn of a short scan is paid for by the two zero nibbles that ended it,
  which is why the statement carries whether the rest starts with zeros (`StartsLow`).
* Of the hardware, an operation changes the bits under the 32-bit register and turns
  the ring. `Part(ring, s, p)` is the ring turned by `p` with the bits of `s` below `p`
  flipped; every operation leads from one part to another (`PartTurns`,
  `PartChanges`), and both programs reach `Part(ring, s, length)`, at which the check
  word is back in the register (`PartEnds`). Writing rather than flipping is right only
  for a flushed ring, and only if the register does not reach round to its
  beginning, where the check word is (`WaysChange`). That is the case where 32 bits or
  more remain; for less the wiggle-flip program keeps the rest of the register, and
  the SBE goes back to flipping.
* The decompressor takes nibbles (`ScanStep`, `IntoIs`), the wiggle-flip program words
  (`FlipStep`, `WiggleFlipIs`), each with rotates split by its own limit.
* `RingsInductive` is the invariant: at each step what is at hand is what the step
  before makes of the wanted difference (`AsItShould`).
* In the overlay, `CareIs` and `TakenIs` put together the care and the data, which
  the code shifts out of two words or bytes; that it comes out right for one to four bits more
  than whole words, and not in general, is `Exact` (section 6).
* A macro is a program, and one program after another runs from where the first ends
  (`RunsOn`). A rotation by any number is a sequence of rotates by 1, 4, 8, 16 and 32,
  of which two are one (`TurnsTwice`), so `..rotlr` rotates by what it is told
  (`RotlrIs`, by the least number for which it does not). `RLDINM` then keeps the bits of
  its mask (`RldinmIs`), which may wrap (`KeptBitsAre`), and `RLDIMI` puts them among
  the others of the target (`RldimiIs`). Every shift, extract and insert is one of these
  two, and its field moves by a constant (`RldinmField`, `RldimiField`). Where the
  assembler refuses a call there is nothing to prove, and that it does not refuse is
  what puts the arguments into range (`RldinmAccepted`).

What is assumed: a ring is at least as long as the register, and none of its first
32 bits is to be changed ("The first 32-bits of the ring data are always zero as a
placeholder for the check word", `proc_sbe_decompress_scan.S:385-389`); a flushed ring is
all zeros; an overlay neither has data nor cares in these 32 bits; rotates are at most
`MaxRotate >= 1`, `ScanMaxRotate >= 32` and `MaxLong >= 32` bits; a long has 32 or 64
bits; macros are called with natural numbers, and return codes are integers. TLC
evaluates these on the instance of `pore`, and has checked `RingsInductive` there. The
rings and overlays that come from the scrubber in `MCPore` need not be such; of these
the run says what the theorems do not.

Only model-checked: liveness, which is out of the prover's reach; the three
properties above whose hypothesis is `NoDoubleFaults` when there are double faults
(where they do not hold); the deadman timer with several boot cores (where it does not hold either);
of the host's programs these:

* `FindsTheSymbol` and `StaysValid`: they say nothing of an image that has a TOC and
  no strings, and a TOC without its strings is not normalized (`Unit` in `XipTool`;
  section 6.2 says what the code would do). The searches of the TOC and the repair of the
  hashed one are folds, and `XipToc` sorts with an operator that is RECURSIVE;
* `ListingIsProgram`: what the code of an instruction decodes to is case by case over
  the instruction set;
* `NothingIsLost` of the scrubber: each pass folds over lines and bits. What it
  wants of an ispy is read from its lines (`Intended` in `Scrub`), not from what
  the scrubber made of them. Left out are the bits and spies the code is known to
  lose (section 6.4): a range that does not end beyond the lines before it, a single
  bit after the first line, guards that are not compared with what they
  name, an espy in several rings, an excluded ring of a variation after the
  first, a ring with a latch that is given twice. Each of the first three makes the
  run fail when it is not left out.

The loops that are proved (`Starts` and `LoopOf` over blocks, the turns of RS4, the
words of the wiggle-flip program, the rotates of `..rotlr`) are recursive functions that only go forward, so that
the least place at which something fails can stand for an induction.

## 6. Divergences between the code and its comments

`claim_stop` and `claim_conditions` are runs that find the violation (`findings`
in `PROJECT.json` quotes both sides). The others were seen while modelling;
where it can be said in the state the model does what the code does.

### 6.1 PTS and SBE

* `STOP` does not stop: the loop tests `PtsState.stopped`, the command writes
  the scheduler state (`claim_stop`).
* `TERMINATE` clears the table entry's thread pointer, not the thread's flags.
* A thread killed by an error in the atomic mode is looked for in SPRG0, which
  holds a branch address. All later uses of SPRG0 are affected.
* An unable chip's PTS is entered by the next deep-idle request.
* A skipped procedure still has its error checks.
* `ptsMainstoreAtomicAdd` stores the whole flag word and so clears
  `HANDLING_ERROR0`: a second error 0 in the handler calls the handler again
  (`pts_api.h:369-373`, `pts_config.h:346-350`).
* After a double fault with an idle request pending, the transition ends in the
  context the FFDC pattern stands for (`pts_structures.h:610-618`).
* `_ptsStart` and the entry from SLW write EMR although interrupts may be
  disabled (`pts.S:1112-1123`, `pts_slw_config.S:400-405`), against
  `pts_api.h:265-266`.
* The DONE override survives a disable and the next enable
  (`pts_slw_config.S:447-471`, `:370-372`).
* An injected SCOM error is not detected under the mask of a thread that
  handles PIB errors (`pts_command.S:222-234`).
* A PIB error in `_ptsStart` is charged to the thread that was current before
  (`pts_error.S:707-728`).
* `pts.S:1126-1140` accepts "Murano DD2.0 onward" but compares the major EC
  for equality with 2.
* `pts_structures.h:211-212` says interrupts are disabled during `maxWait`; the
  code enables them.
* HALT and TRAP are both taken when both are set (`proc_control_bits.H:49-54`
  says either).
* With several boot cores the state machine is read by a multicast AND: cores
  in different states read as another state, and the poll for the goto state
  may never match. The deadman timer then stops a system in which nothing hangs,
  which is why `NoFalseCheckstop` is about one boot core. The boot gets there
  only when `proc_sbe_lco_loader`, which refuses multicast, is skipped.
* The deadman counter is loaded once for all phases
  (`proc_sbe_trigger_winkle_pibmem.S:54-58` speaks of any phase).
* The ICP injection mode is switched off only after SBEVITAL has told Hostboot
  to go on (`proc_sbe_trigger_winkle_pibmem.S:378-388`).
* The I2C lock is dropped at a halt of the control word and is not taken again
  when a debugger goes on.
* An interrupt can come early for a request posted just before an older count
  expires: the request replaces the older one, which has not fired yet.

### 6.2 Images

* `sbe_xip_image.h` says that a call that fails leaves the image unmodified. A
  failing append has written padding or data beyond the sections, and a delete
  of the only section deletes it and fails.
* `sbe_xip_tool` truncates the file before it writes it: stopped in between it
  leaves no image at all.
* A TOC that has lost its strings is sorted by bytes of the header, is marked as
  sorted, and is not sorted again when the strings are back: binary search then
  misses names (`xipSortToc`).
* Without a TOC a name the image does not have is found if a symbol of `.fixed` has its
  hash: `xipHashCollision` compares these symbols among themselves.
* The result of `write()` is not looked at (`p8_delta_scan_w.C:1239`).
* `p8_delta_scan_w_centaur` takes no lock; two runs lose rings. The header of
  its file says system phase 2, the code uses 0; phase 2 cannot be searched for.
* `p8_delta_scan_r` returns the first block that matches, `p8_ipl_build` uses
  the last. Elements of a VPD vector after the first cannot be read back. The
  Centaur's VPD rings go to `.rings`, and are looked for in `.dcrings`.
* `p8_delta_scan_w_centaur` sets the first slot of a ring's name for an override
  too (:1062), so that the base slot may keep a stale pointer after
  `p8_centaur_build`.
* The check of the chiplet's range is `< min && > max` (`p8_delta_scan_w.C:225`)
  and never fails.
* `write_vpd_ring_to_slw_image` fills with halts before it checks the size;
  `over_write_ring_data_in_image` checks none, and has no callers.
* When the append to `.rings` fails, `.dcrings` has already been taken off and
  is lost for the image in memory. A ring without a name is written through its
  back pointer.
* An SCOM append that finds an earlier NOP puts the new value before an older
  entry of the same address, which then wins.
* In SRAM mode a RAM call on an empty table answers END_NOT_FOUND.
* `p8_ipl_build` reads the reference image without the lock.

### 6.3 Assembler, macros and rings

* `disassembleSection` of `sbe_xip_tool` uses a stale `sizeData2`, and compares
  one return code with 100 and then with 1000.
* BRAZ and BRANZ are checked against 21 bits of distance although the comment
  speaks of 20 signed ones: a branch that passes may go elsewhere.
* A context whose creation fails keeps what is left of it, stays usable, and an
  excursion of its location underflows. Errors are not sticky except for load
  and store: `create_wiggle_flip_prg` checks only the last two, so that a lost
  update goes unnoticed when 4 to 8 bytes remain. A fixup accepts a source that
  is not yet assembled. A disassembly after an excursion starts elsewhere.
* The ranges of some field macros: `..d0d1` uses `&&` for `||`; N < 0 is
  refused where the comment says "N > 0", and `insldi`/`insrdi` with n = 0
  replace the whole register; `insldi` with b = 0, `rotrdi` and `srdi` with n = 0
  are refused, as SH would be 64. `li` and `mr` take other destinations in
  `pgas.h` than in the inline assembler.
* `p8_scan_compression.C:423` states a worst case of 17m + 2 nibbles, the code
  of a ring can have 17m + 3.
* The overlay with a datacare ring: a shift by 32 for whole words is undefined,
  the rest is put right only for lengths of 32k + 1 to 32k + 4, the last data
  byte runs into the care bits (`Exact` in `RingScan`).
* `p8_delta_scan_w` reads the last word of a ring file with `strtol`: where a long
  has 32 bits, a last word of 32 bits that begins with a one is read as the
  greatest long.
* The estimate for a generated program is 4 times the ring; words that are not
  flushed need 5, polling more. The result is then an error, not an overrun.

### 6.4 The scrubber

* A fourth condition of a spy is not looked at (`claim_conditions`).
* "Covered by other spy in set" (`ifScrubSpydef.C:382`) does not hold when only a
  variation after the first is in an excluded ring: the spy is lost. The lines of
  an excluded ring are not counted, although :389-392 says the bits must stay in
  step.
* The bits of an espy in two rings all go to the last one. Two bits for one latch
  stop the ring's queue, and the rest of it is silently lost, as are rings and
  latches the scandef does not have, though the image's number of rings counts
  them (`ifScrubScandef.C:181`). A ring without bits reads the front of an
  empty queue. A plain exclusion under another EC's header reads a stale token.
* Of an espy's lines the filter wants a fourth token (`ifScrubInitfile.C:1088`):
  `VALUE, def_SIM, any;` always applies. An ispy takes the first line of its
  environment whatever its expression says; its IPLMODE line uses a stale value
  (:1214), `ec =` assigns (:1190) and `ec ==` is always true; a second line of one
  bit is skipped as found (:1145). `(avpTestCase == NONE)` never applies, since
  the parenthesis is compared too (:1197, unlike :1178).
* `setBuffer` marks a range as valid only if it ends beyond all before it
  (`ifScrubDataSpec.C:78`): its other bits are set but not distributed. In an or,
  the value of a RISK_LEVEL clause is lent to a later EC clause (:315-332), and
  `clauseIsFalse` is not initialised (:195).
* An input that cannot be opened is reported and read all the same: a stream that
  was never open does not come to its end, and the pass never ends (`Missing`).
* The image is marked as valid after any end of the loop over the scandef, whether
  the rings are all there or not.
* Where a zone of an eplatch that is in follows another one that is in, its parity
  has ten latches more, from the last line of the first on (`Overrun`).
* Reading `P_DefinesMap[]` puts in an empty definition, and the real one is then
  ignored. A `SYS.ATTR` condition ends the program. The open of the flush dump
  checks the other file (:147), the bound of a word's number is `>` (:447, :580).

## 7. Not modelled, and what could come next

Not modelled: the bodies of the initialisation procedures and of the Centaur
SBE (straight-line SCOM sequences; every boot property holds whatever they do),
the loaders and the gear switch, PBA slave set-up, the power and clock steps of a
deep-idle transition, FFDC contents; on the host the printing of reports, the
JTAG and p5ioc2 outputs of the scrubber, and `p8_slw_build` and
`p8_xip_customize`, which call what `ImageBuild` models and are not in the
repository.

What could come next:

1. **A module for one deep-idle transition** of `proc_slw_base.S`, composed with
   `PtsSlw` in the place of its single step `SlwDone`.
2. **The VPD's rings in `LastRingWins`**: that a slot of the VPD leads to the ring
   that was added last, from the invariant of `ImageRings_proofs` and a record of
   the calls.
3. **Loaders and the gear switch**: copy loops with wraps and timeouts.
