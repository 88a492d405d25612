----------------------------- MODULE Sbe_proofs -----------------------------
(***************************************************************************)
(* Proofs about the boot and the two services, for every sequence of       *)
(* procedures, configuration, chip and table of rings.  SBEVITAL, the I2C  *)
(* lock and the mailboxes are shared, and each halt, handshake and request *)
(* is several instructions of the engine between which other actors step:  *)
(* the invariants say what they hold at each place, sbe.pc.                *)
(***************************************************************************)
EXTENDS Sbe, FiniteSetTheorems, TLAPS

(* Where the engine stops with success, where it is between the read and   *)
(* the write of SBEVITAL, and where it is in the interrupt service.        *)
GoodStops == {"done", "slaveHalt", "entryHalt", "exitHalt"}
StorePCs == {"winkleReady", "started", "waking", "awake"}
Serving == IntrPCs \ {"intrEntry"}

(* The fields the words have: an update of one leaves the others.          *)
Fields ==
    /\ DOMAIN sbe = {"pc", "at", "rc", "ex", "ctr", "pos", "loaded", "odd",
                     "request", "offset", "left"}
    /\ DOMAIN vital = {"proc", "step", "halt"}
    /\ DOMAIN mbox = {"request", "response", "intr", "torn"}
    /\ DOMAIN host = {"phase", "owed", "waits", "expected"}

(* The halt code is FATAL but at a stop with success.                      *)
HaltOK == vital.halt = IF sbe.pc \in GoodStops THEN "SUCCESS" ELSE "FATAL"

(* The FSP may have the bus at a good stop and when the boot is over.      *)
LockOK == sbe.pc \in GoodStops \cup (WinklePCs \ {"winkleEntry"}) \cup IntrPCs => ~lock

(* The step that SBEVITAL holds at each place of the winkle handshake.     *)
(* Hostboot writes it only at steps 1 and 5, so never between a read and   *)
(* the write of the engine.                                                *)
StepOK ==
    /\ sbe.pc = "body" /\ Item.proc = "trigger_winkle" => vital.step = 0
    /\ sbe.pc \in {"winkleEntry", "winkleReady"} => vital.step = 0
    /\ sbe.pc = "started" => vital.step = DEADMAN_START
    /\ sbe.pc \in {"pollWinkle", "wake", "waking"} => vital.step = WAITING_FOR_WINKLE
    /\ sbe.pc \in {"unblock", "ipi", "pollGoto", "pollIdle", "awake"}
           => vital.step = WAITING_FOR_WAKEUP
    /\ sbe.pc \in StorePCs => sbe.loaded = vital

(* The inductive invariant of the boot.                                    *)
BootInv == Fields /\ HaltOK /\ LockOK /\ StepOK

(* At power-on the invariant holds.                                        *)
LEMMA BootInit == Init => BootInv
BY DEF Init, BootInv, Fields, HaltOK, LockOK, StepOK, GoodStops, WinklePCs, IntrPCs, StorePCs

(* The sequence goes on with a prologue or an epilogue, or ends.           *)
LEMMA ArriveAtPc ==
    ASSUME Fields, NEW i, ArriveAt(i)
    PROVE  /\ DOMAIN sbe' = DOMAIN sbe
           /\ sbe'.pc \in {"epilogue", "prologue", "end"}
           /\ sbe'.at \in (1 .. Len(Program)) \cup {sbe.at}
<1>1. CASE \E j \in 1 .. Len(Program) :
              sbe' = [sbe EXCEPT !.at = j,
                         !.pc = IF Program[j].part = "exit" THEN "epilogue" ELSE "prologue"]
  <2>1. PICK j \in 1 .. Len(Program) :
              sbe' = [sbe EXCEPT !.at = j,
                         !.pc = IF Program[j].part = "exit" THEN "epilogue" ELSE "prologue"]
    BY <1>1
  <2>2. CASE Program[j].part = "exit"
    BY <2>1, <2>2 DEF Fields
  <2>3. CASE Program[j].part # "exit"
    BY <2>1, <2>3 DEF Fields
  <2> QED BY <2>2, <2>3
<1>2. CASE sbe' = [sbe EXCEPT !.pc = "end"]
  BY <1>2 DEF Fields
<1> QED BY <1>1, <1>2 DEF ArriveAt

(* A stop by an error only changes where the engine is and the reason.     *)
LEMMA ErrorHaltPc ==
    ASSUME Fields, NEW rc, ErrorHalt(rc)
    PROVE  DOMAIN sbe' = DOMAIN sbe /\ sbe'.pc = "errorHalt" /\ sbe'.at = sbe.at
BY DEF ErrorHalt, Fields

(* The sequence of the isteps, its checks and its halts keep it.           *)
LEMMA IstepBoot == BootInv /\ IstepStep => BootInv'
<1> SUFFICES ASSUME BootInv, IstepStep PROVE BootInv'
    OBVIOUS
<1> USE DEF BootInv, Fields, HaltOK, LockOK, StepOK, GoodStops, WinklePCs, IntrPCs,
            StorePCs, At, Goto, others, Entered, GoodHalt, HaltedWell, HaltOrNot
<1>1. CASE LockI2c BY <1>1 DEF LockI2c
<1>2. CASE UnknownChip BY <1>2, ErrorHaltPc DEF UnknownChip
<1>3. CASE I2cReset BY <1>3 DEF I2cReset
<1>4. CASE CheckMagic
  <2>1. CASE cfg.i2c = "magic" BY <1>4, <2>1, ErrorHaltPc DEF CheckMagic
  <2>2. CASE cfg.i2c # "magic" BY <1>4, <2>2, ArriveAtPc DEF CheckMagic
  <2> QED BY <2>1, <2>2
<1>5. CASE EntryHalt BY <1>5 DEF EntryHalt
<1>6. CASE EntryTrap BY <1>6 DEF EntryTrap, TrapOrNot
<1>7. CASE Skip BY <1>7 DEF Skip
<1>8. CASE Enter
  <2>1. CASE Item.part = "enter" BY <1>8, <2>1, ArriveAtPc DEF Enter
  <2>2. CASE Item.part # "enter" BY <1>8, <2>2 DEF Enter
  <2> QED BY <2>1, <2>2
<1>9. CASE ExitCheck
  <2>1. CASE Item.checks /\ Detected # {} BY <1>9, <2>1, ErrorHaltPc DEF ExitCheck
  <2>2. CASE ~(Item.checks /\ Detected # {}) BY <1>9, <2>2 DEF ExitCheck
  <2> QED BY <2>1, <2>2
<1>10. CASE ExitHalt BY <1>10 DEF ExitHalt
<1>11. CASE ExitTrap BY <1>11 DEF ExitTrap, TrapOrNot
<1>12. CASE Return BY <1>12, ArriveAtPc DEF Return
<1>13. CASE Complete BY <1>13 DEF Complete
<1>14. CASE BodyReturns BY <1>14 DEF BodyReturns, PlainBody
<1>15. CASE BodyFails BY <1>15, ErrorHaltPc DEF BodyFails, PlainBody
<1>16. CASE TpChipletInit1 BY <1>16 DEF TpChipletInit1, Body
<1> QED BY <1>1, <1>2, <1>3, <1>4, <1>5, <1>6, <1>7, <1>8, <1>9, <1>10, <1>11,
           <1>12, <1>13, <1>14, <1>15, <1>16 DEF IstepStep

(* The choice of the master and of the boot core keeps it.                 *)
LEMMA MasterBoot == BootInv /\ MasterStep => BootInv'
<1> SUFFICES ASSUME BootInv, MasterStep PROVE BootInv'
    OBVIOUS
<1> USE DEF BootInv, Fields, HaltOK, LockOK, StepOK, GoodStops, WinklePCs, IntrPCs,
            StorePCs, At, Goto, others, HaltedWell, Body, Magic, SlaveStop
<1>1. CASE MasterWithoutCore BY <1>1, ErrorHaltPc DEF MasterWithoutCore
<1>2. CASE SlaveStops BY <1>2 DEF SlaveStops
<1>3. CASE SlaveServesScans BY <1>3 DEF SlaveServesScans
<1>4. CASE TreatedAsMaster BY <1>4 DEF TreatedAsMaster
<1>5. CASE MasterBoots BY <1>5, ErrorHaltPc DEF MasterBoots
<1>6. CASE EnablePnor BY <1>6 DEF EnablePnor
<1>7. CASE SelectAll BY <1>7 DEF SelectAll
<1>8. CASE SelectOne BY <1>8 DEF SelectOne
<1>a. ASSUME NEW again \in BootPCs \ {"body"}, NEW rc, Rotate(again, rc)
      PROVE  DOMAIN sbe' = DOMAIN sbe /\ sbe'.pc \in {again, "errorHalt"}
  <2>1. CASE sbe.ctr > 0 BY <1>a, <2>1 DEF Rotate
  <2>2. CASE ~(sbe.ctr > 0) BY <1>a, <2>2 DEF Rotate
  <2> QED BY <2>1, <2>2
<1>9. CASE FindFirst
  <2>1. CASE BootCore(sbe.pos) BY <1>9, <2>1 DEF FindFirst
  <2>2. CASE ~BootCore(sbe.pos)
    <3>1. DOMAIN sbe' = DOMAIN sbe /\ sbe'.pc \in {"findFirst", "errorHalt"}
      BY <1>9, <2>2, <1>a DEF FindFirst, BootPCs
    <3> QED BY <1>9, <3>1 DEF FindFirst
  <2> QED BY <2>1, <2>2
<1>10. CASE FirstFound BY <1>10 DEF FirstFound
<1>11. CASE RotateSecond
  <2>1. DOMAIN sbe' = DOMAIN sbe /\ sbe'.pc \in {"findSecond", "errorHalt"}
    BY <1>11, <1>a DEF RotateSecond, BootPCs
  <2> QED BY <1>11, <2>1 DEF RotateSecond
<1>12. CASE FindSecond BY <1>12 DEF FindSecond
<1>13. CASE Selected BY <1>13 DEF Selected
<1>14. CASE HostRuntimeScom BY <1>14 DEF HostRuntimeScom
<1>15. CASE TriggerWinkle BY <1>15 DEF TriggerWinkle
<1> QED BY <1>1, <1>2, <1>3, <1>4, <1>5, <1>6, <1>7, <1>8, <1>9, <1>10, <1>11,
           <1>12, <1>13, <1>14, <1>15 DEF MasterStep

(* Each place of proc_sbe_trigger_winkle keeps it, in particular the       *)
(* stores of SBEVITAL, which write what was loaded before.                 *)
LEMMA WinkleBoot == BootInv /\ WinkleEngine => BootInv'
<1> SUFFICES ASSUME BootInv, WinkleEngine PROVE BootInv'
    OBVIOUS
<1> USE DEF BootInv, Fields, HaltOK, LockOK, StepOK, GoodStops, WinklePCs, IntrPCs,
            StorePCs, At, Goto, others, HaltedWell, Load, Store, WinkleStep,
            SBE_READY, DEADMAN_START, WAITING_FOR_WINKLE, WAITING_FOR_WAKEUP,
            WAITING_FOR_HOSTBOOT, HOSTBOOT_ALIVE
<1>a. ASSUME NEW rc, PollAgain(rc) PROVE /\ DOMAIN sbe' = DOMAIN sbe
                                        /\ sbe'.pc \in {sbe.pc, "errorHalt"}
                                        /\ UNCHANGED <<vital, lock, mbox, host>>
                                        /\ sbe'.loaded = sbe.loaded
  BY <1>a DEF PollAgain, ErrorHalt
<1>1. CASE WinkleEntry BY <1>1 DEF WinkleEntry, Unlock
<1>2. CASE WinkleReady BY <1>2 DEF WinkleReady
<1>3. CASE PollStart BY <1>3 DEF PollStart
<1>4. CASE Started BY <1>4 DEF Started
<1>5. CASE PollWinkle
  <2>1. CASE InWinkle BY <1>5, <2>1 DEF PollWinkle
  <2>2. CASE ~InWinkle BY <1>5, <2>2, <1>a DEF PollWinkle
  <2> QED BY <2>1, <2>2
<1>6. CASE Wake
  <2>1. /\ sbe.pc = "wake" /\ sbe'.pc \in {"success", "waking"} /\ UNCHANGED <<vital, lock>>
        /\ sbe'.pc = "waking" => sbe'.loaded = vital
        /\ DOMAIN sbe' = DOMAIN sbe /\ UNCHANGED <<mbox, host>>
    BY <1>6 DEF Wake
  <2> QED BY <2>1
<1>7. CASE Waking BY <1>7 DEF Waking
<1>8. CASE Unblock BY <1>8 DEF Unblock
<1>9. CASE Ipi BY <1>9 DEF Ipi
<1>10. CASE PollGoto
  <2>1. CASE FsmRead = PORE_GOTO_CMD BY <1>10, <2>1 DEF PollGoto
  <2>2. CASE FsmRead # PORE_GOTO_CMD BY <1>10, <2>2, <1>a DEF PollGoto
  <2> QED BY <2>1, <2>2
<1>11. CASE PollIdle
  <2>1. CASE FsmRead = {}
    <3>1. /\ sbe.pc = "pollIdle" /\ sbe'.pc = "awake" /\ sbe'.loaded = vital
          /\ DOMAIN sbe' = DOMAIN sbe /\ UNCHANGED <<vital, lock, mbox, host>>
      BY <1>11, <2>1 DEF PollIdle
    <3> QED BY <3>1
  <2>2. CASE FsmRead # {} BY <1>11, <2>2, <1>a DEF PollIdle
  <2> QED BY <2>1, <2>2
<1>12. CASE Awake BY <1>12 DEF Awake
<1>13. CASE IcpOff BY <1>13 DEF IcpOff
<1>14. CASE PollAlive
  <2>1. CASE WinkleStep(HOSTBOOT_ALIVE) BY <1>14, <2>1 DEF PollAlive
  <2>2. CASE ~WinkleStep(HOSTBOOT_ALIVE) BY <1>14, <2>2, <1>a DEF PollAlive
  <2> QED BY <2>1, <2>2
<1>15. CASE Success BY <1>15 DEF Success
<1> QED BY <1>1, <1>2, <1>3, <1>4, <1>5, <1>6, <1>7, <1>8, <1>9, <1>10, <1>11,
           <1>12, <1>13, <1>14, <1>15 DEF WinkleEngine

(* The interrupt service keeps it: only its halt request stops it.         *)
LEMMA IntrBoot == BootInv /\ IntrStep => BootInv'
<1> SUFFICES ASSUME BootInv, IntrStep PROVE BootInv'
    OBVIOUS
<1> USE DEF BootInv, Fields, HaltOK, LockOK, StepOK, GoodStops, WinklePCs, IntrPCs,
            StorePCs, At, Goto, others, HaltedWell, Magic
<1>1. CASE IntrEntry BY <1>1 DEF IntrEntry
<1>2. CASE IntrWait BY <1>2 DEF IntrWait
<1>3. CASE IntrRead BY <1>3 DEF IntrRead
<1>4. CASE IntrClear BY <1>4 DEF IntrClear
<1>5. CASE IntrHalt BY <1>5 DEF IntrHalt
<1>6. CASE LoadDecrementer BY <1>6 DEF LoadDecrementer
<1>7. CASE Decrement BY <1>7 DEF Decrement
<1> QED BY <1>1, <1>2, <1>3, <1>4, <1>5, <1>6, <1>7 DEF IntrStep

(* The scan service keeps it, also where it stops by an error.             *)
LEMMA ScanBoot == BootInv /\ ScanStep => BootInv'
<1> SUFFICES ASSUME BootInv, ScanStep PROVE BootInv'
    OBVIOUS
<1> USE DEF BootInv, Fields, HaltOK, LockOK, StepOK, GoodStops, WinklePCs, IntrPCs,
            StorePCs, At, Goto, others, HaltedWell, Magic, Step
<1>1. CASE ScanEntry BY <1>1 DEF ScanEntry
<1>2. CASE ScanPrep BY <1>2 DEF ScanPrep
<1>3. CASE ScanReady BY <1>3 DEF ScanReady
<1>4. CASE ScanPoll BY <1>4 DEF ScanPoll
<1>5. CASE SaveRequest BY <1>5 DEF SaveRequest
<1>6. CASE ScanHalt BY <1>6 DEF ScanHalt
<1>7. CASE InvalidOperation BY <1>7, ErrorHaltPc DEF InvalidOperation
<1>8. CASE Decode BY <1>8 DEF Decode
<1>9. CASE SetRing BY <1>9 DEF SetRing
<1>10. CASE ModRing BY <1>10 DEF ModRing
<1>11. CASE RotateToMod BY <1>11 DEF RotateToMod, RotateRing
<1>12. CASE Flip BY <1>12 DEF Flip
<1>13. CASE RotateToEnd BY <1>13 DEF RotateToEnd, RotateRing
<1>14. CASE HeaderCheck BY <1>14 DEF HeaderCheck
<1>15. CASE CheckwordError BY <1>15, ErrorHaltPc DEF CheckwordError
<1>16. CASE Respond BY <1>16 DEF Respond
<1> QED BY <1>1, <1>2, <1>3, <1>4, <1>5, <1>6, <1>7, <1>8, <1>9, <1>10, <1>11,
           <1>12, <1>13, <1>14, <1>15, <1>16 DEF ScanStep

(* The debugger, Hostboot, the chiplets and the attentions keep it,        *)
(* wherever the engine is.                                                 *)
LEMMA OthersBoot ==
    BootInv /\ (UpdateStep \/ RaiseAttention \/ Continue \/ WinkleHost \/ PostInterrupt
                \/ PostScan \/ CollectScan \/ UNCHANGED vars) => BootInv'
<1> SUFFICES ASSUME BootInv,
                    UpdateStep \/ RaiseAttention \/ Continue \/ WinkleHost \/ PostInterrupt
                    \/ PostScan \/ CollectScan \/ UNCHANGED vars
             PROVE  BootInv'
    OBVIOUS
<1> USE DEF BootInv, Fields, HaltOK, LockOK, StepOK, GoodStops, WinklePCs, IntrPCs,
            StorePCs, At, Goto, others, Item, WinkleStep,
            SBE_READY, DEADMAN_START, WAITING_FOR_WINKLE, WAITING_FOR_WAKEUP,
            WAITING_FOR_HOSTBOOT, HOSTBOOT_ALIVE
<1>1. CASE UpdateStep BY <1>1 DEF UpdateStep, PlainBody, Modelled
<1>2. CASE RaiseAttention BY <1>2 DEF RaiseAttention, PlainBody
<1>3. CASE ContinueEntry BY <1>3 DEF ContinueEntry, Continued
<1>4. CASE ContinueTrap BY <1>4 DEF ContinueTrap
<1>5. CASE ContinueExit BY <1>5 DEF ContinueExit, Continued
<1>6. CASE HostStarts BY <1>6 DEF HostStarts
<1>7. CASE HostWinkles BY <1>7 DEF HostWinkles
<1>8. CASE ChipletMoves BY <1>8 DEF ChipletMoves
<1>9. CASE HostAlive BY <1>9 DEF HostAlive
<1>10. CASE PostInterrupt
  <2>1. DOMAIN mbox' = DOMAIN mbox
    BY <1>10, Zenon DEF PostInterrupt
  <2>2. DOMAIN host' = DOMAIN host
    BY <1>10, Zenon DEF PostInterrupt
  <2>3. UNCHANGED <<sbe, vital, lock>>
    BY <1>10, Zenon DEF PostInterrupt
  <2> QED BY <2>1, <2>2, <2>3
<1>11. CASE PostScan
  <2>1. DOMAIN mbox' = DOMAIN mbox
    BY <1>11, Zenon DEF PostScan
  <2>2. DOMAIN host' = DOMAIN host
    BY <1>11, Zenon DEF PostScan
  <2>3. UNCHANGED <<sbe, vital, lock>>
    BY <1>11, Zenon DEF PostScan
  <2> QED BY <2>1, <2>2, <2>3
<1>12. CASE CollectScan BY <1>12 DEF CollectScan
<1>13. CASE UNCHANGED vars BY <1>13 DEF vars
<1> QED BY <1>1, <1>2, <1>3, <1>4, <1>5, <1>6, <1>7, <1>8, <1>9, <1>10, <1>11,
           <1>12, <1>13 DEF Continue, WinkleHost

(* In every behaviour SBEVITAL, the lock and the loaded word are as the    *)
(* place of the engine says.                                               *)
THEOREM BootInvariant == Spec => []BootInv
<1>1. BootInv /\ [Next]_vars => BootInv'
  BY IstepBoot, MasterBoot, WinkleBoot, IntrBoot, ScanBoot, OthersBoot
     DEF Next, EngineStep, Polls
<1> QED BY BootInit, <1>1, PTL DEF Spec

(* The halt code of SBEVITAL tells a good stop from an error stop, also    *)
(* when a debugger has gone on from a halt before.                         *)
THEOREM HaltCodesTell == Spec => []HaltCodeTells
<1>1. BootInv => HaltCodeTells
  BY DEF BootInv, HaltOK, HaltCodeTells, GoodStops
<1> QED BY BootInvariant, <1>1, PTL

(* No stop with success leaves the FSP locked out of the I2C bus.          *)
THEOREM GoodHaltsUnlock == Spec => []GoodHaltUnlocked
<1>1. BootInv => GoodHaltUnlocked
  BY DEF BootInv, LockOK, GoodHaltUnlocked, GoodStops
<1> QED BY BootInvariant, <1>1, PTL

(* No write of SBEVITAL by Hostboot falls between a load and a store of    *)
(* the winkle handshake.                                                   *)
THEOREM WritesSurvive == Spec => []NoWriteLost
<1>1. BootInv => NoWriteLost
  BY DEF BootInv, StepOK, NoWriteLost, StorePCs
<1> QED BY BootInvariant, <1>1, PTL

(***************************************************************************)
(* The interrupt service: where a request that is owed an interrupt can be *)
(* is followed through the read and the clear of the mailbox.              *)
(***************************************************************************)
(* A request is in the mailbox, counted down, or in the engine's hands;    *)
(* Hostboot wants an interrupt, or may get one for a torn request.         *)
Pending == mbox.intr # NoRequest
Counting == sbe.ctr > 0
Held == sbe.request.kind # "none"
Wanted == host.owed \/ mbox.torn

(* The invariant of the service: an owed interrupt is somewhere at each    *)
(* place of the loop, and whatever is somewhere is wanted. Outside of the  *)
(* service nothing is owed and SBEVITAL does not invite requests.          *)
IntrOK ==
    /\ mbox.intr \in IntrRequests \cup {NoRequest}
    /\ sbe.pc \notin Serving \cup {"done"} => ~host.owed /\ ~mbox.torn
    /\ sbe.at \in 1 .. Len(Program)
    /\ vital.proc = "intr_service" =>
          sbe.pc \in Serving \/ (sbe.pc = "done" /\ vital.step = HALT_SUCCESS)
    /\ sbe.pc \in Serving => sbe.ctr \in Nat /\ (sbe.odd <=> sbe.pc \in {"intrRead", "intrClear"})
    /\ sbe.pc \in {"intrClear", "intrCheck"} => sbe.request \in IntrRequests \cup {NoRequest}
    /\ sbe.pc \in {"intrWait", "intrRead"} /\ host.owed => Pending \/ Counting
    /\ sbe.pc = "intrClear" /\ host.owed => Held \/ Counting
    /\ sbe.pc = "intrCheck" /\ host.owed => Pending \/ Held \/ Counting
    /\ sbe.pc \in Serving /\ (Pending \/ Counting) => Wanted
    /\ sbe.pc \in {"intrClear", "intrCheck"} /\ Held => Wanted

(* The inductive invariant of the boot and the service.                    *)
ServiceInv == BootInv /\ IntrOK

(* The sequence has an item, where the engine is at power-on.              *)
LEMMA ProgramStarts == 1 \in 1 .. Len(Program)
<1>1. Program \in Seq([proc : STRING, part : Parts, checks : BOOLEAN, always : BOOLEAN])
  BY SbeAssumption, Zenon DEF SbeAssumption
<1>2. Program # <<>>
  BY ProgramAssumption, Zenon DEF ProgramAssumption
<1> QED BY <1>1, <1>2

(* No .callproc enters the interrupt service, which follows the sequence.  *)
LEMMA NoServiceCalled == \A i \in 1 .. Len(Program) : Program[i].proc # "intr_service"
BY ProgramAssumption DEF ProgramAssumption, Procs

(* At power-on nothing is posted and nothing owed.                         *)
LEMMA IntrInit == Init => IntrOK
BY ProgramStarts DEF Init, IntrOK, Serving, IntrPCs, Held

(* Each place of proc_sbe_intr_service keeps the invariant of the service: *)
(* read, clear, count, and the interrupt at the 1 -> 0 transition.         *)
LEMMA IntrIntr == ServiceInv /\ IntrStep => IntrOK'
<1> SUFFICES ASSUME ServiceInv, IntrStep PROVE IntrOK'
    OBVIOUS
<1>0. /\ NoRequest.kind = "none"
      /\ \A r \in IntrRequests : r # NoRequest /\ r.kind # "none"
      /\ \A r \in IntrRequests : r.kind = "count" => r.count \in Nat
  <2>1. MaxCount \in Nat
    BY SbeAssumption, Zenon DEF SbeAssumption
  <2>2. NoRequest.kind = "none"
    BY DEF NoRequest
  <2>3. ASSUME NEW r \in IntrRequests
        PROVE  r # NoRequest /\ r.kind # "none" /\ (r.kind = "count" => r.count \in Nat)
    <3>1. CASE r \in [kind : {"count"}, count : 0 .. MaxCount]
      BY <2>1, <2>2, <3>1
    <3>2. CASE r = [kind |-> "halt"]
      BY <2>2, <3>2
    <3> QED BY <3>1, <3>2, <2>3 DEF IntrRequests
  <2> QED BY <2>2, <2>3
<1> USE DEF ServiceInv, BootInv, Fields, IntrOK, Serving, IntrPCs, ServesInterrupts, Pending,
            Counting, Held, Wanted, At, Goto, others, HaltedWell, Magic, HALT_SUCCESS
<1>1. CASE IntrEntry
  <2>1. /\ sbe'.pc = "intrWait" /\ sbe'.ctr = 0 /\ sbe'.odd = FALSE
        /\ sbe'.at = sbe.at /\ sbe.pc = "intrEntry" /\ UNCHANGED host
    BY <1>1, Zenon DEF IntrEntry, Fields
  <2>2. mbox'.intr = NoRequest /\ mbox'.torn = mbox.torn
    BY <1>1, Zenon DEF IntrEntry, Fields
  <2>3. ~host.owed /\ ~mbox.torn
    BY <2>1 DEF Serving, IntrPCs
  <2> QED BY <2>1, <2>2, <2>3
<1>2. CASE IntrWait BY <1>0, <1>2 DEF IntrWait
<1>3. CASE IntrRead BY <1>0, <1>3 DEF IntrRead
<1>4. CASE IntrClear BY <1>0, <1>4 DEF IntrClear
<1>5. CASE IntrHalt BY <1>0, <1>5 DEF IntrHalt
<1>6. CASE LoadDecrementer BY <1>0, <1>6 DEF LoadDecrementer, Clamped
<1>7. CASE Decrement
  <2>1. CASE Fires
    <3>1. mbox' = [mbox EXCEPT !.torn = mbox.intr.kind = "halt"]
      BY <1>7, <2>1, Zenon DEF Decrement
    <3>2. host' = [host EXCEPT !.owed = mbox.intr.kind = "count"]
      BY <1>7, <2>1, Zenon DEF Decrement
    <3>3. sbe'.pc = "intrWait" /\ sbe'.ctr = 0 /\ sbe'.odd = sbe.odd /\ sbe'.at = sbe.at
      BY <1>7, <2>1 DEF Decrement, Decremented, Fires
    <3>4. mbox'.intr = mbox.intr /\ (mbox'.torn <=> mbox.intr.kind = "halt")
      BY <3>1, Zenon
    <3>5. host'.owed <=> mbox.intr.kind = "count"
      BY <3>2, Zenon
    <3>6. mbox.intr.kind \in {"none", "count", "halt"}
          /\ (mbox.intr # NoRequest => mbox.intr.kind # "none")
      BY <1>0 DEF IntrRequests
    <3>7. ~sbe.odd /\ UNCHANGED vital /\ sbe.pc = "intrCheck"
      BY <1>7, Zenon DEF Decrement
    <3> QED BY <1>0, <3>3, <3>4, <3>5, <3>6, <3>7
  <2>2. CASE ~Fires
    BY <1>0, <1>7, <2>2 DEF Decrement, Decremented, Fires
  <2> QED BY <2>1, <2>2
<1> QED BY <1>1, <1>2, <1>3, <1>4, <1>5, <1>6, <1>7 DEF IntrStep

(* A step of the engine outside of the service.                            *)
Moved ==
    /\ sbe.pc \notin Serving \cup {"done"} /\ sbe'.pc \notin Serving
    /\ sbe'.at \in 1 .. Len(Program)
    /\ mbox'.intr = mbox.intr /\ mbox'.torn = mbox.torn /\ host'.owed = host.owed
    /\ vital'.proc # "intr_service"

(* A step of another actor that has nothing to do with the service.        *)
Kept ==
    /\ UNCHANGED sbe
    /\ mbox'.intr = mbox.intr /\ mbox'.torn = mbox.torn /\ host'.owed = host.owed
    /\ vital' = vital \/ vital'.proc # "intr_service"

(* Both keep the invariant of the service.                                 *)
LEMMA MovedIntr == ServiceInv /\ (Moved \/ Kept) => IntrOK'
<1> SUFFICES ASSUME ServiceInv, Moved \/ Kept PROVE IntrOK'
    OBVIOUS
<1>1. CASE Moved
  BY <1>1 DEF ServiceInv, IntrOK, Moved, Serving, IntrPCs, Pending, Counting, Held, Wanted
<1>2. CASE Kept
  BY <1>2 DEF ServiceInv, IntrOK, Kept, Serving, IntrPCs, Pending, Counting, Held, Wanted
<1> QED BY <1>1, <1>2

(* The istep sequence has nothing to do with the service: it enters no     *)
(* item of it, and a skip lands at an item of the sequence.                *)
LEMMA IstepMoved == ServiceInv /\ IstepStep => Moved
<1> SUFFICES ASSUME ServiceInv, IstepStep PROVE Moved
    OBVIOUS
<1>0. /\ sbe.pc \notin Serving \cup {"done"} => vital.proc # "intr_service"
      /\ sbe.at \in 1 .. Len(Program)
  BY DEF ServiceInv, IntrOK
<1> USE <1>0 DEF ServiceInv, BootInv, Fields, Moved, Serving, IntrPCs, At, Goto, others,
            Entered, GoodHalt, HaltedWell, HaltOrNot
<1>1. CASE LockI2c BY <1>1 DEF LockI2c
<1>2. CASE UnknownChip BY <1>2, ErrorHaltPc DEF UnknownChip
<1>3. CASE I2cReset BY <1>3 DEF I2cReset
<1>4. CASE CheckMagic
  <2>1. CASE cfg.i2c = "magic" BY <1>4, <2>1, ErrorHaltPc DEF CheckMagic
  <2>2. CASE cfg.i2c # "magic" BY <1>4, <2>2, ArriveAtPc DEF CheckMagic
  <2> QED BY <2>1, <2>2
<1>5. CASE EntryHalt BY <1>5 DEF EntryHalt
<1>6. CASE EntryTrap BY <1>6 DEF EntryTrap, TrapOrNot
<1>7. CASE Skip
  <2>1. ReturnOf(sbe.at) \in 1 .. Len(Program)
    <3>1. CASE Program[sbe.at].part = "enter"
      BY <1>0, <3>1, ProgramAssumption DEF ReturnOf, ProgramAssumption
    <3>2. CASE Program[sbe.at].part # "enter"
      BY <1>0, <3>2 DEF ReturnOf
    <3> QED BY <3>1, <3>2
  <2> QED BY <1>7, <2>1 DEF Skip
<1>8. CASE Enter
  <2>1. Item.proc # "intr_service"
    BY NoServiceCalled DEF Item
  <2>2. CASE Item.part = "enter" BY <1>8, <2>1, <2>2, ArriveAtPc DEF Enter
  <2>3. CASE Item.part # "enter" BY <1>8, <2>1, <2>3 DEF Enter
  <2> QED BY <2>2, <2>3
<1>9. CASE ExitCheck
  <2>1. CASE Item.checks /\ Detected # {} BY <1>9, <2>1, ErrorHaltPc DEF ExitCheck
  <2>2. CASE ~(Item.checks /\ Detected # {}) BY <1>9, <2>2 DEF ExitCheck
  <2> QED BY <2>1, <2>2
<1>10. CASE ExitHalt BY <1>10 DEF ExitHalt
<1>11. CASE ExitTrap BY <1>11 DEF ExitTrap, TrapOrNot
<1>12. CASE Return BY <1>12, ArriveAtPc DEF Return
<1>13. CASE Complete BY <1>13 DEF Complete
<1>14. CASE BodyReturns BY <1>14 DEF BodyReturns, PlainBody
<1>15. CASE BodyFails BY <1>15, ErrorHaltPc DEF BodyFails, PlainBody
<1>16. CASE TpChipletInit1 BY <1>16 DEF TpChipletInit1, Body
<1> QED BY <1>1, <1>2, <1>3, <1>4, <1>5, <1>6, <1>7, <1>8, <1>9, <1>10, <1>11,
           <1>12, <1>13, <1>14, <1>15, <1>16 DEF IstepStep

(* Nor have the choice of the master and of the boot core.                 *)
LEMMA MasterMoved == ServiceInv /\ MasterStep => Moved
<1> SUFFICES ASSUME ServiceInv, MasterStep PROVE Moved
    OBVIOUS
<1>0. /\ sbe.pc \notin Serving \cup {"done"} => vital.proc # "intr_service"
      /\ sbe.at \in 1 .. Len(Program)
  BY DEF ServiceInv, IntrOK
<1> USE <1>0 DEF ServiceInv, BootInv, Fields, Moved, Serving, IntrPCs, At, Goto, others,
            HaltedWell, Body, Magic, SlaveStop
<1>1. CASE MasterWithoutCore BY <1>1, ErrorHaltPc DEF MasterWithoutCore
<1>2. CASE SlaveStops BY <1>2 DEF SlaveStops
<1>3. CASE SlaveServesScans BY <1>3 DEF SlaveServesScans
<1>4. CASE TreatedAsMaster BY <1>4 DEF TreatedAsMaster
<1>5. CASE MasterBoots BY <1>5, ErrorHaltPc DEF MasterBoots
<1>6. CASE EnablePnor BY <1>6 DEF EnablePnor
<1>7. CASE SelectAll BY <1>7 DEF SelectAll
<1>8. CASE SelectOne BY <1>8 DEF SelectOne
<1>a. ASSUME NEW again \in BootPCs, NEW rc, Rotate(again, rc)
      PROVE  sbe'.pc \in {again, "errorHalt"} /\ sbe'.at = sbe.at
  <2>1. CASE sbe.ctr > 0 BY <1>a, <2>1 DEF Rotate
  <2>2. CASE ~(sbe.ctr > 0) BY <1>a, <2>2 DEF Rotate
  <2> QED BY <2>1, <2>2
<1>9. CASE FindFirst
  <2>1. CASE BootCore(sbe.pos) BY <1>9, <2>1 DEF FindFirst
  <2>2. CASE ~BootCore(sbe.pos)
    <3>1. sbe'.pc \in {"findFirst", "errorHalt"} /\ sbe'.at = sbe.at
      BY <1>9, <2>2, <1>a DEF FindFirst, BootPCs
    <3> QED BY <1>9, <3>1 DEF FindFirst
  <2> QED BY <2>1, <2>2
<1>10. CASE FirstFound BY <1>10 DEF FirstFound
<1>11. CASE RotateSecond
  <2>1. sbe'.pc \in {"findSecond", "errorHalt"} /\ sbe'.at = sbe.at
    BY <1>11, <1>a DEF RotateSecond, BootPCs
  <2> QED BY <1>11, <2>1 DEF RotateSecond
<1>12. CASE FindSecond BY <1>12 DEF FindSecond
<1>13. CASE Selected BY <1>13 DEF Selected
<1>14. CASE HostRuntimeScom BY <1>14 DEF HostRuntimeScom
<1>15. CASE TriggerWinkle BY <1>15 DEF TriggerWinkle
<1> QED BY <1>1, <1>2, <1>3, <1>4, <1>5, <1>6, <1>7, <1>8, <1>9, <1>10, <1>11,
           <1>12, <1>13, <1>14, <1>15 DEF MasterStep

(* The winkle handshake leads up to the service; what it stores in         *)
(* SBEVITAL it has loaded, so no name of the service comes back.           *)
LEMMA WinkleMoved == ServiceInv /\ WinkleEngine => Moved
<1> SUFFICES ASSUME ServiceInv, WinkleEngine PROVE Moved
    OBVIOUS
<1>0. /\ sbe.pc \notin Serving \cup {"done"} => vital.proc # "intr_service"
      /\ sbe.at \in 1 .. Len(Program)
      /\ sbe.pc \in StorePCs => sbe.loaded = vital
  BY DEF ServiceInv, IntrOK, BootInv, StepOK
<1> USE <1>0 DEF ServiceInv, BootInv, Fields, Moved, Serving, IntrPCs, StorePCs, At, Goto,
            others, HaltedWell, Load, Store
<1>a. ASSUME NEW rc, PollAgain(rc) PROVE /\ sbe'.pc \in {sbe.pc, "errorHalt"}
                                        /\ sbe'.at = sbe.at
                                        /\ UNCHANGED <<vital, lock, mbox, host>>
  BY <1>a DEF PollAgain, ErrorHalt
<1>1. CASE WinkleEntry BY <1>1 DEF WinkleEntry, Unlock
<1>2. CASE WinkleReady BY <1>2 DEF WinkleReady
<1>3. CASE PollStart BY <1>3 DEF PollStart
<1>4. CASE Started BY <1>4 DEF Started
<1>5. CASE PollWinkle
  <2>1. CASE InWinkle BY <1>5, <2>1 DEF PollWinkle
  <2>2. CASE ~InWinkle BY <1>5, <2>2, <1>a DEF PollWinkle
  <2> QED BY <2>1, <2>2
<1>6. CASE Wake BY <1>6 DEF Wake
<1>7. CASE Waking BY <1>7 DEF Waking
<1>8. CASE Unblock BY <1>8 DEF Unblock
<1>9. CASE Ipi BY <1>9 DEF Ipi
<1>10. CASE PollGoto
  <2>1. CASE FsmRead = PORE_GOTO_CMD BY <1>10, <2>1 DEF PollGoto
  <2>2. CASE FsmRead # PORE_GOTO_CMD BY <1>10, <2>2, <1>a DEF PollGoto
  <2> QED BY <2>1, <2>2
<1>11. CASE PollIdle
  <2>1. CASE FsmRead = {} BY <1>11, <2>1 DEF PollIdle
  <2>2. CASE FsmRead # {} BY <1>11, <2>2, <1>a DEF PollIdle
  <2> QED BY <2>1, <2>2
<1>12. CASE Awake BY <1>12 DEF Awake
<1>13. CASE IcpOff BY <1>13 DEF IcpOff
<1>14. CASE PollAlive
  <2>1. CASE WinkleStep(HOSTBOOT_ALIVE) BY <1>14, <2>1 DEF PollAlive
  <2>2. CASE ~WinkleStep(HOSTBOOT_ALIVE) BY <1>14, <2>2, <1>a DEF PollAlive
  <2> QED BY <2>1, <2>2
<1>15. CASE Success BY <1>15 DEF Success
<1> QED BY <1>1, <1>2, <1>3, <1>4, <1>5, <1>6, <1>7, <1>8, <1>9, <1>10, <1>11,
           <1>12, <1>13, <1>14, <1>15 DEF WinkleEngine


(* The scan service touches other fields of the mailboxes.                 *)
LEMMA ScanMoved == ServiceInv /\ ScanStep => Moved
<1> SUFFICES ASSUME ServiceInv, ScanStep PROVE Moved
    OBVIOUS
<1>0. /\ sbe.pc \notin Serving \cup {"done"} => vital.proc # "intr_service"
      /\ sbe.at \in 1 .. Len(Program)
  BY DEF ServiceInv, IntrOK
<1> USE <1>0 DEF ServiceInv, BootInv, Fields, Moved, Serving, IntrPCs, At, Goto,
            others, HaltedWell, Magic, Step
<1>1. CASE ScanEntry BY <1>1 DEF ScanEntry
<1>2. CASE ScanPrep BY <1>2 DEF ScanPrep
<1>3. CASE ScanReady BY <1>3 DEF ScanReady
<1>4. CASE ScanPoll BY <1>4 DEF ScanPoll
<1>5. CASE SaveRequest BY <1>5 DEF SaveRequest
<1>6. CASE ScanHalt BY <1>6 DEF ScanHalt
<1>7. CASE InvalidOperation BY <1>7, ErrorHaltPc DEF InvalidOperation
<1>8. CASE Decode BY <1>8 DEF Decode
<1>9. CASE SetRing BY <1>9 DEF SetRing
<1>10. CASE ModRing BY <1>10 DEF ModRing
<1>11. CASE RotateToMod BY <1>11 DEF RotateToMod, RotateRing
<1>12. CASE Flip BY <1>12 DEF Flip
<1>13. CASE RotateToEnd BY <1>13 DEF RotateToEnd, RotateRing
<1>14. CASE HeaderCheck BY <1>14 DEF HeaderCheck
<1>15. CASE CheckwordError BY <1>15, ErrorHaltPc DEF CheckwordError
<1>16. CASE Respond BY <1>16 DEF Respond
<1> QED BY <1>1, <1>2, <1>3, <1>4, <1>5, <1>6, <1>7, <1>8, <1>9, <1>10, <1>11,
           <1>12, <1>13, <1>14, <1>15, <1>16 DEF ScanStep

(* A request that Hostboot posts, in or out of the critical section, is    *)
(* pending, and owed or torn.                                              *)
LEMMA PostIntr == ServiceInv /\ PostInterrupt => IntrOK'
<1> SUFFICES ASSUME ServiceInv, PostInterrupt PROVE IntrOK'
    OBVIOUS
<1>1. PICK r \in IntrRequests :
        /\ ServesInterrupts
        /\ mbox' = [mbox EXCEPT !.intr = r, !.torn = (@ \/ sbe.odd \/ r.kind = "halt")]
        /\ host' = [host EXCEPT !.owed = (@ \/ ~sbe.odd) /\ r.kind = "count"]
        /\ UNCHANGED <<sbe, vital>>
  BY Zenon DEF PostInterrupt
<1>2. mbox'.intr = r /\ (mbox'.torn <=> mbox.torn \/ sbe.odd \/ r.kind = "halt")
  BY <1>1, Zenon DEF ServiceInv, BootInv, Fields
<1>3. host'.owed <=> (host.owed \/ ~sbe.odd) /\ r.kind = "count"
  BY <1>1, Zenon DEF ServiceInv, BootInv, Fields
<1>4. r # NoRequest /\ r.kind \in {"count", "halt"}
  BY DEF IntrRequests, NoRequest
<1>5. sbe.pc \in Serving /\ sbe'.pc = sbe.pc /\ UNCHANGED <<sbe, vital>>
  BY <1>1 DEF ServiceInv, IntrOK, ServesInterrupts, HALT_SUCCESS
<1>6. Wanted'
  BY <1>2, <1>3, <1>4, Zenon DEF Wanted
<1> QED BY <1>2, <1>3, <1>4, <1>5, <1>6
        DEF ServiceInv, IntrOK, Serving, IntrPCs, Pending, Counting, Held

(* The other actors leave the service's mailbox and its counter alone.     *)
LEMMA OthersKept ==
    ServiceInv /\ (UpdateStep \/ RaiseAttention \/ WinkleHost \/ PostScan \/ CollectScan
                   \/ UNCHANGED vars) => Kept
<1> SUFFICES ASSUME ServiceInv,
                    UpdateStep \/ RaiseAttention \/ WinkleHost \/ PostScan \/ CollectScan
                    \/ UNCHANGED vars
             PROVE  Kept
    OBVIOUS
<1> USE DEF ServiceInv, BootInv, Fields, Kept, others, WinkleStep
<1>1. CASE UpdateStep
  <2>1. vital.proc # "intr_service"
    BY <1>1 DEF UpdateStep, PlainBody, At, IntrOK, Serving, IntrPCs
  <2> QED BY <1>1, <2>1 DEF UpdateStep
<1>2. CASE RaiseAttention BY <1>2 DEF RaiseAttention
<1>3. CASE HostStarts BY <1>3 DEF HostStarts
<1>4. CASE HostWinkles BY <1>4 DEF HostWinkles
<1>5. CASE ChipletMoves BY <1>5 DEF ChipletMoves
<1>6. CASE HostAlive BY <1>6 DEF HostAlive
<1>7. CASE PostScan
  <2>1. mbox'.intr = mbox.intr /\ mbox'.torn = mbox.torn /\ host'.owed = host.owed
    BY <1>7, Zenon DEF PostScan
  <2>2. UNCHANGED <<sbe, vital>>
    BY <1>7, Zenon DEF PostScan
  <2> QED BY <2>1, <2>2
<1>8. CASE CollectScan BY <1>8 DEF CollectScan
<1>9. CASE UNCHANGED vars BY <1>9 DEF vars
<1> QED BY <1>1, <1>2, <1>3, <1>4, <1>5, <1>6, <1>7, <1>8, <1>9 DEF WinkleHost

(* A debugger goes on only where the sequence has halted or trapped.       *)
LEMMA ContinueMoved == ServiceInv /\ Continue => Moved
<1> SUFFICES ASSUME ServiceInv, Continue PROVE Moved
    OBVIOUS
<1>0. /\ sbe.pc \notin Serving \cup {"done"} => vital.proc # "intr_service"
      /\ sbe.at \in 1 .. Len(Program)
  BY DEF ServiceInv, IntrOK
<1> USE <1>0 DEF ServiceInv, BootInv, Fields, Moved, Serving, IntrPCs, At, Goto, others
<1>1. CASE ContinueEntry BY <1>1 DEF ContinueEntry, Continued
<1>2. CASE ContinueTrap BY <1>2 DEF ContinueTrap
<1>3. CASE ContinueExit BY <1>3 DEF ContinueExit, Continued
<1> QED BY <1>1, <1>2, <1>3 DEF Continue

(* In every behaviour SBEVITAL, the lock, the mailbox and the counter are  *)
(* as the place of the engine says.                                        *)
THEOREM ServiceInvariant == Spec => []ServiceInv
<1>1. Init => ServiceInv
  BY BootInit, IntrInit DEF ServiceInv
<1>2. ServiceInv /\ [Next]_vars => IntrOK'
  BY IstepMoved, MasterMoved, WinkleMoved, ScanMoved, ContinueMoved, OthersKept,
     MovedIntr, IntrIntr, PostIntr DEF Next, EngineStep, Polls
<1>3. ServiceInv /\ [Next]_vars => BootInv'
  BY IstepBoot, MasterBoot, WinkleBoot, IntrBoot, ScanBoot, OthersBoot
     DEF ServiceInv, Next, EngineStep, Polls
<1>4. ServiceInv /\ [Next]_vars => ServiceInv'
  BY <1>2, <1>3 DEF ServiceInv
<1> QED BY <1>1, <1>4, PTL DEF Spec

(* A request for an interrupt is in the mailbox, in the engine's hands or  *)
(* counted down until its interrupt has come.                              *)
THEOREM OwedInterruptIsPending == Spec => []OwedIsPending
<1>1. ServiceInv => OwedIsPending
  BY DEF ServiceInv, IntrOK, OwedIsPending, InHand, Serving, IntrPCs, Pending, Counting, Held
<1> QED BY ServiceInvariant, <1>1, PTL

(* Hostboot gets no interrupt that it has not asked for.                   *)
THEOREM NoInterruptUnasked == Spec => []NoSpuriousInterrupt
<1>1. ServiceInv => NoSpuriousInterrupt
  BY DEF ServiceInv, IntrOK, NoSpuriousInterrupt, Interrupted, Fires, At, Serving, IntrPCs,
         Counting, Wanted
<1> QED BY ServiceInvariant, <1>1, PTL

(***************************************************************************)
(* The scan service: what the rings and the two mailboxes hold at each     *)
(* place, and what the host expects of them.                               *)
(***************************************************************************)
IdlePCs == {"scanPrep", "scanReady", "scanPoll"}
TurnPCs == {"rotateToMod", "flip", "rotateToEnd", "header"}
BusyPCs == {"decode", "setRing", "modRing", "respond"} \cup TurnPCs
HeldPCs == BusyPCs \cup {"scanSave"}
ScanStops == {"slaveHalt", "errorHalt"}

(* The rings that a request makes of the rings s.                          *)
After(r, s) ==
    IF r.kind = "halt" THEN s
    ELSE IF r.op = BASE THEN [s EXCEPT ![r.ring] = {}]
    ELSE IF InTable(r) THEN [s EXCEPT ![r.ring] = Toggle(@, OffsetOf(r))]
    ELSE s
Shadow == [r \in Rings |-> ring[r].shadow]

ScanType ==
    /\ DOMAIN ring = Rings
    /\ \A r \in Rings : DOMAIN ring[r] = {"pos", "bits", "shadow"}
    /\ DOMAIN host.expected = Rings
    /\ DOMAIN mbox.response = {"valid", "request"}

(* The host may post only where the engine polls or has just taken what    *)
(* the host then waits for.                                                *)
ReadyOK ==
    vital.proc = "scan_service" =>
        /\ sbe.pc \in (ScanPCs \ {"scanEntry"}) \cup ScanStops
        /\ vital.step = SBE_READY => sbe.pc \in {"scanPoll", "scanSave"}

(* Either the engine has a request of the host or the host has an answer,  *)
(* or neither.                                                             *)
TalkOK ==
    /\ mbox.response.valid = TRUE =>
          /\ host.waits = TRUE /\ sbe.pc \in IdlePCs
          /\ sbe.pc # "scanPrep" => mbox.request = NoRequest
          /\ mbox.response.request \in ScanRequests /\ mbox.response.request.kind = "scan"
    /\ sbe.pc = "scanReady" => mbox.request = NoRequest
    /\ sbe.pc = "scanPoll" => mbox.request \in ScanRequests \cup {NoRequest}
    /\ sbe.pc = "scanPoll" /\ mbox.request # NoRequest => host.waits = TRUE
    /\ sbe.pc \in IdlePCs /\ host.waits = TRUE =>
          mbox.response.valid = TRUE \/ (sbe.pc = "scanPoll" /\ mbox.request # NoRequest)
    /\ sbe.pc \notin IdlePCs \cup HeldPCs \cup ScanStops => host.waits = FALSE
    /\ sbe.pc \in HeldPCs => sbe.request \in ScanRequests /\ host.waits = TRUE
    /\ sbe.pc \in BusyPCs => sbe.request.kind = "scan" /\ mbox.response.request = sbe.request
    /\ sbe.pc \in BusyPCs \ {"decode", "respond"} => Supported(sbe.request)
    /\ sbe.pc = "setRing" => sbe.request.op = BASE
    /\ sbe.pc \in {"modRing"} \cup TurnPCs => sbe.request.op # BASE

(* A ring is at rest but while a bit of it is flipped, which takes a turn  *)
(* of the ring in two parts.                                               *)
RingsOK ==
    /\ sbe.pc \notin ScanStops =>
          \A r \in Rings : (sbe.pc \in TurnPCs => r # TheRing) =>
              ring[r].pos = 0 /\ ring[r].bits = ring[r].shadow
    /\ sbe.pc \in TurnPCs => sbe.offset = OffsetOf(sbe.request) /\ ring[TheRing].pos \in Nat
    /\ sbe.pc \in {"rotateToMod", "flip"} =>
          /\ sbe.left \in Nat /\ ring[TheRing].pos + sbe.left = sbe.offset
          /\ ring[TheRing].bits = ring[TheRing].shadow
    /\ sbe.pc = "flip" => sbe.left = 0
    /\ sbe.pc \in {"rotateToEnd", "header"} =>
          ring[TheRing].bits = Toggle(ring[TheRing].shadow, sbe.offset)
    /\ sbe.pc = "rotateToEnd" =>
          sbe.left \in Nat /\ ring[TheRing].pos + sbe.left = RingLength[TheRing]
    /\ sbe.pc = "header" => ring[TheRing].pos = 0

(* What the host expects is what the request that is not yet done makes of *)
(* the rings.                                                              *)
ExpectOK ==
    /\ sbe.pc \notin ScanStops \cup HeldPCs \cup {"scanPoll"} \/ sbe.pc = "respond" =>
          host.expected = Shadow
    /\ sbe.pc = "scanPoll" =>
          host.expected = IF mbox.request = NoRequest THEN Shadow
                          ELSE After(mbox.request, Shadow)
    /\ sbe.pc \in HeldPCs \ {"respond"} => host.expected = After(sbe.request, Shadow)

ScanOK == ScanType /\ ReadyOK /\ TalkOK /\ RingsOK /\ ExpectOK
ScanInv == ServiceInv /\ ScanOK

(* What the proofs need of the constants.                                  *)
LEMMA ScanConstants ==
    /\ \A r \in Rings : RingLength[r] \in Nat /\ RingLength[r] > 0
    /\ MaxRotate \in Nat
    /\ \A r \in ScanRequests : r.kind = "scan" /\ r.op # BASE /\ Supported(r) =>
          InTable(r) /\ OffsetOf(r) \in Nat /\ OffsetOf(r) < RingLength[r.ring]
<1>1. \A r \in Rings : RingLength[r] \in Nat \ {0}
  BY SbeAssumption, Zenon DEF SbeAssumption
<1>2. MaxRotate \in Nat \ {0}
  BY SbeAssumption, Zenon DEF SbeAssumption
<1>3. \A r \in ScanRequests : r.kind = "scan" /\ r.op # BASE /\ Supported(r) =>
          InTable(r) /\ OffsetOf(r) \in 0 .. RingLength[r.ring] - 1
  BY TableAssumption, Zenon DEF TableAssumption
<1>4. \A r \in ScanRequests : r.kind = "scan" => r.ring \in Rings
  BY DEF ScanRequests
<1>5. \A n \in Nat \ {0} : \A k \in 0 .. n - 1 : k \in Nat /\ k < n
  OBVIOUS
<1>6. \A r \in ScanRequests : r.kind = "scan" /\ r.op # BASE /\ Supported(r) =>
          InTable(r) /\ OffsetOf(r) \in Nat /\ OffsetOf(r) < RingLength[r.ring]
  BY <1>1, <1>3, <1>4, <1>5
<1> QED BY <1>1, <1>2, <1>6

(* What a request of the host may be.                                    *)
LEMMA ScanKinds ==
    /\ \A r \in ScanRequests : r.kind \in {"scan", "halt"}
    /\ \A r \in ScanRequests : r.kind = "scan" => r.ring \in Rings
    /\ NoRequest \notin ScanRequests
BY DEF ScanRequests, NoRequest

(* A turn of a ring ends where it began.                                   *)
LEMMA Turns ==
    \A n \in Nat : n > 0 => n % n = 0 /\ \A k \in Nat : k < n => k % n = k
OBVIOUS

(* The host expects of a request what the service makes of it.           *)
LEMMA ExpectedAfter == \A r : Expected(r) = After(r, host.expected)
BY DEF Expected, After

(* A step elsewhere in the boot, in the handshake or in the interrupt      *)
(* service, where nothing of the scans changes.                            *)
FarPCs == BootPCs \cup WinklePCs \cup IntrPCs
ScanKept ==
    /\ UNCHANGED ring
    /\ DOMAIN mbox' = DOMAIN mbox /\ DOMAIN host' = DOMAIN host
    /\ mbox'.request = mbox.request /\ mbox'.response = mbox.response
    /\ host'.waits = host.waits /\ host'.expected = host.expected
Far ==
    /\ ScanKept
    /\ sbe.pc \in FarPCs
    /\ sbe'.pc \in FarPCs \cup ScanStops \cup {"scanEntry", "done"}
    /\ vital'.proc # "scan_service"

(* Such a step keeps the invariant of the scans.                         *)
LEMMA FarScan == ScanInv /\ Far => ScanOK'
<1> SUFFICES ASSUME ScanInv, Far PROVE ScanOK'
    OBVIOUS
<1>1. /\ sbe.pc \notin IdlePCs \cup HeldPCs \cup ScanStops
      /\ sbe'.pc \notin IdlePCs \cup HeldPCs
  BY DEF Far, FarPCs, BootPCs, WinklePCs, IntrPCs, IdlePCs, HeldPCs, BusyPCs, TurnPCs, ScanStops
<1>2. ScanType'
  BY DEF ScanInv, ScanOK, ScanType, Far, ScanKept
<1>3. ReadyOK'
  BY DEF Far, ReadyOK
<1>4. TalkOK'
  BY <1>1 DEF ScanInv, ScanOK, TalkOK, Far, ScanKept, IdlePCs, HeldPCs, BusyPCs, TurnPCs
<1>5. RingsOK'
  <2>1. \A r \in Rings : ring[r].pos = 0 /\ ring[r].bits = ring[r].shadow
    BY <1>1 DEF ScanInv, ScanOK, RingsOK, HeldPCs, BusyPCs
  <2>2. sbe'.pc \notin TurnPCs
    BY <1>1 DEF HeldPCs, BusyPCs
  <2> QED BY <2>1, <2>2 DEF RingsOK, Far, ScanKept, TurnPCs
<1>6. ExpectOK'
  <2>1. host.expected = Shadow
    BY <1>1 DEF ScanInv, ScanOK, ExpectOK, IdlePCs
  <2> QED BY <1>1, <2>1
          DEF ExpectOK, Far, ScanKept, Shadow, IdlePCs, HeldPCs, BusyPCs
<1> QED BY <1>2, <1>3, <1>4, <1>5, <1>6 DEF ScanOK

(* A step of another actor that leaves the engine and the scans alone.     *)
Apart ==
    /\ ScanKept /\ UNCHANGED sbe
    /\ vital'.proc = "scan_service" => vital'.proc = vital.proc /\ vital'.step = vital.step

(* So does one that leaves the engine alone.                             *)
LEMMA ApartScan == ScanInv /\ Apart => ScanOK'
<1> SUFFICES ASSUME ScanInv, Apart PROVE ScanOK'
    OBVIOUS
<1>2. ScanType'
  BY DEF ScanInv, ScanOK, ScanType, Apart, ScanKept
<1>3. ReadyOK'
  BY DEF ScanInv, ScanOK, Apart, ReadyOK
<1>4. TalkOK'
  BY DEF ScanInv, ScanOK, TalkOK, Apart, ScanKept
<1>5. RingsOK'
  BY DEF ScanInv, ScanOK, RingsOK, Apart, ScanKept, TheRing
<1>6. ExpectOK'
  BY DEF ScanInv, ScanOK, ExpectOK, Apart, ScanKept, Shadow, After
<1> QED BY <1>2, <1>3, <1>4, <1>5, <1>6 DEF ScanOK

(* What holds where no request is served, for the lemmas on the steps far  *)
(* from the scans.                                                         *)
LEMMA FarReady ==
    ScanInv => /\ Fields /\ sbe.at \in 1 .. Len(Program)
               /\ sbe.pc \in FarPCs => vital.proc # "scan_service"
               /\ sbe.pc \in StorePCs => sbe.loaded = vital
               /\ Item.proc # "scan_service"
<1> SUFFICES ASSUME ScanInv
             PROVE  /\ Fields /\ sbe.at \in 1 .. Len(Program)
                    /\ sbe.pc \in FarPCs => vital.proc # "scan_service"
                    /\ sbe.pc \in StorePCs => sbe.loaded = vital
                    /\ Item.proc # "scan_service"
    OBVIOUS
<1>1. Fields /\ sbe.at \in 1 .. Len(Program) /\ (sbe.pc \in StorePCs => sbe.loaded = vital)
  BY DEF ScanInv, ServiceInv, BootInv, IntrOK, StepOK
<1>2. sbe.pc \in FarPCs => vital.proc # "scan_service"
  BY DEF ScanInv, ScanOK, ReadyOK, FarPCs, BootPCs, WinklePCs, IntrPCs, ScanPCs, ScanStops
<1>3. Item.proc # "scan_service"
  <2>1. Program[sbe.at].proc \in Procs
    BY <1>1 DEF Procs
  <2> QED BY <2>1, ProgramAssumption DEF ProgramAssumption, Item
<1> QED BY <1>1, <1>2, <1>3

(* The sequence and the master of the boot are far from the scans.         *)
LEMMA IstepFar == ScanInv /\ (IstepStep \/ Continue) => Far
<1> SUFFICES ASSUME ScanInv, IstepStep \/ Continue PROVE Far
    OBVIOUS
<1>0. /\ Fields
      /\ sbe.pc \in FarPCs => vital.proc # "scan_service"
      /\ Item.proc # "scan_service"
  BY FarReady
<1> HIDE DEF ScanInv
<1>1. UNCHANGED <<mbox, host, ring>>
  BY DEF IstepStep, Continue, LockI2c, UnknownChip, I2cReset, CheckMagic, EntryHalt, EntryTrap,
         Skip, Enter, ExitCheck, ExitHalt, ExitTrap, Return, Complete, BodyReturns, BodyFails,
         TpChipletInit1, ContinueEntry, ContinueTrap, ContinueExit, others
<1>b. sbe.pc \in BootPCs
  BY DEF IstepStep, Continue, LockI2c, UnknownChip, I2cReset, CheckMagic, EntryHalt, EntryTrap,
         Skip, Enter, ExitCheck, ExitHalt, ExitTrap, Return, Complete, BodyReturns, BodyFails,
         TpChipletInit1, ContinueEntry, ContinueTrap, ContinueExit, At, PlainBody, Body, BootPCs
<1>c. vital.proc # "scan_service"
  BY <1>0, <1>b DEF FarPCs
<1> USE <1>0, <1>c DEF Fields, At, Goto, Entered, GoodHalt, HaltedWell, HaltOrNot, BootPCs
<1>2. /\ vital'.proc # "scan_service"
      /\ sbe'.pc \in BootPCs \cup {"errorHalt", "done"}
  <2>1. CASE LockI2c \/ I2cReset
    <3>1. CASE LockI2c
      BY <3>1 DEF LockI2c
    <3>2. CASE I2cReset
      BY <3>2 DEF I2cReset
    <3> QED BY <2>1, <3>1, <3>2
  <2>2. CASE UnknownChip \/ BodyFails
    BY <2>2, ErrorHaltPc DEF UnknownChip, BodyFails, PlainBody
  <2>3. CASE CheckMagic
    <3>1. CASE cfg.i2c = "magic"
      BY <2>3, <3>1, ErrorHaltPc DEF CheckMagic
    <3>2. CASE cfg.i2c # "magic"
      BY <2>3, <3>2, ArriveAtPc DEF CheckMagic
    <3> QED BY <3>1, <3>2
  <2>4. CASE EntryHalt \/ ExitHalt \/ Complete
    BY <2>4 DEF EntryHalt, ExitHalt, Complete
  <2>5. CASE EntryTrap \/ ExitTrap
    BY <2>5 DEF EntryTrap, ExitTrap, TrapOrNot
  <2>6. CASE Skip \/ BodyReturns \/ TpChipletInit1
    BY <2>6 DEF Skip, BodyReturns, PlainBody, TpChipletInit1, Body
  <2>7. CASE Enter
    <3>1. CASE Item.part = "enter"
      BY <2>7, <3>1, ArriveAtPc DEF Enter
    <3>2. CASE Item.part # "enter"
      BY <2>7, <3>2 DEF Enter
    <3> QED BY <3>1, <3>2
  <2>8. CASE ExitCheck
    <3>1. CASE Item.checks /\ Detected # {}
      BY <2>8, <3>1, ErrorHaltPc DEF ExitCheck
    <3>2. CASE ~(Item.checks /\ Detected # {})
      BY <2>8, <3>2 DEF ExitCheck
    <3> QED BY <3>1, <3>2
  <2>9. CASE Return
    BY <2>9, ArriveAtPc DEF Return
  <2>10. CASE Continue
    <3>1. CASE ContinueEntry \/ ContinueExit
      BY <3>1 DEF ContinueEntry, ContinueExit, Continued
    <3>2. CASE ContinueTrap
      BY <3>2 DEF ContinueTrap
    <3> QED BY <2>10, <3>1, <3>2 DEF Continue
  <2> QED BY <2>1, <2>2, <2>3, <2>4, <2>5, <2>6, <2>7, <2>8, <2>9, <2>10 DEF IstepStep
<1> QED BY <1>1, <1>b, <1>2 DEF Far, FarPCs, ScanStops, ScanKept

(* So is the choice of the master and of the boot core; a slave that is to *)
(* serve gets to the entry of the scan service.                            *)
LEMMA MasterFar == ScanInv /\ MasterStep => Far
<1> SUFFICES ASSUME ScanInv, MasterStep PROVE Far
    OBVIOUS
<1>0. /\ Fields
      /\ sbe.pc \in FarPCs => vital.proc # "scan_service"
  BY FarReady
<1> HIDE DEF ScanInv
<1>1. UNCHANGED <<mbox, host, ring>>
  BY DEF MasterStep, MasterWithoutCore, SlaveStops, SlaveServesScans, TreatedAsMaster,
         MasterBoots, EnablePnor, SelectAll, SelectOne, FindFirst, FirstFound, RotateSecond,
         FindSecond, Selected, HostRuntimeScom, TriggerWinkle, SlaveStop, others
<1>b. sbe.pc \in BootPCs
  BY DEF MasterStep, MasterWithoutCore, SlaveStops, SlaveServesScans, TreatedAsMaster,
         MasterBoots, EnablePnor, SelectAll, SelectOne, FindFirst, FirstFound, RotateSecond,
         FindSecond, Selected, HostRuntimeScom, TriggerWinkle, At, Body, BootPCs
<1>c. vital.proc # "scan_service"
  BY <1>0, <1>b DEF FarPCs
<1> USE <1>0, <1>c DEF Fields, At, Goto, HaltedWell, Body, Magic, SlaveStop, BootPCs
<1>2. /\ vital'.proc # "scan_service"
      /\ sbe'.pc \in BootPCs \cup {"errorHalt", "slaveHalt", "scanEntry", "winkleEntry"}
  <2>a. ASSUME NEW again \in BootPCs, NEW rc, Rotate(again, rc)
        PROVE  sbe'.pc \in {again, "errorHalt"}
    <3>1. CASE sbe.ctr > 0
      BY <2>a, <3>1 DEF Rotate
    <3>2. CASE ~(sbe.ctr > 0)
      <4>1. sbe' = [sbe EXCEPT !.pc = "errorHalt", !.rc = rc, !.pos = @ + 1]
        BY <2>a, <3>2 DEF Rotate
      <4> QED BY <4>1, Zenon
    <3> QED BY <3>1, <3>2
  <2>1. CASE MasterWithoutCore \/ MasterBoots
    BY <2>1, ErrorHaltPc DEF MasterWithoutCore, MasterBoots
  <2>2. CASE SlaveStops \/ SlaveServesScans \/ TreatedAsMaster
    BY <2>2 DEF SlaveStops, SlaveServesScans, TreatedAsMaster
  <2>3. CASE EnablePnor \/ HostRuntimeScom \/ TriggerWinkle
    BY <2>3 DEF EnablePnor, HostRuntimeScom, TriggerWinkle
  <2>4. CASE SelectAll \/ SelectOne \/ Selected
    BY <2>4 DEF SelectAll, SelectOne, Selected
  <2>5. CASE FindFirst
    BY <2>5, <2>a DEF FindFirst
  <2>6. CASE FirstFound \/ FindSecond
    BY <2>6 DEF FirstFound, FindSecond
  <2>7. CASE RotateSecond
    <3>1. sbe'.pc \in {"findSecond", "errorHalt"}
      BY <2>7, <2>a DEF RotateSecond
    <3> QED BY <2>7, <3>1 DEF RotateSecond
  <2> QED BY <2>1, <2>2, <2>3, <2>4, <2>5, <2>6, <2>7 DEF MasterStep
<1> QED BY <1>1, <1>b, <1>2 DEF Far, FarPCs, WinklePCs, ScanStops, ScanKept

(* So are the handshake and the interrupt service.                         *)
LEMMA WinkleFar == ScanInv /\ (WinkleEngine \/ IntrStep) => Far
<1> SUFFICES ASSUME ScanInv, WinkleEngine \/ IntrStep PROVE Far
    OBVIOUS
<1>0. /\ Fields
      /\ sbe.pc \in FarPCs => vital.proc # "scan_service"
      /\ sbe.pc \in StorePCs => sbe.loaded = vital
  BY FarReady
<1> HIDE DEF ScanInv
<1> USE <1>0 DEF Fields, At, Goto, HaltedWell, Magic, Load, Store, ScanKept, others
<1>1. CASE WinkleEngine
  <2>b. sbe.pc \in WinklePCs
    BY <1>1 DEF WinkleEngine, WinkleEntry, WinkleReady, PollStart, Started, PollWinkle,
                Wake, Waking, Unblock, Ipi, PollGoto, PollIdle, Awake, IcpOff, PollAlive, Success,
                WinklePCs
  <2>c. vital.proc # "scan_service" /\ sbe.pc \in FarPCs
    BY <2>b DEF FarPCs
  <2>0. UNCHANGED <<mbox, host, ring>>
    BY <1>1 DEF WinkleEngine, WinkleEntry, WinkleReady, PollStart, Started, PollWinkle, Wake,
                Waking, Unblock, Ipi, PollGoto, PollIdle, Awake, IcpOff, PollAlive, Success,
                PollAgain
  <2>a. ASSUME NEW rc, PollAgain(rc), sbe.pc \in WinklePCs
        PROVE  sbe'.pc \in WinklePCs \cup {"errorHalt"} /\ UNCHANGED vital
    <3>1. CASE sbe.ctr > 0
      BY <2>a, <3>1 DEF PollAgain, Counted
    <3>2. CASE ~(sbe.ctr > 0)
      BY <2>a, <3>2, ErrorHaltPc DEF PollAgain
    <3> QED BY <3>1, <3>2
  <2>d. /\ vital'.proc # "scan_service"
        /\ sbe'.pc \in WinklePCs \cup {"errorHalt", "done", "intrEntry"}
    <3> USE <2>c DEF WinklePCs
    <3>1. CASE WinkleEntry \/ PollStart
      BY <3>1 DEF WinkleEntry, PollStart
    <3>9. CASE WinkleReady \/ Started
      <4>1. sbe.loaded = vital
        BY <3>9 DEF WinkleReady, Started, StorePCs
      <4>2. CASE WinkleReady
        BY <4>1, <4>2 DEF WinkleReady
      <4>3. CASE Started
        BY <4>1, <4>3 DEF Started
      <4> QED BY <3>9, <4>2, <4>3
    <3>2. CASE PollWinkle
      BY <2>b, <3>2, <2>a DEF PollWinkle
    <3>3. CASE Wake \/ Waking \/ Unblock \/ Ipi
      <4>1. CASE Wake
        BY <4>1 DEF Wake
      <4>2. CASE Waking
        BY <4>2 DEF Waking, StorePCs
      <4>3. CASE Unblock \/ Ipi
        BY <4>3 DEF Unblock, Ipi
      <4> QED BY <3>3, <4>1, <4>2, <4>3
    <3>4. CASE PollGoto
      BY <2>b, <3>4, <2>a DEF PollGoto
    <3>5. CASE PollIdle
      BY <2>b, <3>5, <2>a DEF PollIdle
    <3>6. CASE Awake \/ IcpOff
      BY <3>6 DEF Awake, IcpOff, StorePCs
    <3>7. CASE PollAlive
      BY <2>b, <3>7, <2>a DEF PollAlive
    <3>8. CASE Success
      BY <3>8 DEF Success
    <3> QED BY <1>1, <3>1, <3>2, <3>3, <3>4, <3>5, <3>6, <3>7, <3>8, <3>9
           DEF WinkleEngine
  <2> QED BY <2>0, <2>c, <2>d DEF Far, FarPCs, IntrPCs, ScanStops
<1>2. CASE IntrStep
  <2>1. sbe.pc \in IntrPCs
    BY <1>2 DEF IntrStep, IntrEntry, IntrWait, IntrRead, IntrClear, IntrHalt, LoadDecrementer,
                Decrement, IntrPCs
  <2>2. vital.proc # "scan_service" /\ sbe.pc \in FarPCs
    BY <2>1 DEF FarPCs
  <2>3. CASE ~Decrement
    <3>1. /\ ScanKept /\ vital'.proc # "scan_service"
          /\ sbe'.pc \in IntrPCs \cup {"done"}
      <4>1. CASE IntrEntry
        BY <2>2, <4>1 DEF IntrEntry, IntrPCs
      <4>3. CASE IntrClear
        BY <2>2, <4>3 DEF IntrClear, IntrPCs
      <4>2. CASE IntrWait \/ IntrRead \/ IntrHalt \/ LoadDecrementer
        BY <2>2, <4>2 DEF IntrWait, IntrRead, IntrHalt, LoadDecrementer, IntrPCs
      <4> QED BY <1>2, <2>3, <4>1, <4>2, <4>3 DEF IntrStep
    <3> QED BY <2>2, <3>1 DEF Far, FarPCs
  <2>4. CASE Decrement
    <3>1. sbe'.pc = "intrWait" /\ UNCHANGED <<vital, ring>>
      BY <2>4 DEF Decrement
    <3>2. ScanKept
      <4>1. CASE Fires
        <5>1. PICK owed : host' = [host EXCEPT !.owed = owed]
          BY <2>4, <4>1, Zenon DEF Decrement
        <5>2. PICK torn : mbox' = [mbox EXCEPT !.torn = torn]
          BY <2>4, <4>1, Zenon DEF Decrement
        <5>3. DOMAIN host' = DOMAIN host /\ host'.waits = host.waits
              /\ host'.expected = host.expected
          BY <5>1
        <5>4. DOMAIN mbox' = DOMAIN mbox /\ mbox'.request = mbox.request
              /\ mbox'.response = mbox.response
          BY <5>2
        <5> QED BY <3>1, <5>3, <5>4
      <4>2. CASE ~Fires
        BY <2>4, <4>2 DEF Decrement
      <4> QED BY <4>1, <4>2
    <3> QED BY <2>2, <3>1, <3>2 DEF Far, FarPCs, IntrPCs
  <2> QED BY <2>3, <2>4
<1> QED BY <1>1, <1>2

(* The other actors leave the engine alone; Hostboot stores steps of the   *)
(* handshake and requests of another mailbox.                              *)
LEMMA OthersApart ==
    ScanInv /\ (UpdateStep \/ RaiseAttention \/ WinkleHost \/ PostInterrupt \/ UNCHANGED vars)
        => Apart
<1> SUFFICES ASSUME ScanInv,
                    UpdateStep \/ RaiseAttention \/ WinkleHost \/ PostInterrupt
                    \/ UNCHANGED vars
             PROVE  Apart
    OBVIOUS
<1>0. /\ Fields
      /\ sbe.pc \in FarPCs => vital.proc # "scan_service"
  BY FarReady
<1> HIDE DEF ScanInv
<1>1. CASE UpdateStep
  <2>1. sbe.pc \in FarPCs
    BY <1>1 DEF UpdateStep, PlainBody, At, FarPCs, BootPCs
  <2> QED BY <1>0, <1>1, <2>1 DEF UpdateStep, Apart, ScanKept, Fields, others
<1>2. CASE WinkleHost
  <2>1. CASE HostStarts \/ HostAlive
    <3>1. vital.proc = "trigger_winkle"
      BY <2>1 DEF HostStarts, HostAlive, WinkleStep
    <3> QED BY <1>0, <2>1, <3>1 DEF HostStarts, HostAlive, Apart, ScanKept, Fields
  <2>2. CASE HostWinkles \/ ChipletMoves
    BY <1>0, <2>2 DEF HostWinkles, ChipletMoves, Apart, ScanKept, Fields
  <2> QED BY <1>2, <2>1, <2>2 DEF WinkleHost
<1>3. CASE PostInterrupt
  <2>1. UNCHANGED <<sbe, vital, ring>>
    BY <1>3 DEF PostInterrupt
  <2>2. PICK r \in IntrRequests :
          /\ mbox' = [mbox EXCEPT !.intr = r, !.torn = (@ \/ sbe.odd \/ r.kind = "halt")]
          /\ host' = [host EXCEPT !.owed = (@ \/ ~sbe.odd) /\ r.kind = "count"]
    BY <1>3, Zenon DEF PostInterrupt
  <2>3. DOMAIN mbox' = DOMAIN mbox /\ DOMAIN host' = DOMAIN host
    BY <2>2, Zenon
  <2>4. mbox'.request = mbox.request /\ mbox'.response = mbox.response
    BY <1>0, <2>2, Zenon DEF Fields
  <2>5. host'.waits = host.waits /\ host'.expected = host.expected
    BY <1>0, <2>2, Zenon DEF Fields
  <2> QED BY <2>1, <2>3, <2>4, <2>5 DEF Apart, ScanKept
<1>4. CASE RaiseAttention \/ UNCHANGED vars
  BY <1>0, <1>4 DEF RaiseAttention, Apart, ScanKept, Fields, others, vars
<1> QED BY <1>1, <1>2, <1>3, <1>4

(* The host posts where the engine polls and no answer is left.            *)
LEMMA PostScanScan == ScanInv /\ PostScan => ScanOK'
<1> SUFFICES ASSUME ScanInv, PostScan PROVE ScanOK'
    OBVIOUS
<1>0. Fields /\ ScanType /\ ReadyOK /\ TalkOK /\ RingsOK /\ ExpectOK
  BY DEF ScanInv, ScanOK, ServiceInv, BootInv
<1>1. PICK r \in ScanRequests :
         /\ vital.proc = "scan_service" /\ vital.step = SBE_READY /\ ~host.waits
         /\ mbox' = [mbox EXCEPT !.request = r]
         /\ host' = [host EXCEPT !.waits = TRUE, !.expected = Expected(r)]
         /\ UNCHANGED <<cfg, sbe, vital, lock, attn, ex, ring>>
  BY Zenon DEF PostScan
<1> HIDE DEF ScanInv
<1>2. /\ mbox'.request = r /\ mbox'.response = mbox.response /\ DOMAIN mbox' = DOMAIN mbox
      /\ host'.waits = TRUE /\ host'.expected = After(r, host.expected)
      /\ DOMAIN host' = DOMAIN host
  BY <1>0, <1>1, ExpectedAfter DEF Fields
<1>3. sbe.pc = "scanPoll" /\ mbox.response.valid # TRUE /\ mbox.request = NoRequest
  <2>1. sbe.pc \in {"scanPoll", "scanSave"} /\ host.waits # TRUE
    BY <1>0, <1>1 DEF ReadyOK
  <2> QED BY <1>0, <2>1 DEF TalkOK, HeldPCs
<1>4. host.expected = Shadow
  BY <1>0, <1>3 DEF ExpectOK
<1>5. r # NoRequest
  BY ScanKinds
<1>6. ScanType'
  <2>1. DOMAIN After(r, host.expected) = Rings
    BY <1>0 DEF ScanType, After
  <2> QED BY <1>0, <1>1, <1>2, <2>1 DEF ScanType
<1>7. ReadyOK'
  BY <1>0, <1>1 DEF ReadyOK
<1>8. TalkOK'
  BY <1>0, <1>1, <1>2, <1>3, <1>5 DEF TalkOK, HeldPCs, BusyPCs, TurnPCs, IdlePCs, ScanStops
<1>9. RingsOK'
  BY <1>0, <1>1, <1>3 DEF RingsOK, TurnPCs
<1>10. ExpectOK'
  <2>1. Shadow' = Shadow
    BY <1>1 DEF Shadow
  <2>2. After(r, Shadow)' = After(r, Shadow)
    BY <2>1 DEF After
  <2> QED BY <1>1, <1>2, <1>3, <1>4, <1>5, <2>1 DEF ExpectOK, HeldPCs, BusyPCs, TurnPCs, After
<1> QED BY <1>6, <1>7, <1>8, <1>9, <1>10 DEF ScanOK

(* The host takes an answer.                                               *)
LEMMA CollectScanScan == ScanInv /\ CollectScan => ScanOK'
<1> SUFFICES ASSUME ScanInv, CollectScan PROVE ScanOK'
    OBVIOUS
<1>0. Fields /\ ScanType /\ ReadyOK /\ TalkOK /\ RingsOK /\ ExpectOK
  BY DEF ScanInv, ScanOK, ServiceInv, BootInv
<1> HIDE DEF ScanInv
<1>1. /\ mbox.response.valid = TRUE /\ UNCHANGED <<sbe, vital, ring>>
      /\ mbox'.request = mbox.request /\ mbox'.response = NoResponse
      /\ DOMAIN mbox' = DOMAIN mbox /\ DOMAIN host' = DOMAIN host
      /\ host'.waits = FALSE /\ host'.expected = host.expected
  BY <1>0 DEF CollectScan, Fields
<1>2. sbe.pc \in IdlePCs /\ (sbe.pc # "scanPrep" => mbox.request = NoRequest)
  BY <1>0, <1>1 DEF TalkOK
<1>3. ScanType' /\ ReadyOK' /\ RingsOK'
  BY <1>0, <1>1, <1>2 DEF ScanType, ReadyOK, RingsOK, NoResponse, TurnPCs, IdlePCs, TheRing
<1>4. TalkOK'
  BY <1>0, <1>1, <1>2, ScanKinds
     DEF TalkOK, HeldPCs, BusyPCs, TurnPCs, IdlePCs, NoResponse
<1>5. ExpectOK'
  BY <1>0, <1>1, <1>2 DEF ExpectOK, HeldPCs, BusyPCs, TurnPCs, IdlePCs, Shadow
<1> QED BY <1>3, <1>4, <1>5 DEF ScanOK

(* The engine serves a request.                                            *)
LEMMA ServeScan == ScanInv /\ ScanStep => ScanOK'
<1> SUFFICES ASSUME ScanInv, ScanStep PROVE ScanOK'
    OBVIOUS
<1>0. Fields /\ ScanType /\ ReadyOK /\ TalkOK /\ RingsOK /\ ExpectOK
  BY DEF ScanInv, ScanOK, ServiceInv, BootInv
<1> HIDE DEF ScanInv
<1>c. /\ sbe.pc \in HeldPCs /\ sbe.request.kind = "scan" =>
            TheRing \in Rings /\ RingLength[TheRing] \in Nat /\ RingLength[TheRing] > 0
      /\ sbe.pc \in {"modRing"} \cup TurnPCs =>
            /\ TheRing \in Rings /\ InTable(sbe.request) /\ OffsetOf(sbe.request) \in Nat
            /\ OffsetOf(sbe.request) < RingLength[TheRing]
            /\ sbe.request.kind = "scan" /\ sbe.request.op # BASE
  BY <1>0, ScanConstants, ScanKinds DEF TalkOK, HeldPCs, BusyPCs, TurnPCs, TheRing
<1>p. USE DEF At, Goto, others
(* The steps that leave the rings and what the host expects alone.         *)
<1>a. ASSUME UNCHANGED ring, host'.expected = host.expected PROVE Shadow' = Shadow
  BY <1>a DEF Shadow
<1>1. CASE ScanEntry
  <2>1. /\ sbe.pc = "scanEntry" /\ sbe'.pc = "scanPrep" /\ UNCHANGED <<host, ring>>
        /\ mbox'.request = mbox.request /\ mbox'.response = NoResponse /\ vital'.step = 0
        /\ sbe'.request = sbe.request
    BY <1>0, <1>1 DEF ScanEntry, Fields, Magic
  <2>2. ScanType' /\ ReadyOK'
    BY <1>0, <2>1 DEF ScanType, ReadyOK, NoResponse, ScanPCs, SBE_READY
  <2>3. TalkOK'
    BY <1>0, <2>1
       DEF TalkOK, HeldPCs, BusyPCs, TurnPCs, IdlePCs, NoResponse, ScanStops
  <2>4. RingsOK' /\ ExpectOK'
    BY <1>0, <1>a, <2>1
       DEF RingsOK, ExpectOK, TurnPCs, HeldPCs, BusyPCs, ScanStops
  <2> QED BY <2>2, <2>3, <2>4 DEF ScanOK
<1>2. CASE ScanPrep \/ ScanReady
  <2>1. /\ sbe.pc \in {"scanPrep", "scanReady"} /\ UNCHANGED <<host, ring>>
        /\ mbox'.request = NoRequest /\ mbox'.response = mbox.response
        /\ sbe'.pc = IF sbe.pc = "scanPrep" THEN "scanReady" ELSE "scanPoll"
        /\ sbe'.pc = "scanReady" => UNCHANGED vital
    <3>1. CASE ScanPrep
      BY <1>0, <3>1 DEF ScanPrep, Fields, Cleared
    <3>2. CASE ScanReady
      BY <1>0, <3>2 DEF ScanReady, Fields, Step, TalkOK
    <3> QED BY <1>2, <3>1, <3>2
  <2>2. ScanType' /\ ReadyOK'
    BY <1>0, <2>1 DEF ScanType, ReadyOK, ScanPCs
  <2>3. TalkOK'
    BY <1>0, <2>1 DEF TalkOK, HeldPCs, BusyPCs, TurnPCs, IdlePCs
  <2>4. RingsOK' /\ ExpectOK'
    BY <1>0, <1>a, <2>1 DEF RingsOK, ExpectOK, TurnPCs, HeldPCs, BusyPCs, ScanStops
  <2> QED BY <2>2, <2>3, <2>4 DEF ScanOK
<1>3. CASE ScanPoll
  <2>1. /\ sbe.pc = "scanPoll" /\ sbe'.pc = "scanSave" /\ mbox.request # NoRequest
        /\ sbe'.request = mbox.request /\ UNCHANGED <<vital, mbox, host, ring>>
    BY <1>0, <1>3 DEF ScanPoll, Fields
  <2>2. ScanType' /\ ReadyOK'
    BY <1>0, <2>1 DEF ScanType, ReadyOK, ScanPCs
  <2>3. TalkOK'
    BY <1>0, <2>1 DEF TalkOK, HeldPCs, BusyPCs, TurnPCs, IdlePCs
  <2>4. RingsOK'
    BY <1>0, <2>1 DEF RingsOK, TurnPCs, ScanStops
  <2>5. ExpectOK'
    BY <1>0, <1>a, <2>1 DEF ExpectOK, HeldPCs, BusyPCs, TurnPCs, ScanStops, After
  <2> QED BY <2>2, <2>3, <2>4, <2>5 DEF ScanOK
<1>4. CASE SaveRequest
  <2>1. /\ sbe.pc = "scanSave" /\ sbe'.pc = "decode" /\ sbe.request.kind = "scan"
        /\ sbe'.request = sbe.request /\ UNCHANGED <<host, ring>>
        /\ mbox'.response = [valid |-> FALSE, request |-> sbe.request]
        /\ vital'.step = DECODE_REQ
    BY <1>0, <1>4 DEF SaveRequest, Fields
  <2>2. ScanType' /\ ReadyOK'
    <3>1. sbe'.pc \in (ScanPCs \ {"scanEntry"})
      BY <2>1 DEF ScanPCs
    <3> QED BY <1>0, <2>1, <3>1 DEF ScanType, ReadyOK, DECODE_REQ, SBE_READY
  <2>3. TalkOK'
    BY <1>0, <2>1 DEF TalkOK, HeldPCs, BusyPCs, TurnPCs, IdlePCs
  <2>4. RingsOK'
    BY <1>0, <2>1 DEF RingsOK, TurnPCs, ScanStops
  <2>5. ExpectOK'
    BY <1>0, <1>a, <2>1 DEF ExpectOK, HeldPCs, BusyPCs, TurnPCs, ScanStops, After
  <2> QED BY <2>2, <2>3, <2>4, <2>5 DEF ScanOK
(* Where the engine stops nothing more is asked or expected.               *)
<1>5. CASE ScanHalt \/ InvalidOperation \/ CheckwordError
  <2>1. /\ sbe.pc \in HeldPCs /\ sbe'.pc \in ScanStops /\ UNCHANGED <<host, ring>>
        /\ vital'.step # SBE_READY
        /\ \/ mbox'.response = mbox.response
           \/ mbox'.response = [valid |-> FALSE, request |-> sbe.request]
    <3>1. CASE ScanHalt
      BY <1>0, <3>1
         DEF ScanHalt, Fields, HeldPCs, ScanStops, HALT_SUCCESS, SBE_READY, HaltedWell
    <3>2. CASE InvalidOperation
      BY <1>0, <3>2, ErrorHaltPc
         DEF InvalidOperation, Fields, HeldPCs, BusyPCs, ScanStops, ARG_ERR, SBE_READY
    <3>3. CASE CheckwordError
      BY <1>0, <3>3, ErrorHaltPc
         DEF CheckwordError, Fields, HeldPCs, BusyPCs, TurnPCs, ScanStops, CHECKWORD_ERR, SBE_READY
    <3> QED BY <1>5, <3>1, <3>2, <3>3
  <2>2. sbe'.pc \notin IdlePCs \cup HeldPCs
    BY <2>1 DEF ScanStops, IdlePCs, HeldPCs, BusyPCs, TurnPCs
  <2>3. mbox'.response.valid # TRUE
    <3>1. sbe.pc \notin IdlePCs
      BY <2>1 DEF HeldPCs, BusyPCs, TurnPCs, IdlePCs
    <3>2. mbox.response.valid # TRUE
      BY <1>0, <3>1 DEF TalkOK
    <3>3. [valid |-> FALSE, request |-> sbe.request].valid # TRUE
      BY Zenon
    <3> QED BY <2>1, <3>2, <3>3, Zenon
  <2>4. ScanType' /\ ReadyOK'
    BY <1>0, <2>1 DEF ScanType, ReadyOK
  <2>5. TalkOK'
    BY <2>1, <2>2, <2>3 DEF TalkOK, HeldPCs, BusyPCs, TurnPCs, IdlePCs
  <2>6. RingsOK' /\ ExpectOK'
    BY <2>1, <2>2 DEF RingsOK, ExpectOK, HeldPCs, BusyPCs, TurnPCs, IdlePCs
  <2> QED BY <2>4, <2>5, <2>6 DEF ScanOK
<1>6. CASE Decode
  <2>1. /\ sbe.pc = "decode" /\ Supported(sbe.request) /\ sbe'.request = sbe.request
        /\ sbe'.pc = IF sbe.request.op = BASE THEN "setRing" ELSE "modRing"
        /\ vital'.step = SCAN_IP /\ UNCHANGED <<mbox, host, ring>>
    BY <1>0, <1>6 DEF Decode, Fields, Step
  <2>2. ScanType' /\ ReadyOK'
    <3>1. sbe'.pc \in (ScanPCs \ {"scanEntry"})
      BY <2>1 DEF ScanPCs
    <3> QED BY <1>0, <2>1, <3>1 DEF ScanType, ReadyOK, SCAN_IP, SBE_READY
  <2>3. TalkOK'
    BY <1>0, <2>1 DEF TalkOK, HeldPCs, BusyPCs, TurnPCs, IdlePCs, Supported, OperationOf, MaxBusId
  <2>4. RingsOK'
    BY <1>0, <2>1 DEF RingsOK, TurnPCs, ScanStops
  <2>5. ExpectOK'
    BY <1>0, <1>a, <2>1 DEF ExpectOK, HeldPCs, BusyPCs, TurnPCs, ScanStops, After
  <2> QED BY <2>2, <2>3, <2>4, <2>5 DEF ScanOK
<1>7. CASE SetRing
  <2>1. /\ sbe.pc = "setRing" /\ sbe'.pc = "respond" /\ sbe'.request = sbe.request
        /\ vital'.step = SCAN_DONE /\ UNCHANGED <<mbox, host>>
        /\ ring' = [ring EXCEPT ![TheRing] = [pos |-> 0, bits |-> {}, shadow |-> {}]]
    BY <1>0, <1>7 DEF SetRing, Fields
  <2>2. TheRing \in Rings /\ sbe.request.op = BASE /\ sbe.request.kind = "scan"
    BY <1>0, <1>c, <2>1 DEF TalkOK, HeldPCs, BusyPCs
  <2>3. ScanType'
    BY <1>0, <2>1, <2>2 DEF ScanType
  <2>4. ReadyOK'
    BY <1>0, <2>1 DEF ReadyOK, ScanPCs, SCAN_DONE, SBE_READY
  <2>5. TalkOK'
    BY <1>0, <2>1 DEF TalkOK, HeldPCs, BusyPCs, TurnPCs, IdlePCs
  <2>6. RingsOK'
    BY <1>0, <2>1, <2>2 DEF RingsOK, ScanType, TurnPCs, ScanStops
  <2>7. Shadow' = [Shadow EXCEPT ![TheRing] = {}]
    BY <1>0, <2>1, <2>2 DEF Shadow, ScanType
  <2>8. host.expected = [Shadow EXCEPT ![TheRing] = {}]
    BY <1>0, <2>1, <2>2 DEF ExpectOK, HeldPCs, BusyPCs, TurnPCs, After, TheRing
  <2>9. ExpectOK'
    BY <2>1, <2>7, <2>8 DEF ExpectOK, HeldPCs, BusyPCs, TurnPCs
  <2> QED BY <2>3, <2>4, <2>5, <2>6, <2>9 DEF ScanOK
<1>8. CASE ModRing
  <2>1. /\ sbe.pc = "modRing" /\ sbe'.pc = "rotateToMod" /\ sbe'.request = sbe.request
        /\ sbe'.offset = OffsetOf(sbe.request) /\ sbe'.left = OffsetOf(sbe.request)
        /\ vital'.step = RESCAN_IP /\ UNCHANGED <<mbox, host, ring>>
    BY <1>0, <1>8 DEF ModRing, Fields
  <2>2. ScanType' /\ ReadyOK'
    <3>1. sbe'.pc \in (ScanPCs \ {"scanEntry"})
      BY <2>1 DEF ScanPCs
    <3> QED BY <1>0, <2>1, <3>1 DEF ScanType, ReadyOK, RESCAN_IP, SBE_READY
  <2>3. TalkOK'
    BY <1>0, <2>1 DEF TalkOK, HeldPCs, BusyPCs, TurnPCs, IdlePCs, Supported, OperationOf, MaxBusId
  <2>4. RingsOK'
    BY <1>0, <1>c, <2>1 DEF RingsOK, TurnPCs, ScanStops, TheRing, OffsetOf
  <2>5. ExpectOK'
    BY <1>0, <1>a, <2>1 DEF ExpectOK, HeldPCs, BusyPCs, TurnPCs, ScanStops, After
  <2> QED BY <2>2, <2>3, <2>4, <2>5 DEF ScanOK
(* What the steps of a turn have in common: they touch one ring.           *)
<1>b. ASSUME sbe.pc \in TurnPCs, sbe'.pc \in TurnPCs, sbe'.request = sbe.request,
             sbe'.offset = sbe.offset, UNCHANGED <<vital, mbox, host>>,
             DOMAIN ring' = Rings,
             \A r \in Rings \ {TheRing} : ring'[r] = ring[r],
             DOMAIN ring'[TheRing] = DOMAIN ring[TheRing],
             ring'[TheRing].shadow = ring[TheRing].shadow
      PROVE  ScanType' /\ ReadyOK' /\ TalkOK' /\ ExpectOK'
  <2>1. TheRing \in Rings
    BY <1>b, <1>c
  <2>2. ScanType'
    BY <1>0, <1>b, <2>1 DEF ScanType
  <2>3. ReadyOK'
    BY <1>0, <1>b DEF ReadyOK, ScanPCs, TurnPCs
  <2>4. TalkOK'
    <3>1. /\ sbe.pc \in HeldPCs \cap BusyPCs /\ sbe'.pc \in HeldPCs \cap BusyPCs
          /\ sbe.pc \notin {"decode", "respond", "setRing"} \cup IdlePCs
          /\ sbe'.pc \notin {"decode", "respond", "setRing"} \cup IdlePCs
      BY <1>b DEF HeldPCs, BusyPCs, TurnPCs, IdlePCs
    <3> QED BY <1>0, <1>b, <3>1 DEF TalkOK, IdlePCs, Supported, OperationOf, MaxBusId
  <2>5. Shadow' = Shadow
    BY <1>b, <2>1 DEF Shadow
  <2>6. ExpectOK'
    <3>1. /\ sbe.pc \in HeldPCs \ {"respond"} /\ sbe'.pc \in HeldPCs \ {"respond"}
          /\ sbe'.pc # "scanPoll"
      BY <1>b DEF HeldPCs, BusyPCs, TurnPCs
    <3>2. After(sbe'.request, Shadow') = After(sbe.request, Shadow)
      BY <1>b, <2>5
    <3> QED BY <1>0, <1>b, <2>5, <3>1, <3>2 DEF ExpectOK, After, OffsetOf, InTable
  <2> QED BY <2>2, <2>3, <2>4, <2>6
<1>d. ASSUME sbe.pc \in TurnPCs, sbe'.pc \in TurnPCs, sbe'.request = sbe.request,
             sbe'.offset = sbe.offset,
             \A r \in Rings \ {TheRing} : ring'[r] = ring[r],
             ring'[TheRing].pos \in Nat,
             sbe'.pc \in {"rotateToMod", "flip"} =>
                /\ sbe'.left \in Nat /\ ring'[TheRing].pos + sbe'.left = sbe.offset
                /\ ring'[TheRing].bits = ring'[TheRing].shadow,
             sbe'.pc = "flip" => sbe'.left = 0,
             sbe'.pc \in {"rotateToEnd", "header"} =>
                ring'[TheRing].bits = Toggle(ring'[TheRing].shadow, sbe.offset),
             sbe'.pc = "rotateToEnd" =>
                /\ sbe'.left \in Nat
                /\ ring'[TheRing].pos + sbe'.left = RingLength[TheRing],
             sbe'.pc = "header" => ring'[TheRing].pos = 0
      PROVE  RingsOK'
  <2>1. TheRing' = TheRing /\ OffsetOf(sbe.request)' = OffsetOf(sbe.request)
    BY <1>d DEF TheRing, OffsetOf
  <2>2. \A r \in Rings \ {TheRing} : ring'[r].pos = 0 /\ ring'[r].bits = ring'[r].shadow
    BY <1>0, <1>d DEF RingsOK, ScanStops, TurnPCs
  <2>3. sbe.offset = OffsetOf(sbe.request) /\ sbe'.pc \notin ScanStops
    BY <1>0, <1>d DEF RingsOK, ScanStops, TurnPCs
  <2> QED BY <1>d, <2>1, <2>2, <2>3 DEF RingsOK
<1>k. /\ sbe.left \in Nat => Chunk \in Nat /\ sbe.left - Chunk \in Nat
      /\ sbe.left \in Nat /\ sbe.left > MaxRotate => Chunk < sbe.left
      /\ sbe.left \in Nat /\ ~(sbe.left > MaxRotate) => Chunk = sbe.left /\ sbe.left - Chunk = 0
  BY ScanConstants DEF Chunk
<1>9. ASSUME NEW from \in {"rotateToMod", "rotateToEnd"}, NEW to, RotateRing(from, to),
             to = IF from = "rotateToMod" THEN "flip" ELSE "header"
      PROVE  ScanOK'
  <2>1. /\ sbe.pc = from /\ sbe'.pc = IF sbe.left > MaxRotate THEN from ELSE to
        /\ sbe'.left = sbe.left - Chunk /\ sbe'.request = sbe.request
        /\ sbe'.offset = sbe.offset /\ UNCHANGED <<vital, mbox, host>>
        /\ ring' = [ring EXCEPT ![TheRing].pos = (ring[TheRing].pos + Chunk) % RingLength[TheRing]]
    BY <1>0, <1>9 DEF RotateRing, Fields
  <2>2. sbe.pc \in TurnPCs /\ sbe'.pc \in TurnPCs
    BY <1>9, <2>1 DEF TurnPCs
  <2>3. /\ TheRing \in Rings /\ RingLength[TheRing] \in Nat /\ RingLength[TheRing] > 0
        /\ sbe.offset \in Nat /\ sbe.offset < RingLength[TheRing]
    BY <1>0, <1>c, <2>2, ScanConstants DEF RingsOK
  <2>4. /\ DOMAIN ring' = Rings /\ \A r \in Rings \ {TheRing} : ring'[r] = ring[r]
        /\ DOMAIN ring'[TheRing] = DOMAIN ring[TheRing]
        /\ ring'[TheRing].shadow = ring[TheRing].shadow
        /\ ring'[TheRing].bits = ring[TheRing].bits
        /\ ring'[TheRing].pos = (ring[TheRing].pos + Chunk) % RingLength[TheRing]
    BY <1>0, <2>1, <2>3 DEF ScanType
  <2>5. ScanType' /\ ReadyOK' /\ TalkOK' /\ ExpectOK'
    BY <1>b, <2>1, <2>2, <2>4
  <2>6. ring[TheRing].pos \in Nat /\ sbe.left \in Nat
    BY <1>0, <1>9, <2>1, <2>2 DEF RingsOK
  <2> DEFINE n == RingLength[TheRing]
             p == ring[TheRing].pos
             q == ring'[TheRing].pos
  <2>7. CASE from = "rotateToMod"
    <3>1. p + sbe.left = sbe.offset
      BY <1>0, <2>1, <2>7 DEF RingsOK
    <3>2. p + Chunk \in Nat /\ p + Chunk < n
      BY <1>k, <2>3, <2>6, <3>1
    <3>3. q = p + Chunk
      <4> HIDE DEF n, p
      <4>1. q = (p + Chunk) % n
        BY <2>4 DEF n, p
      <4>2. n \in Nat /\ n > 0
        BY <2>3 DEF n
      <4> HIDE DEF q
      <4> QED BY <3>2, <4>1, <4>2, Turns
    <3>4. q \in Nat /\ sbe'.left \in Nat /\ q + sbe'.left = sbe.offset
      BY <1>k, <2>1, <2>3, <2>6, <3>1, <3>3
    <3>5. sbe'.pc = "flip" => sbe'.left = 0
      BY <1>9, <1>k, <2>1, <2>6, <2>7
    <3>6. sbe'.pc \in {"rotateToMod", "flip"}
      BY <1>9, <2>1, <2>7
    <3>7. RingsOK'
      <4>1. ring'[TheRing].bits = ring'[TheRing].shadow
        BY <1>0, <2>1, <2>4, <2>7 DEF RingsOK
      <4> QED BY <1>d, <2>1, <2>2, <2>4, <3>4, <3>5, <3>6, <4>1
    <3> QED BY <2>5, <3>7 DEF ScanOK
  <2>8. CASE from = "rotateToEnd"
    <3>1. p + sbe.left = n
      BY <1>0, <2>1, <2>8 DEF RingsOK
    <3>2. CASE sbe.left > MaxRotate
      <4>1. p + Chunk \in Nat /\ p + Chunk < n
        BY <1>k, <2>3, <2>6, <3>1, <3>2
      <4>2. q = p + Chunk
        <5> HIDE DEF n, p
        <5>1. q = (p + Chunk) % n
          BY <2>4 DEF n, p
        <5>2. n \in Nat /\ n > 0
          BY <2>3 DEF n
        <5> HIDE DEF q
        <5> QED BY <4>1, <5>1, <5>2, Turns
      <4>3. q \in Nat /\ sbe'.left \in Nat /\ q + sbe'.left = n
        <5>1. p \in Nat /\ n \in Nat /\ sbe'.left = sbe.left - Chunk
          BY <2>1, <2>3, <2>6
        <5> HIDE DEF n, p, q
        <5> QED BY <1>k, <2>6, <3>1, <4>2, <5>1
      <4>4. sbe'.pc = "rotateToEnd"
        BY <2>1, <2>8, <3>2
      <4>5. RingsOK'
        <5>1. ring'[TheRing].bits = Toggle(ring'[TheRing].shadow, sbe.offset)
          BY <1>0, <2>1, <2>4, <2>8 DEF RingsOK
        <5> QED BY <1>d, <2>1, <2>2, <2>4, <4>3, <4>4, <5>1
      <4> QED BY <2>5, <4>5 DEF ScanOK
    <3>3. CASE ~(sbe.left > MaxRotate)
      <4>1. p + Chunk = n
        BY <1>k, <2>6, <3>1, <3>3
      <4>2. q = 0
        <5> HIDE DEF n, p
        <5>1. q = (p + Chunk) % n
          BY <2>4 DEF n, p
        <5>2. n \in Nat /\ n > 0
          BY <2>3 DEF n
        <5> HIDE DEF q
        <5> QED BY <4>1, <5>1, <5>2, Turns
      <4>3. sbe'.pc = "header"
        BY <1>9, <2>1, <2>8, <3>3
      <4>4. ring'[TheRing].bits = Toggle(ring'[TheRing].shadow, sbe.offset)
        BY <1>0, <2>1, <2>4, <2>8 DEF RingsOK
      <4>5. RingsOK'
        BY <1>d, <2>1, <2>2, <2>4, <4>2, <4>3, <4>4
      <4> QED BY <2>5, <4>5 DEF ScanOK
    <3> QED BY <3>2, <3>3
  <2> QED BY <1>9, <2>7, <2>8
<1>10. CASE Flip
  <2>1. /\ sbe.pc = "flip" /\ sbe'.pc = "rotateToEnd" /\ sbe'.left = Remaining
        /\ sbe'.request = sbe.request /\ sbe'.offset = sbe.offset
        /\ UNCHANGED <<vital, mbox, host>>
        /\ ring' = [ring EXCEPT ![TheRing].bits = Toggle(@, ring[TheRing].pos)]
    BY <1>0, <1>10 DEF Flip, Fields
  <2>2. sbe.pc \in TurnPCs /\ sbe'.pc \in TurnPCs
    BY <2>1 DEF TurnPCs
  <2>3. /\ TheRing \in Rings /\ RingLength[TheRing] \in Nat
        /\ sbe.offset \in Nat /\ sbe.offset < RingLength[TheRing]
        /\ ring[TheRing].pos \in Nat /\ ring[TheRing].pos = sbe.offset
        /\ ring[TheRing].bits = ring[TheRing].shadow
    <3>1. /\ ring[TheRing].pos \in Nat /\ ring[TheRing].pos + sbe.left = sbe.offset
          /\ sbe.left = 0 /\ sbe.offset = OffsetOf(sbe.request)
          /\ ring[TheRing].bits = ring[TheRing].shadow
      BY <1>0, <2>1, <2>2 DEF RingsOK
    <3>2. TheRing \in Rings /\ RingLength[TheRing] \in Nat
      BY <1>c, <2>2, ScanConstants
    <3> QED BY <1>c, <2>2, <3>1, <3>2
  <2>4. /\ DOMAIN ring' = Rings /\ \A r \in Rings \ {TheRing} : ring'[r] = ring[r]
        /\ DOMAIN ring'[TheRing] = DOMAIN ring[TheRing]
        /\ ring'[TheRing].shadow = ring[TheRing].shadow
        /\ ring'[TheRing].pos = ring[TheRing].pos
        /\ ring'[TheRing].bits = Toggle(ring[TheRing].bits, ring[TheRing].pos)
    BY <1>0, <2>1, <2>3 DEF ScanType
  <2>5. ScanType' /\ ReadyOK' /\ TalkOK' /\ ExpectOK'
    BY <1>b, <2>1, <2>2, <2>4
  <2>6. sbe'.left \in Nat /\ ring[TheRing].pos + sbe'.left = RingLength[TheRing]
    BY <2>1, <2>3 DEF Remaining
  <2>7. RingsOK'
    BY <1>d, <2>1, <2>2, <2>3, <2>4, <2>6
  <2> QED BY <2>5, <2>7 DEF ScanOK
<1>11. CASE HeaderCheck
  <2>1. /\ sbe.pc = "header" /\ sbe'.pc = "respond" /\ sbe'.request = sbe.request
        /\ UNCHANGED <<vital, mbox, host>>
        /\ ring' = [ring EXCEPT ![TheRing].shadow = ring[TheRing].bits]
    BY <1>0, <1>11 DEF HeaderCheck, Fields
  <2>2. /\ TheRing \in Rings /\ ring[TheRing].pos = 0 /\ InTable(sbe.request)
        /\ sbe.request.kind = "scan" /\ sbe.request.op # BASE
        /\ ring[TheRing].bits = Toggle(ring[TheRing].shadow, OffsetOf(sbe.request))
    BY <1>0, <1>c, <2>1 DEF RingsOK, TurnPCs
  <2>3. /\ DOMAIN ring' = Rings /\ \A r \in Rings \ {TheRing} : ring'[r] = ring[r]
        /\ DOMAIN ring'[TheRing] = DOMAIN ring[TheRing]
        /\ ring'[TheRing].pos = 0 /\ ring'[TheRing].bits = ring[TheRing].bits
        /\ ring'[TheRing].shadow = ring[TheRing].bits
    BY <1>0, <2>1, <2>2 DEF ScanType
  <2>4. ScanType'
    BY <1>0, <2>1, <2>2, <2>3 DEF ScanType
  <2>5. ReadyOK'
    BY <1>0, <2>1 DEF ReadyOK, ScanPCs
  <2>6. TalkOK'
    BY <1>0, <2>1 DEF TalkOK, HeldPCs, BusyPCs, TurnPCs, IdlePCs
  <2>7. RingsOK'
    BY <1>0, <2>1, <2>2, <2>3 DEF RingsOK, TurnPCs, ScanStops
  <2>8. Shadow' = [Shadow EXCEPT ![TheRing] = Toggle(@, OffsetOf(sbe.request))]
    BY <2>2, <2>3 DEF Shadow
  <2>9. host.expected = [Shadow EXCEPT ![TheRing] = Toggle(@, OffsetOf(sbe.request))]
    BY <1>0, <2>1, <2>2 DEF ExpectOK, HeldPCs, BusyPCs, TurnPCs, After, TheRing
  <2>10. ExpectOK'
    BY <2>1, <2>8, <2>9 DEF ExpectOK, HeldPCs, BusyPCs, TurnPCs
  <2> QED BY <2>4, <2>5, <2>6, <2>7, <2>10 DEF ScanOK
<1>12. CASE Respond
  <2>1. /\ sbe.pc = "respond" /\ sbe'.pc = "scanPrep" /\ UNCHANGED <<vital, host, ring>>
        /\ mbox'.response = [mbox.response EXCEPT !.valid = TRUE]
    BY <1>0, <1>12 DEF Respond, Fields
  <2>2. mbox'.response.request = sbe.request /\ DOMAIN mbox'.response = {"valid", "request"}
    BY <1>0, <2>1 DEF ScanType, TalkOK, BusyPCs
  <2>3. vital.step # SBE_READY \/ vital.proc # "scan_service"
    BY <1>0, <2>1 DEF ReadyOK
  <2>4. ScanType' /\ ReadyOK'
    BY <1>0, <2>1, <2>2, <2>3 DEF ScanType, ReadyOK, ScanPCs
  <2>5. TalkOK'
    BY <1>0, <2>1, <2>2 DEF TalkOK, HeldPCs, BusyPCs, TurnPCs, IdlePCs, ScanType
  <2>6. RingsOK' /\ ExpectOK'
    BY <1>0, <1>a, <2>1 DEF RingsOK, ExpectOK, HeldPCs, BusyPCs, TurnPCs, ScanStops
  <2> QED BY <2>4, <2>5, <2>6 DEF ScanOK
<1>13. CASE RotateToMod
  BY <1>9, <1>13 DEF RotateToMod
<1>14. CASE RotateToEnd
  BY <1>9, <1>14 DEF RotateToEnd
<1> QED BY <1>1, <1>2, <1>3, <1>4, <1>5, <1>6, <1>7, <1>8, <1>10, <1>11, <1>12, <1>13, <1>14
        DEF ScanStep

(* In every behaviour the rings are what the requests make of them.        *)
THEOREM ScanInvariant == Spec => []ScanInv
<1>1. Init => ScanOK
  <2> SUFFICES ASSUME Init PROVE ScanOK
      OBVIOUS
  <2>1. /\ sbe.pc = "otprom" /\ vital.proc = "none" /\ mbox.response = NoResponse
        /\ ring = [r \in Rings |-> [pos |-> 0, bits |-> {}, shadow |-> {}]]
        /\ host.waits = FALSE /\ host.expected = [r \in Rings |-> {}]
    BY DEF Init
  <2>2. ScanType /\ ReadyOK
    BY <2>1 DEF ScanType, ReadyOK, NoResponse
  <2>3. TalkOK
    BY <2>1 DEF TalkOK, NoResponse, HeldPCs, BusyPCs, TurnPCs, IdlePCs
  <2>4. RingsOK
    BY <2>1 DEF RingsOK, TurnPCs
  <2>5. Shadow = [r \in Rings |-> {}]
    BY <2>1 DEF Shadow
  <2>6. ExpectOK
    BY <2>1, <2>5 DEF ExpectOK, HeldPCs, BusyPCs, TurnPCs
  <2> QED BY <2>2, <2>3, <2>4, <2>6 DEF ScanOK
<1>2. ScanInv /\ [Next]_vars => ScanOK'
  BY IstepFar, MasterFar, WinkleFar, FarScan, OthersApart, ApartScan, ServeScan, PostScanScan,
     CollectScanScan
     DEF Next, EngineStep, Polls
<1>3. ScanOK /\ ServiceInv /\ [Next]_vars => ScanOK'
  BY <1>2 DEF ScanInv
<1> QED BY <1>1, <1>3, ServiceInvariant, PTL DEF Spec, ScanInv

(* When the host reads a response the ring is as the requests up to the    *)
(* one that is answered make it, whatever the tables, the lengths of the   *)
(* rings and the longest rotation.                                         *)
THEOREM AnswersAreApplied == Spec => []AnsweredIsApplied
<1>1. ScanInv => AnsweredIsApplied
  <2> SUFFICES ASSUME ScanInv, mbox.response.valid
               PROVE  LET r == mbox.response.request.ring IN ring[r].shadow = host.expected[r]
      BY DEF AnsweredIsApplied
  <2>1. TalkOK /\ ExpectOK
    BY DEF ScanInv, ScanOK
  <2>2. mbox.response.valid = TRUE
    OBVIOUS
  <2>3. host.expected = Shadow /\ mbox.response.request.ring \in Rings
    BY <2>1, <2>2, ScanKinds DEF TalkOK, ExpectOK, IdlePCs, ScanStops, HeldPCs, BusyPCs, TurnPCs
  <2> QED BY <2>3 DEF Shadow
<1> QED BY ScanInvariant, <1>1, PTL

-----------------------------------------------------------------------------
(***************************************************************************)
(* Proofs about the order of the boot: which chips and which attentions    *)
(* get as far as proc_sbe_trigger_winkle, which core is selected, and what *)
(* the handshake with Hostboot may rely on.                                *)
(***************************************************************************)

(***************************************************************************)
(* The order of the items.                                                 *)
(***************************************************************************)
Last == Len(Program)
Pnor == CHOOSE i \in 1 .. Last - 1 : IsEnablePnor(i)

(* A procedure is over where its epilogue is, and checked behind the check *)
(* of the epilogue.                                                        *)
AfterBody == {"epilogue", "exitCheck", "exitHalt", "exitTrapCheck", "exitTrap", "return"}
Checked == AfterBody \ {"epilogue"}
Past(i, pcs) == sbe.at > i \/ (sbe.at = i /\ sbe.pc \in pcs)
SearchPCs == {"findFirst", "firstFound", "rotateSecond", "findSecond", "selected"}

(* Behind proc_sbe_enable_pnor there are only masters, behind the last     *)
(* check only attentions that it masks, and the handshake is the last item.*)
OrderOK ==
    /\ cfg \in Configs /\ attn \subseteq Attentions
    /\ Runs("enable_pnor") /\ Past(Pnor, AfterBody) => IsMaster /\ cfg.cores # {}
    /\ Past(Last - 1, Checked) => \A a \in attn : Masked(a)
    /\ sbe.pc \in WinklePCs => sbe.at = Last
    /\ sbe.pc \in SearchPCs => Item.proc = "select_ex"

(* The search for the boot core: what has been seen at each place of it,   *)
(* and that CTR and the position go together.                              *)
SelectOK ==
    /\ sbe.pc \in SearchPCs =>
          /\ sbe.pos \in Positions /\ sbe.ctr \in Int /\ sbe.ctr = LastPosition - sbe.pos
    /\ sbe.pc \in {"findFirst", "firstFound"} => Before(sbe.pos) = {}
    /\ sbe.pc \in {"firstFound", "selected"} => BootCore(sbe.pos)
    /\ sbe.pc = "rotateSecond" => Cardinality(Before(sbe.pos + 1)) = 1
    /\ sbe.pc = "findSecond" => Cardinality(Before(sbe.pos)) = 1
    /\ sbe.pc \in {"rotateSecond", "findSecond"} => cfg.skipFirst
    /\ sbe.pc = "selected" =>
          Cardinality(Before(sbe.pos)) = IF cfg.skipFirst THEN 1 ELSE 0
    /\ SelectedCore

(* The inductive invariant of the order.                                   *)
OrderInv == ServiceInv /\ OrderOK /\ SelectOK

(* What the assumption on the order says of the items.                     *)
LEMMA Order ==
    /\ Last \in Nat /\ Last > 1
    /\ Pnor \in 1 .. Last - 1 /\ IsEnablePnor(Pnor)
    /\ Program[Last - 1].checks /\ Program[Last - 1].always
    /\ \A k \in 1 .. Last : Program[k].proc = "trigger_winkle" <=> k = Last
<1>1. Program \in Seq([proc : STRING, part : Parts, checks : BOOLEAN, always : BOOLEAN])
  BY SbeAssumption, Zenon DEF SbeAssumption
<1>2. Last \in Nat
  BY <1>1 DEF Last
<1>3. \E i \in 1 .. Last - 1 : IsEnablePnor(i)
  BY OrderAssumption, Zenon DEF OrderAssumption, Last
<1>4. Pnor \in 1 .. Last - 1 /\ IsEnablePnor(Pnor)
  BY <1>3, Zenon DEF Pnor
<1>5. Last > 1
  BY <1>2, <1>4
<1> QED BY <1>2, <1>4, <1>5, OrderAssumption, Zenon DEF OrderAssumption, Last

(* The part of the order that is a boundary: an arrival does not pass over *)
(* an item that every boot calls.                                          *)
LEMMA NoPassing ==
    ASSUME NEW i \in Nat, NEW p \in 1 .. Last, i < p, Program[p].always,
           NEW j \in 1 .. Last, IsNextItem(i, j)
    PROVE  j <= p
BY Order DEF IsNextItem, Called

(* A step that stays at the item, and gets behind a body only from there.  *)
Stays ==
    /\ UNCHANGED <<cfg, attn>>
    /\ sbe'.at = sbe.at /\ sbe'.ex = sbe.ex
    /\ sbe'.pc \in AfterBody => sbe.pc \in AfterBody
    /\ sbe'.pc \in Checked => sbe.pc \in Checked
    /\ sbe'.pc \in WinklePCs => sbe.pc \in WinklePCs
    /\ sbe'.pc \in SearchPCs => UNCHANGED sbe

(* Such a step keeps the invariant of the order.                         *)
LEMMA StaysOrder == OrderInv /\ Stays => OrderOK' /\ SelectOK'
<1> SUFFICES ASSUME OrderInv, Stays PROVE OrderOK' /\ SelectOK'
    OBVIOUS
<1>1. Past(Pnor, AfterBody)' => Past(Pnor, AfterBody)
  BY DEF Past, Stays
<1>2. Past(Last - 1, Checked)' => Past(Last - 1, Checked)
  BY DEF Past, Stays
<1>3. OrderOK'
  BY <1>1, <1>2
     DEF OrderInv, OrderOK, Stays, Runs, IsMaster, Masked, LastChecked, Item
<1>4. SelectedCore'
  BY DEF OrderInv, SelectOK, SelectedCore, Stays, BootCore, Before
<1>5. CASE UNCHANGED sbe
  <2>1. SelectOK'
    BY <1>4, <1>5 DEF OrderInv, SelectOK, Stays, BootCore, Before
  <2> QED BY <1>3, <2>1
<1>6. CASE sbe'.pc \notin SearchPCs
  <2>1. SelectOK'
    BY <1>4, <1>6 DEF SelectOK, SearchPCs
  <2> QED BY <1>3, <2>1
<1> QED BY <1>5, <1>6 DEF Stays

(* A step from the body to the epilogue of a procedure that is not         *)
(* proc_sbe_enable_pnor.                                                   *)
BodyOver ==
    /\ UNCHANGED <<cfg, attn>>
    /\ sbe'.at = sbe.at /\ sbe'.ex = sbe.ex
    /\ Item.proc # "enable_pnor" /\ sbe'.pc = "epilogue"

(* So does the end of the body of a procedure.                           *)
LEMMA BodyOverOrder == OrderInv /\ BodyOver => OrderOK' /\ SelectOK'
<1> SUFFICES ASSUME OrderInv, BodyOver PROVE OrderOK' /\ SelectOK'
    OBVIOUS
<1>1. sbe.at # Pnor
  BY Order DEF BodyOver, Item, IsEnablePnor
<1>2. sbe.at \in 1 .. Last /\ Pnor \in Nat /\ Last \in Nat
  BY Order DEF OrderInv, ServiceInv, IntrOK, Last
<1>3. Past(Pnor, AfterBody)' => Past(Pnor, AfterBody)
  BY <1>1, <1>2 DEF Past, BodyOver
<1>4. Past(Last - 1, Checked)' => Past(Last - 1, Checked)
  BY DEF Past, BodyOver, Checked, AfterBody
<1>5. OrderOK'
  BY <1>3, <1>4
     DEF OrderInv, OrderOK, BodyOver, Runs, IsMaster, Masked, LastChecked, SearchPCs, WinklePCs
<1>6. SelectOK'
  BY DEF OrderInv, SelectOK, SelectedCore, BodyOver, BootCore, Before, SearchPCs
<1> QED BY <1>5, <1>6

(* An arrival at the next item, from one that is behind the boundaries or  *)
(* before them.                                                            *)
LEMMA ArriveOrder ==
    ASSUME OrderInv, UNCHANGED <<cfg, attn>>, NEW i \in Nat, ArriveAt(i),
           i < Pnor \/ Past(Pnor, AfterBody),
           i < Last - 1 \/ Past(Last - 1, Checked)
    PROVE  OrderOK' /\ SelectOK'
<1>1. Pnor \in 1 .. Last /\ Last \in Nat /\ Last > 1 /\ Last - 1 \in 1 .. Last
  BY Order
<1>a. Fields
  BY DEF OrderInv, ServiceInv, BootInv
<1>b. sbe'.pc \in {"epilogue", "prologue", "end"} /\ sbe'.at \in Nat
  BY <1>1, <1>a, ArriveAtPc DEF OrderInv, ServiceInv, IntrOK, Last
<1>c. sbe'.ex = sbe.ex
  BY <1>a DEF ArriveAt, Fields
<1>2. /\ sbe'.ex = sbe.ex /\ sbe'.pc \notin SearchPCs \cup WinklePCs \cup Checked
      /\ sbe'.at \in Nat
  BY <1>b, <1>c DEF SearchPCs, WinklePCs, Checked, AfterBody
<1>3. CASE \E j \in 1 .. Last : IsNextItem(i, j) /\ sbe'.at = j
              /\ sbe'.pc = IF Program[j].part = "exit" THEN "epilogue" ELSE "prologue"
  <2>1. PICK j \in 1 .. Last : IsNextItem(i, j) /\ sbe'.at = j
              /\ sbe'.pc = IF Program[j].part = "exit" THEN "epilogue" ELSE "prologue"
    BY <1>3
  <2>2. i < Pnor => ~Past(Pnor, AfterBody)'
    <3>1. SUFFICES ASSUME i < Pnor PROVE ~Past(Pnor, AfterBody)'
      OBVIOUS
    <3>2. j <= Pnor
      BY <1>1, <2>1, <3>1, NoPassing, Order DEF IsEnablePnor
    <3>3. Program[Pnor].part = "whole"
      BY <1>1, Order DEF IsEnablePnor, Last
    <3>4. j = Pnor => sbe'.pc = "prologue"
      BY <2>1, <3>3
    <3> QED BY <1>1, <2>1, <3>2, <3>4 DEF Past, AfterBody
  <2>3. i < Last - 1 => ~Past(Last - 1, Checked)'
    <3>1. SUFFICES ASSUME i < Last - 1 PROVE ~Past(Last - 1, Checked)'
      OBVIOUS
    <3>2. j <= Last - 1
      BY <1>1, <2>1, <3>1, NoPassing, Order
    <3> QED BY <1>1, <1>2, <2>1, <3>2 DEF Past
  <2> QED BY <1>2, <2>2, <2>3
          DEF OrderInv, OrderOK, SelectOK, SelectedCore, Runs, IsMaster, Masked, LastChecked,
              BootCore, Before, SearchPCs
<1>4. CASE sbe' = [sbe EXCEPT !.pc = "end"]
  <2>1. Stays
    BY <1>4 DEF Stays, OrderInv, ServiceInv, BootInv, Fields, AfterBody, Checked, SearchPCs,
                WinklePCs
  <2> QED BY <2>1, StaysOrder
<1>5. CASE \E j \in 1 .. Last : IsNextItem(i, j) /\ sbe' = [sbe EXCEPT !.at = j,
              !.pc = IF Program[j].part = "exit" THEN "epilogue" ELSE "prologue"]
  BY <1>3, <1>5 DEF OrderInv, ServiceInv, BootInv, Fields
<1> QED BY <1>4, <1>5 DEF ArriveAt, Last

(* Where a skip goes: to the item itself, or to the exit of what the item  *)
(* enters, which lies before proc_sbe_enable_pnor.                         *)
LEMMA SkipTarget ==
    ASSUME NEW i \in 1 .. Last
    PROVE  \/ ReturnOf(i) = i
           \/ ReturnOf(i) \in Nat /\ ReturnOf(i) < Pnor
<1>1. CASE Program[i].part = "enter"
  <2>1. ReturnOf(i) \in 1 .. Last /\ Program[ReturnOf(i)].part = "exit"
    BY <1>1, ProgramAssumption DEF ProgramAssumption, ReturnOf, Last
  <2>2. \A k \in Pnor .. Last : Program[k].part = "whole"
    BY Order DEF IsEnablePnor, Last
  <2> QED BY <2>1, <2>2, Order
<1>2. CASE Program[i].part # "enter"
  BY <1>2 DEF ReturnOf
<1> QED BY <1>1, <1>2

(* The istep sequence keeps the order: the prologues, the checks, the      *)
(* skips and the arrivals.                                                 *)
LEMMA IstepOrder == OrderInv /\ IstepStep => OrderOK' /\ SelectOK'
<1> SUFFICES ASSUME OrderInv, IstepStep PROVE OrderOK' /\ SelectOK'
    OBVIOUS
<1>0. /\ Fields /\ sbe.at \in 1 .. Last
      /\ Last \in Nat /\ Last > 1 /\ Pnor \in 1 .. Last - 1
  BY Order DEF OrderInv, ServiceInv, BootInv, IntrOK, Last
<1>a. Stays => OrderOK' /\ SelectOK'
  BY StaysOrder
<1>b. BodyOver => OrderOK' /\ SelectOK'
  BY BodyOverOrder
<1>c. ASSUME NEW rc, ErrorHalt(rc), UNCHANGED <<cfg, attn>>
      PROVE  Stays
  BY <1>0, <1>c DEF ErrorHalt, Fields, Stays, AfterBody, Checked, SearchPCs, WinklePCs
<1>d. ASSUME NEW pc, Goto(pc), UNCHANGED <<cfg, attn>>,
             pc \in AfterBody => sbe.pc \in AfterBody,
             pc \in Checked => sbe.pc \in Checked,
             pc \notin WinklePCs \cup SearchPCs
      PROVE  Stays
  BY <1>0, <1>d DEF Goto, Fields, Stays
<1>e. ASSUME NEW flag, NEW halt, NEW next, HaltOrNot(flag, halt, next)
      PROVE  Goto(halt) \/ Goto(next)
  BY <1>e DEF HaltOrNot, GoodHalt
<1> HIDE DEF OrderInv
<1>1. CASE LockI2c \/ I2cReset \/ EntryHalt \/ EntryTrap \/ Complete
  <2>1. Goto("i2cReset") \/ Goto("magic") \/ Goto("entryHalt") \/ Goto("trapCheck")
        \/ Goto("entryTrap") \/ Goto("skipCheck") \/ Goto("done")
    BY <1>1, <1>e DEF LockI2c, I2cReset, EntryHalt, EntryTrap, TrapOrNot, Complete, GoodHalt
  <2>2. UNCHANGED <<cfg, attn>>
    BY <1>1 DEF LockI2c, I2cReset, EntryHalt, EntryTrap, Complete, others
  <2> QED BY <1>a, <1>d, <2>1, <2>2 DEF AfterBody, Checked, WinklePCs, SearchPCs
<1>2. CASE UnknownChip \/ BodyFails
  BY <1>2, <1>a, <1>c DEF UnknownChip, BodyFails, others
<1>3. CASE CheckMagic
  <2>1. UNCHANGED <<cfg, attn>>
    BY <1>3 DEF CheckMagic, others
  <2>2. CASE cfg.i2c = "magic"
    BY <1>3, <1>a, <1>c, <2>1, <2>2 DEF CheckMagic
  <2>3. CASE cfg.i2c # "magic"
    <3>1. ArriveAt(0) /\ 0 < Pnor /\ 0 < Last - 1
      BY <1>0, <1>3, <2>3 DEF CheckMagic
    <3> QED BY <2>1, <3>1, ArriveOrder
  <2> QED BY <2>2, <2>3
<1>4. CASE Skip
  <2>1. /\ UNCHANGED <<cfg, attn>> /\ "skip" \in Control
        /\ sbe'.at = ReturnOf(sbe.at) /\ sbe'.pc = "epilogue" /\ sbe'.ex = sbe.ex
    BY <1>0, <1>4 DEF Skip, Fields, others
  <2>2. Past(Last - 1, Checked)' => Past(Last - 1, Checked)
    BY <1>0, <2>1, SkipTarget DEF Past, Checked, AfterBody
  <2>3. (Runs("enable_pnor") /\ Past(Pnor, AfterBody))' => IsMaster /\ cfg.cores # {}
    <3>1. SUFFICES ASSUME Runs("enable_pnor"), Past(Pnor, AfterBody)'
                   PROVE  IsMaster /\ cfg.cores # {}
      BY <2>1 DEF Runs
    <3>2. sbe.at >= Pnor
      BY <1>0, <2>1, <3>1, SkipTarget DEF Past
    <3>3. sbe.at # Pnor
      BY <2>1, <3>1, Order DEF Runs, Control, Item, IsEnablePnor
    <3>4. Past(Pnor, AfterBody)
      BY <1>0, <3>2, <3>3 DEF Past
    <3> QED BY <3>1, <3>4 DEF OrderInv, OrderOK
  <2>4. OrderOK'
    BY <2>1, <2>2, <2>3
       DEF OrderInv, OrderOK, Runs, IsMaster, Masked, LastChecked, SearchPCs, WinklePCs
  <2>5. SelectOK'
    BY <2>1 DEF OrderInv, SelectOK, SelectedCore, BootCore, Before, SearchPCs
  <2> QED BY <2>4, <2>5
<1>5. CASE Enter
  <2>1. UNCHANGED <<cfg, attn>>
    BY <1>5 DEF Enter, others
  <2>2. CASE Item.part = "enter"
    <3>1. ArriveAt(sbe.at)
      BY <1>5, <2>2 DEF Enter
    <3>2. \A k \in Pnor .. Last : Program[k].part # "enter"
      BY Order DEF IsEnablePnor, Last
    <3>3. sbe.at < Pnor /\ sbe.at < Last - 1 /\ sbe.at \in Nat
      BY <1>0, <2>2, <3>2 DEF Item
    <3> QED BY <2>1, <3>1, <3>3, ArriveOrder
  <2>3. CASE Item.part # "enter"
    BY <1>5, <1>a, <1>d, <2>1, <2>3
       DEF Enter, AfterBody, Checked, WinklePCs, SearchPCs
  <2> QED BY <2>2, <2>3
<1>6. CASE ExitCheck
  <2>1. UNCHANGED <<cfg, attn>> /\ sbe.pc = "epilogue"
    BY <1>6 DEF ExitCheck, others, At
  <2>2. CASE Item.checks /\ Detected # {}
    BY <1>6, <1>a, <1>c, <2>1, <2>2 DEF ExitCheck
  <2>3. CASE ~(Item.checks /\ Detected # {})
    <3>1. sbe'.pc = "exitCheck" /\ sbe'.at = sbe.at /\ sbe'.ex = sbe.ex
      BY <1>0, <1>6, <2>3 DEF ExitCheck, Goto, Fields
    <3>2. Past(Pnor, AfterBody)' => Past(Pnor, AfterBody)
      BY <2>1, <3>1 DEF Past, AfterBody
    <3>3. sbe.at = Last - 1 => \A a \in attn : Masked(a)
      <4>1. SUFFICES ASSUME sbe.at = Last - 1, NEW a \in attn PROVE Masked(a)
        OBVIOUS
      <4>2. Item.checks /\ Control = cfg.control[LastChecked]
        BY <4>1, Order DEF Item, Control, LastChecked, Last
      <4>3. a \in Attentions /\ a \notin Detected
        BY <2>3, <4>2 DEF OrderInv, OrderOK
      <4> QED BY <4>2, <4>3 DEF Detected, Masked, Attentions
    <3>4. (Past(Last - 1, Checked)) ' => \A a \in attn : Masked(a)
      BY <3>1, <3>3 DEF Past, OrderInv, OrderOK
    <3>5. OrderOK'
      BY <2>1, <3>1, <3>2, <3>4
         DEF OrderInv, OrderOK, Runs, IsMaster, Masked, LastChecked, SearchPCs, WinklePCs
    <3>6. SelectOK'
      BY <2>1, <3>1 DEF OrderInv, SelectOK, SelectedCore, BootCore, Before, SearchPCs
    <3> QED BY <3>5, <3>6
  <2> QED BY <2>2, <2>3
<1>7. CASE ExitHalt \/ ExitTrap
  <2>1. Goto("exitHalt") \/ Goto("exitTrapCheck") \/ Goto("exitTrap") \/ Goto("return")
    BY <1>7, <1>e DEF ExitHalt, ExitTrap, TrapOrNot
  <2>2. UNCHANGED <<cfg, attn>> /\ sbe.pc \in {"exitCheck", "exitTrapCheck"}
    BY <1>7 DEF ExitHalt, ExitTrap, others, At
  <2> QED BY <1>a, <1>d, <2>1, <2>2 DEF AfterBody, Checked, WinklePCs, SearchPCs
<1>8. CASE Return
  <2>1. ArriveAt(sbe.at) /\ sbe.pc = "return" /\ UNCHANGED <<cfg, attn>>
    BY <1>8 DEF Return, At, others
  <2>2. \A i \in Nat : sbe.at < i \/ Past(i, AfterBody)
    BY <1>0, <2>1 DEF Past, AfterBody
  <2>3. \A i \in Nat : sbe.at < i \/ Past(i, Checked)
    BY <1>0, <2>1 DEF Past, AfterBody, Checked
  <2>4. sbe.at \in Nat /\ Pnor \in Nat /\ Last - 1 \in Nat
    BY <1>0
  <2> QED BY <2>1, <2>2, <2>3, <2>4, ArriveOrder
<1>9. CASE BodyReturns \/ TpChipletInit1
  <2>1. Item.proc # "enable_pnor" /\ Goto("epilogue") /\ UNCHANGED <<cfg, attn>>
    BY <1>9 DEF BodyReturns, PlainBody, Modelled, TpChipletInit1, Body, others
  <2>2. BodyOver
    BY <1>0, <2>1 DEF BodyOver, Goto, Fields
  <2> QED BY <1>b, <2>2
<1> QED BY <1>1, <1>2, <1>3, <1>4, <1>5, <1>6, <1>7, <1>8, <1>9 DEF IstepStep

(* One position more has been looked at.                                   *)
LEMMA BeforeNext ==
    ASSUME NEW c \in Nat
    PROVE  Before(c + 1) = IF BootCore(c) THEN Before(c) \cup {c} ELSE Before(c)
<1>1. \A d : d \in 0 .. (c + 1) - 1 <=> d \in 0 .. c - 1 \/ d = c
  OBVIOUS
<1> QED BY <1>1 DEF Before

(* The choice of the master and the search for the boot core keep the      *)
(* order: only a master passes proc_sbe_enable_pnor, and the second core   *)
(* comes after just one other.                                             *)
LEMMA MasterOrder == OrderInv /\ MasterStep => OrderOK' /\ SelectOK'
<1> SUFFICES ASSUME OrderInv, MasterStep PROVE OrderOK' /\ SelectOK'
    OBVIOUS
<1>0. /\ Fields /\ sbe.at \in 1 .. Last
      /\ Last \in Nat /\ Last > 1 /\ Pnor \in 1 .. Last - 1
  BY Order DEF OrderInv, ServiceInv, BootInv, IntrOK, Last
<1>a. Stays => OrderOK' /\ SelectOK'
  BY StaysOrder
<1>b. ASSUME Goto("epilogue") \/ sbe' = [sbe EXCEPT !.pc = "epilogue"],
             UNCHANGED <<cfg, attn>>, Item.proc # "enable_pnor"
      PROVE  OrderOK' /\ SelectOK'
  <2>1. BodyOver
    BY <1>0, <1>b DEF BodyOver, Goto, Fields
  <2> QED BY <2>1, BodyOverOrder
<1>c. ASSUME NEW rc, ErrorHalt(rc), UNCHANGED <<cfg, attn>>
      PROVE  OrderOK' /\ SelectOK'
  <2>1. Stays
    BY <1>0, <1>c DEF ErrorHalt, Fields, Stays, AfterBody, Checked, SearchPCs, WinklePCs
  <2> QED BY <2>1, <1>a
<1>d. ASSUME NEW pc, Goto(pc), UNCHANGED <<cfg, attn>>,
             pc \notin AfterBody \cup WinklePCs \cup SearchPCs
      PROVE  OrderOK' /\ SelectOK'
  <2>1. Stays
    BY <1>0, <1>d DEF Goto, Fields, Stays, Checked
  <2> QED BY <2>1, <1>a
<1>e. ASSUME UNCHANGED <<cfg, attn>>, sbe'.at = sbe.at, Item.proc = "select_ex",
             sbe'.pc \in SearchPCs
      PROVE  OrderOK'
  <2>1. ~Past(Pnor, AfterBody)' \/ Past(Pnor, AfterBody)
    BY <1>e DEF Past, AfterBody, SearchPCs
  <2>2. ~Past(Last - 1, Checked)' \/ Past(Last - 1, Checked)
    BY <1>e DEF Past, AfterBody, Checked, SearchPCs
  <2> QED BY <1>e, <2>1, <2>2
          DEF OrderInv, OrderOK, Runs, IsMaster, Masked, LastChecked, Item, SearchPCs, WinklePCs
<1>f. LastPosition \in Nat
  BY SbeAssumption, Zenon DEF SbeAssumption
<1> HIDE DEF OrderInv
<1>1. CASE MasterWithoutCore
  BY <1>1, <1>c DEF MasterWithoutCore, others
<1>2. CASE SlaveStops \/ SlaveServesScans
  <2>1. Goto("slaveHalt") \/ Goto("scanEntry")
    BY <1>2 DEF SlaveStops, SlaveStop, SlaveServesScans
  <2>2. UNCHANGED <<cfg, attn>>
    BY <1>2 DEF SlaveStops, SlaveStop, SlaveServesScans, others
  <2> QED BY <1>d, <2>1, <2>2 DEF AfterBody, WinklePCs, SearchPCs
<1>3. CASE TreatedAsMaster \/ HostRuntimeScom
  BY <1>3, <1>b DEF TreatedAsMaster, HostRuntimeScom, Body, others
<1>4. CASE MasterBoots
  <2>1. Item.proc # "enable_pnor" /\ UNCHANGED <<cfg, attn>>
    BY <1>4 DEF MasterBoots, Body, others
  <2>2. Goto("epilogue") \/ ErrorHalt("noValidMcs")
    BY <1>4 DEF MasterBoots
  <2> QED BY <1>b, <1>c, <2>1, <2>2
<1>5. CASE EnablePnor
  <2>1. UNCHANGED <<cfg, attn>> /\ ~HasNoCore /\ sbe.pc = "body"
    BY <1>5 DEF EnablePnor, SlaveStop, others, Body, At
  <2>2. IgnoreOverride \notin Control
    <3>1. cfg \in ConfigType
      BY SbeAssumption DEF SbeAssumption, OrderInv, OrderOK
    <3>2. Item.proc \in Procs
      BY <1>0 DEF Item, Procs, Last
    <3>3. Control \subseteq Flags
      BY <3>1, <3>2, Zenon DEF ConfigType, Control
    <3> QED BY <3>3 DEF Flags, IgnoreOverride
  <2>3. CASE IsMaster
    <3>1. sbe'.pc = "epilogue" /\ sbe'.at = sbe.at /\ sbe'.ex = sbe.ex
      BY <1>0, <1>5, <2>3 DEF EnablePnor, Goto, Fields
    <3>2. cfg.cores # {}
      BY <2>1, <2>3 DEF HasNoCore
    <3>3. Past(Last - 1, Checked)' => Past(Last - 1, Checked)
      BY <3>1 DEF Past, Checked
    <3>4. OrderOK'
      BY <2>1, <2>3, <3>1, <3>2, <3>3
         DEF OrderInv, OrderOK, IsMaster, Masked, LastChecked, SearchPCs, WinklePCs
    <3>5. SelectOK'
      BY <2>1, <3>1 DEF OrderInv, SelectOK, SelectedCore, BootCore, Before, SearchPCs
    <3> QED BY <3>4, <3>5
  <2>4. CASE ~IsMaster
    <3>1. Goto("slaveHalt")
      BY <1>5, <2>2, <2>4 DEF EnablePnor, Overridden, SlaveStop
    <3> QED BY <1>d, <2>1, <3>1 DEF AfterBody, WinklePCs, SearchPCs
  <2> QED BY <2>3, <2>4
<1>6. CASE SelectAll
  <2>1. /\ UNCHANGED <<cfg, attn>> /\ Item.proc # "enable_pnor"
        /\ sbe' = [sbe EXCEPT !.pc = "epilogue", !.ex = AllEx]
    BY <1>6 DEF SelectAll, others, Body
  <2>2. sbe'.pc = "epilogue" /\ sbe'.at = sbe.at /\ sbe'.ex \notin Positions
    BY <1>0, <1>f, <2>1 DEF Fields, AllEx, Positions
  <2>3. sbe.at # Pnor
    BY <2>1, Order DEF Item, IsEnablePnor
  <2>4. Past(Pnor, AfterBody)' => Past(Pnor, AfterBody)
    BY <1>0, <2>2, <2>3 DEF Past
  <2>5. Past(Last - 1, Checked)' => Past(Last - 1, Checked)
    BY <2>2 DEF Past, Checked
  <2>6. OrderOK'
    BY <2>1, <2>2, <2>4, <2>5
       DEF OrderInv, OrderOK, Runs, IsMaster, Masked, LastChecked, SearchPCs, WinklePCs
  <2>7. SelectOK'
    BY <2>2 DEF SelectOK, SelectedCore, SearchPCs
  <2> QED BY <2>6, <2>7
<1>7. CASE SelectOne
  <2>1. /\ UNCHANGED <<cfg, attn>> /\ Item.proc = "select_ex" /\ sbe'.at = sbe.at
        /\ sbe'.pc = "findFirst" /\ sbe'.ctr = LastPosition /\ sbe'.pos = 0 /\ sbe'.ex = sbe.ex
    BY <1>0, <1>7 DEF SelectOne, others, Body, Fields
  <2>2. Before(0) = {}
    BY DEF Before
  <2>3. (SelectOK)'
    BY <1>f, <2>1, <2>2
       DEF OrderInv, SelectOK, SelectedCore, BootCore, Before, SearchPCs, Positions
  <2> QED BY <1>e, <2>1, <2>3 DEF SearchPCs
<1>8. CASE FindFirst \/ RotateSecond
  <2>1. /\ UNCHANGED <<cfg, attn>> /\ Item.proc = "select_ex"
        /\ sbe.pos \in Positions /\ sbe.ctr \in Int /\ sbe.ctr = LastPosition - sbe.pos
    BY <1>8 DEF FindFirst, RotateSecond, At, others, OrderInv, OrderOK, SelectOK, SearchPCs
  <2>2. ASSUME NEW again \in {"findFirst", "findSecond"}, NEW rc, Rotate(again, rc)
        PROVE  /\ sbe'.at = sbe.at /\ sbe'.ex = sbe.ex
               /\ \/ /\ sbe'.pc = again /\ sbe'.pos = sbe.pos + 1 /\ sbe'.ctr = sbe.ctr - 1
                     /\ sbe'.pos \in Positions /\ sbe'.ctr = LastPosition - sbe'.pos
                  \/ sbe'.pc = "errorHalt"
    <3>1. CASE sbe.ctr > 0
      <4>1. sbe'.pc = again /\ sbe'.pos = sbe.pos + 1 /\ sbe'.ctr = sbe.ctr - 1
            /\ sbe'.at = sbe.at /\ sbe'.ex = sbe.ex
        BY <1>0, <2>2, <3>1 DEF Rotate, Fields
      <4> QED BY <1>f, <2>1, <3>1, <4>1 DEF Positions
    <3>2. CASE ~(sbe.ctr > 0)
      BY <1>0, <2>2, <3>2 DEF Rotate, Fields
    <3> QED BY <3>1, <3>2
  <2>3. ASSUME sbe'.pc = "errorHalt", sbe'.at = sbe.at, sbe'.ex = sbe.ex
        PROVE  OrderOK' /\ SelectOK'
    <3>1. Stays
      BY <2>1, <2>3 DEF Stays, AfterBody, Checked, SearchPCs, WinklePCs
    <3> QED BY <1>a, <3>1
  <2>4. SelectedCore' \/ sbe'.ex # sbe.ex
    BY <2>1 DEF OrderInv, SelectOK, SelectedCore, BootCore, Before
  <2>5. sbe.pos \in Nat
    BY <2>1 DEF Positions
  <2>6. CASE FindFirst
    <3>0. Before(sbe.pos) = {} /\ sbe.pc = "findFirst"
      BY <2>6 DEF FindFirst, At, OrderInv, SelectOK
    <3>1. CASE BootCore(sbe.pos)
      <4>1. sbe'.pc = "firstFound" /\ sbe'.at = sbe.at /\ sbe'.ex = sbe.ex
            /\ sbe'.pos = sbe.pos /\ sbe'.ctr = sbe.ctr
        BY <1>0, <2>6, <3>1 DEF FindFirst, Goto, Fields
      <4>2. SelectOK'
        BY <2>1, <2>4, <3>0, <3>1, <4>1 DEF SelectOK, SearchPCs, BootCore, Before
      <4> QED BY <1>e, <2>1, <4>1, <4>2 DEF SearchPCs
    <3>2. CASE ~BootCore(sbe.pos)
      <4>1. Rotate("findFirst", "noBootCores")
        BY <2>6, <3>2 DEF FindFirst
      <4>2. CASE sbe'.pc = "errorHalt"
        BY <2>2, <2>3, <4>1, <4>2
      <4>3. CASE sbe'.pc # "errorHalt"
        <5>1. sbe'.pc = "findFirst" /\ sbe'.pos = sbe.pos + 1 /\ sbe'.ctr = sbe.ctr - 1
              /\ sbe'.pos \in Positions /\ sbe'.ctr = LastPosition - sbe'.pos
              /\ sbe'.at = sbe.at /\ sbe'.ex = sbe.ex
          BY <2>2, <4>1, <4>3
        <5>2. Before(sbe.pos + 1) = {}
          BY <2>5, <3>0, <3>2, BeforeNext
        <5>3. SelectOK'
          BY <2>1, <2>4, <5>1, <5>2 DEF SelectOK, SearchPCs, BootCore, Before
        <5> QED BY <1>e, <2>1, <5>1, <5>3 DEF SearchPCs
      <4> QED BY <4>2, <4>3
    <3> QED BY <3>1, <3>2
  <2>7. CASE RotateSecond
    <3>0. Cardinality(Before(sbe.pos + 1)) = 1 /\ sbe.pc = "rotateSecond" /\ cfg.skipFirst
      BY <2>7 DEF RotateSecond, At, OrderInv, SelectOK
    <3>1. Rotate("findSecond", "noSecondCore")
      BY <2>7 DEF RotateSecond
    <3>2. CASE sbe'.pc = "errorHalt"
      BY <2>2, <2>3, <3>1, <3>2
    <3>3. CASE sbe'.pc # "errorHalt"
      <4>1. sbe'.pc = "findSecond" /\ sbe'.pos = sbe.pos + 1 /\ sbe'.ctr = sbe.ctr - 1
            /\ sbe'.pos \in Positions /\ sbe'.ctr = LastPosition - sbe'.pos
            /\ sbe'.at = sbe.at /\ sbe'.ex = sbe.ex
        BY <2>2, <3>1, <3>3
      <4>2. SelectOK'
        BY <2>1, <2>4, <3>0, <4>1 DEF SelectOK, SearchPCs, BootCore, Before
      <4> QED BY <1>e, <2>1, <4>1, <4>2 DEF SearchPCs
    <3> QED BY <3>2, <3>3
  <2> QED BY <1>8, <2>6, <2>7
<1>9. CASE FirstFound \/ FindSecond
  <2>1. /\ UNCHANGED <<cfg, attn>> /\ Item.proc = "select_ex"
        /\ sbe.pos \in Positions /\ sbe.ctr \in Int /\ sbe.ctr = LastPosition - sbe.pos
    BY <1>9 DEF FirstFound, FindSecond, At, others, OrderInv, OrderOK, SelectOK, SearchPCs
  <2>2. sbe.pos \in Nat
    BY <2>1 DEF Positions
  <2>3. /\ sbe'.pc \in {"rotateSecond", "selected"}
        /\ sbe'.at = sbe.at /\ sbe'.ex = sbe.ex /\ sbe'.pos = sbe.pos /\ sbe'.ctr = sbe.ctr
    BY <1>0, <1>9 DEF FirstFound, FindSecond, Goto, Fields
  <2>4. SelectedCore'
    BY <2>1, <2>3 DEF OrderInv, SelectOK, SelectedCore, BootCore, Before
  <2>5. CASE FirstFound
    <3>1. /\ Before(sbe.pos) = {} /\ BootCore(sbe.pos)
          /\ sbe'.pc = IF cfg.skipFirst THEN "rotateSecond" ELSE "selected"
      BY <1>0, <2>5 DEF FirstFound, At, Goto, Fields, OrderInv, SelectOK
    <3>2. Cardinality(Before(sbe.pos)) = 0 /\ Cardinality(Before(sbe.pos + 1)) = 1
      <4>1. Before(sbe.pos + 1) = {sbe.pos}
        BY <2>2, <3>1, BeforeNext
      <4> QED BY <3>1, <4>1, FS_EmptySet, FS_Singleton
    <3>3. SelectOK'
      BY <2>1, <2>3, <2>4, <3>1, <3>2 DEF SelectOK, SearchPCs, BootCore, Before
    <3> QED BY <1>e, <2>1, <2>3, <3>3 DEF SearchPCs
  <2>6. CASE FindSecond
    <3>1. /\ Cardinality(Before(sbe.pos)) = 1 /\ cfg.skipFirst
          /\ sbe'.pc = IF BootCore(sbe.pos) THEN "selected" ELSE "rotateSecond"
      BY <1>0, <2>6 DEF FindSecond, At, Goto, Fields, OrderInv, SelectOK
    <3>2. ~BootCore(sbe.pos) => Before(sbe.pos + 1) = Before(sbe.pos)
      BY <2>2, BeforeNext
    <3>3. SelectOK'
      BY <2>1, <2>3, <2>4, <3>1, <3>2 DEF SelectOK, SearchPCs, BootCore, Before
    <3> QED BY <1>e, <2>1, <2>3, <3>3 DEF SearchPCs
  <2> QED BY <1>9, <2>5, <2>6
<1>10. CASE Selected
  <2>1. /\ UNCHANGED <<cfg, attn>> /\ Item.proc # "enable_pnor"
        /\ sbe.pos \in Positions /\ sbe.ctr \in Int /\ sbe.ctr = LastPosition - sbe.pos
        /\ BootCore(sbe.pos)
        /\ Cardinality(Before(sbe.pos)) = IF cfg.skipFirst THEN 1 ELSE 0
    BY <1>10 DEF Selected, At, others, OrderInv, OrderOK, SelectOK, SearchPCs
  <2>2. sbe'.pc = "epilogue" /\ sbe'.at = sbe.at /\ sbe'.ex = LastPosition - sbe.ctr
    BY <1>0, <1>10 DEF Selected, Fields
  <2>3. sbe'.ex = sbe.pos
    BY <1>f, <2>1, <2>2 DEF Positions
  <2>4. sbe.at # Pnor
    BY <2>1, Order DEF Item, IsEnablePnor
  <2>5. Past(Pnor, AfterBody)' => Past(Pnor, AfterBody)
    BY <1>0, <2>2, <2>4 DEF Past
  <2>6. Past(Last - 1, Checked)' => Past(Last - 1, Checked)
    BY <2>2 DEF Past, Checked
  <2>7. OrderOK'
    BY <2>1, <2>2, <2>5, <2>6
       DEF OrderInv, OrderOK, Runs, IsMaster, Masked, LastChecked, SearchPCs, WinklePCs
  <2>8. SelectedCore'
    BY <2>1, <2>3 DEF SelectedCore, BootCore, Before
  <2>9. SelectOK'
    BY <2>2, <2>8 DEF SelectOK, SearchPCs
  <2> QED BY <2>7, <2>9
<1>11. CASE TriggerWinkle
  <2>1. /\ UNCHANGED <<cfg, attn>> /\ Item.proc = "trigger_winkle"
        /\ sbe'.pc = "winkleEntry" /\ sbe'.at = sbe.at /\ sbe'.ex = sbe.ex
    BY <1>0, <1>11 DEF TriggerWinkle, Body, Goto, Fields, others
  <2>2. sbe.at = Last
    BY <1>0, <2>1, Order DEF Item
  <2>3. Past(Pnor, AfterBody) /\ Past(Last - 1, Checked)
    BY <1>0, <2>2 DEF Past
  <2>4. OrderOK'
    BY <2>1, <2>2, <2>3
       DEF OrderInv, OrderOK, Runs, IsMaster, Masked, LastChecked, SearchPCs
  <2>5. SelectOK'
    BY <2>1 DEF OrderInv, SelectOK, SelectedCore, BootCore, Before, SearchPCs
  <2> QED BY <2>4, <2>5
<1> QED BY <1>1, <1>2, <1>3, <1>4, <1>5, <1>6, <1>7, <1>8, <1>9, <1>10, <1>11 DEF MasterStep

(* The handshake, the services and the other actors stay behind the order. *)
LEMMA WinkleStays == OrderInv /\ WinkleEngine => Stays
<1> SUFFICES ASSUME OrderInv, WinkleEngine PROVE Stays
    OBVIOUS
<1>0. Fields
  BY DEF OrderInv, ServiceInv, BootInv
<1>a. ASSUME NEW rc, PollAgain(rc)
      PROVE  /\ sbe'.at = sbe.at /\ sbe'.ex = sbe.ex /\ sbe'.pc \in {sbe.pc, "errorHalt"}
             /\ UNCHANGED <<cfg, attn>>
  BY <1>0, <1>a DEF PollAgain, ErrorHalt, Fields
<1> HIDE DEF OrderInv
<1> USE <1>0 DEF Fields, Stays, At, Goto, Load, others, AfterBody, Checked, SearchPCs, WinklePCs
<1>1. CASE WinkleEntry \/ WinkleReady \/ PollStart \/ Started
  <2>1. CASE WinkleEntry
    BY <2>1 DEF WinkleEntry
  <2>3. CASE WinkleReady
    BY <2>3 DEF WinkleReady
  <2>2. CASE PollStart \/ Started
    BY <2>2 DEF PollStart, Started
  <2> QED BY <1>1, <2>1, <2>2, <2>3
<1>2. CASE PollWinkle
  BY <1>2, <1>a DEF PollWinkle
<1>3. CASE Wake \/ Waking \/ Unblock \/ Ipi
  <2>1. CASE Wake \/ Waking
    BY <2>1 DEF Wake, Waking
  <2>2. CASE Unblock \/ Ipi
    BY <2>2 DEF Unblock, Ipi
  <2> QED BY <1>3, <2>1, <2>2
<1>4. CASE PollGoto \/ PollIdle
  BY <1>4, <1>a DEF PollGoto, PollIdle
<1>5. CASE Awake \/ IcpOff
  BY <1>5 DEF Awake, IcpOff
<1>6. CASE PollAlive
  BY <1>6, <1>a DEF PollAlive
<1>7. CASE Success
  BY <1>7 DEF Success
<1> QED BY <1>1, <1>2, <1>3, <1>4, <1>5, <1>6, <1>7 DEF WinkleEngine

(* The services stay behind what the order is about.                     *)
LEMMA ServicesStay == OrderInv /\ (IntrStep \/ ScanStep) => Stays
<1> SUFFICES ASSUME OrderInv, IntrStep \/ ScanStep PROVE Stays
    OBVIOUS
<1>0. Fields
  BY DEF OrderInv, ServiceInv, BootInv
<1> HIDE DEF OrderInv
<1> USE <1>0 DEF Fields, Stays, At, Goto, others, AfterBody, Checked, SearchPCs, WinklePCs
<1>1. CASE IntrStep
  <2>1. CASE IntrEntry \/ IntrWait \/ IntrRead
    BY <2>1, ZenonT(30) DEF IntrEntry, IntrWait, IntrRead
  <2>2. CASE IntrClear \/ IntrHalt
    BY <2>2, ZenonT(30) DEF IntrClear, IntrHalt
  <2>3. CASE LoadDecrementer
    BY <2>3 DEF LoadDecrementer
  <2>4. CASE Decrement
    <3>1. sbe' = [sbe EXCEPT !.pc = "intrWait", !.ctr = Decremented] /\ UNCHANGED <<cfg, attn>>
      BY <2>4 DEF Decrement
    <3> QED BY <3>1
  <2> QED BY <1>1, <2>1, <2>2, <2>3, <2>4 DEF IntrStep
<1>2. CASE ScanEntry \/ ScanPrep \/ ScanReady \/ ScanPoll \/ SaveRequest \/ ScanHalt
  <2>1. CASE ScanEntry \/ ScanPrep
    BY <2>1 DEF ScanEntry, ScanPrep
  <2>2. CASE ScanReady \/ ScanPoll
    BY <2>2, ZenonT(30) DEF ScanReady, ScanPoll, Step
  <2>3. CASE SaveRequest \/ ScanHalt
    BY <2>3 DEF SaveRequest, ScanHalt
  <2> QED BY <1>2, <2>1, <2>2, <2>3
<1>3. CASE InvalidOperation \/ CheckwordError
  BY <1>3, ZenonT(30) DEF InvalidOperation, CheckwordError, ErrorHalt
<1>4. CASE Decode \/ SetRing \/ ModRing
  <2>1. CASE Decode
    <3>1. PICK to \in {"setRing", "modRing"} :
             sbe' = [sbe EXCEPT !.pc = to] /\ UNCHANGED <<cfg, attn>>
      BY <2>1, Zenon DEF Decode, Step
    <3> QED BY <3>1
  <2>2. CASE SetRing
    <3>1. sbe' = [sbe EXCEPT !.pc = "respond"] /\ UNCHANGED <<cfg, attn>>
      BY <2>2, Zenon DEF SetRing
    <3> QED BY <3>1
  <2>3. CASE ModRing
    BY <2>3 DEF ModRing
  <2> QED BY <1>4, <2>1, <2>2, <2>3
<1>5. CASE RotateToMod \/ RotateToEnd
  <2>1. CASE RotateToMod
    BY <2>1 DEF RotateToMod, RotateRing
  <2>2. CASE RotateToEnd
    BY <2>2 DEF RotateToEnd, RotateRing
  <2> QED BY <1>5, <2>1, <2>2
<1>6. CASE Flip \/ HeaderCheck \/ Respond
  <2>1. CASE Flip
    BY <2>1 DEF Flip
  <2>2. CASE HeaderCheck \/ Respond
    BY <2>2 DEF HeaderCheck, Respond
  <2> QED BY <1>6, <2>1, <2>2
<1> QED BY <1>1, <1>2, <1>3, <1>4, <1>5, <1>6 DEF ScanStep

(* So do a debugger that goes on, the chiplets and the hosts.            *)
LEMMA OthersStay ==
    OrderInv /\ (UpdateStep \/ Continue \/ WinkleHost \/ PostInterrupt \/ PostScan
                 \/ CollectScan \/ UNCHANGED vars) => Stays
<1> SUFFICES ASSUME OrderInv,
                    UpdateStep \/ Continue \/ WinkleHost \/ PostInterrupt \/ PostScan
                    \/ CollectScan \/ UNCHANGED vars
             PROVE  Stays
    OBVIOUS
<1>1. CASE Continue
  <2>1. Fields
    BY DEF OrderInv, ServiceInv, BootInv
  <2>2. /\ \/ Goto("trapCheck") \/ Goto("skipCheck")
           \/ sbe.pc \in {"exitHalt", "exitTrap"} /\ (Goto("exitTrapCheck") \/ Goto("return"))
        /\ UNCHANGED <<cfg, attn>>
    BY <1>1 DEF Continue, ContinueEntry, ContinueTrap, ContinueExit, At, others
  <2> QED BY <2>1, <2>2 DEF Stays, Goto, Fields, AfterBody, Checked, SearchPCs, WinklePCs
<1>2. CASE ~Continue
  <2>1. UNCHANGED <<cfg, sbe, attn>>
    BY <1>2, Zenon
       DEF UpdateStep, WinkleHost, HostStarts, HostWinkles, ChipletMoves, HostAlive,
           PostInterrupt, PostScan, CollectScan, vars, others
  <2> QED BY <2>1 DEF Stays
<1> QED BY <1>1, <1>2

(* An attention comes in the body of a procedure that is not the last.     *)
LEMMA AttentionOrder == OrderInv /\ RaiseAttention => OrderOK' /\ SelectOK'
<1> SUFFICES ASSUME OrderInv, RaiseAttention PROVE OrderOK' /\ SelectOK'
    OBVIOUS
<1>1. /\ sbe.pc = "body" /\ Item.proc # "trigger_winkle" /\ UNCHANGED <<cfg, sbe>>
      /\ attn' \subseteq Attentions
  BY DEF RaiseAttention, PlainBody, At, Modelled, others, OrderInv, OrderOK
<1>2. sbe.at \in 1 .. Last /\ Last \in Nat
  BY Order DEF OrderInv, ServiceInv, IntrOK, Last
<1>3. ~Past(Last - 1, Checked)'
  BY <1>1, <1>2, Order DEF Past, Checked, AfterBody, Item
<1>4. OrderOK'
  BY <1>1, <1>3
     DEF OrderInv, OrderOK, Past, Runs, IsMaster, WinklePCs, SearchPCs
<1>5. SelectOK'
  BY <1>1 DEF OrderInv, SelectOK, SelectedCore, BootCore, Before, SearchPCs
<1> QED BY <1>4, <1>5

(* In every behaviour the boot is in order.                                *)
THEOREM OrderInvariant == Spec => []OrderInv
<1>1. Init => OrderOK /\ SelectOK
  <2> SUFFICES ASSUME Init PROVE OrderOK /\ SelectOK
      OBVIOUS
  <2>1. /\ cfg \in Configs /\ attn = {}
        /\ sbe.pc = "otprom" /\ sbe.at = 1 /\ sbe.ex = NoEx
    BY DEF Init
  <2>2. sbe.ex \notin Positions
    <3>1. LastPosition \in Nat
      BY SbeAssumption, Zenon DEF SbeAssumption
    <3> QED BY <2>1, <3>1 DEF NoEx, Positions
  <2>3. ~Past(Pnor, AfterBody) /\ ~Past(Last - 1, Checked)
    BY <2>1, Order DEF Past, AfterBody, Checked
  <2> QED BY <2>1, <2>2, <2>3 DEF OrderOK, SelectOK, SelectedCore, WinklePCs, SearchPCs
<1>2. OrderInv /\ [Next]_vars => OrderOK' /\ SelectOK'
  BY IstepOrder, MasterOrder, WinkleStays, ServicesStay, OthersStay, AttentionOrder, StaysOrder
     DEF Next, EngineStep, Polls
<1>3. OrderOK /\ SelectOK /\ ServiceInv /\ ServiceInv' /\ [Next]_vars
         => (OrderOK /\ SelectOK)'
  BY <1>2 DEF OrderInv
<1> QED BY <1>1, <1>3, ServiceInvariant, PTL DEF Spec, OrderInv

(* No slave gets as far as waking cores unless its control word passes     *)
(* over proc_sbe_enable_pnor.                                              *)
THEOREM SlavesNeverStart == Spec => []SlaveNeverStarts
<1>1. OrderInv => SlaveNeverStarts
  BY Order DEF OrderInv, OrderOK, SlaveNeverStarts, Past
<1> QED BY OrderInvariant, <1>1, PTL

(* The core that boots is the first good boot core, or the second when     *)
(* SBEVITAL says so.                                                       *)
THEOREM RightCoreSelected == Spec => []SelectedCore
<1>1. OrderInv => SelectedCore
  BY DEF OrderInv, SelectOK
<1> QED BY OrderInvariant, <1>1, PTL

(* No boot gets as far as waking cores with an attention that the last     *)
(* check does not mask.                                                    *)
THEOREM AttentionsStopTheBoot == Spec => []AttentionStopsBoot
<1>1. OrderInv => AttentionStopsBoot
  BY Order DEF OrderInv, OrderOK, AttentionStopsBoot, Past
<1> QED BY OrderInvariant, <1>1, PTL

(***************************************************************************)
(* The winkle handshake: SBEVITAL, Hostboot and the chiplets move on with  *)
(* the engine, so that each sees what it waits for.                        *)
(***************************************************************************)
WakePCs == {"wake", "waking", "unblock", "ipi"}
WokenPCs == {"pollGoto", "pollIdle", "awake", "icpOff", "pollAlive"}
BeforePCs == BootPCs \cup ScanPCs \cup {"slaveHalt", "winkleEntry", "winkleReady"}
AfterPCs == {"success", "done", "errorHalt"} \cup IntrPCs

ExType ==
    /\ DOMAIN ex = {"phase", "age", "ipi", "blocked", "icp", "fir", "late"}
    /\ ex.phase \in [Positions -> Phases] /\ ex.age \in 0 .. PhaseMax
    /\ ex.fir \in BOOLEAN /\ ex.late \in BOOLEAN

(* SBEVITAL is that of the handshake only in it, and Hostboot may start    *)
(* only where the engine waits for that.                                   *)
VitalOK ==
    /\ vital.proc = "trigger_winkle" =>
          /\ sbe.at = Last
          /\ sbe.pc \in {"body", "done", "errorHalt", "intrEntry"} \cup WinklePCs
          /\ vital.step = SBE_READY => sbe.pc = "pollStart"
          /\ vital.step = DEADMAN_START => host.phase # "idle"
    /\ sbe.pc \in WinklePCs => vital.proc = "trigger_winkle"
    /\ sbe.pc = "body" /\ sbe.at = Last => vital.proc = "trigger_winkle"
    /\ sbe.pc = "pollStart" => vital.step \in {SBE_READY, DEADMAN_START}
    /\ sbe.pc \in {"icpOff", "pollAlive"} =>
          vital.step \in {WAITING_FOR_HOSTBOOT, HOSTBOOT_ALIVE}

(* How far Hostboot and the chiplets may be: no core goes into winkle      *)
(* before Hostboot has started, none is awake before the interrupt.        *)
HostOK ==
    /\ host.phase \in {"idle", "started", "asleep", "alive"}
    /\ sbe.pc \in BeforePCs => host.phase = "idle"
    /\ sbe.pc \in Deadman => host.phase # "idle"
    /\ host.phase = "alive" /\ sbe.pc \in Deadman \cup {"pollStart"} =>
          sbe.pc \in {"icpOff", "pollAlive"} /\ vital.step = HOSTBOOT_ALIVE
    /\ host.phase \in {"idle", "started"} => \A c \in Positions : ex.phase[c] = "run"
    /\ sbe.pc \notin WokenPCs \cup AfterPCs =>
          /\ ex.ipi = {}
          /\ \A c \in Positions : ex.phase[c] \in {"run", "entering", "winkled"}
    /\ sbe.pc \in WakePCs /\ sbe.ex # AllEx =>
          sbe.ex \in Positions /\ ex.phase[sbe.ex] = "winkled"

HandInv == OrderInv /\ ExType /\ VitalOK /\ HostOK

(* A step of the boot or of the scan service, which has no part in it.     *)
Elsewhere ==
    /\ UNCHANGED ex /\ host'.phase = host.phase
    /\ sbe.pc \in BootPCs \cup ScanPCs
    /\ sbe'.pc \in BootPCs \cup ScanPCs \cup {"slaveHalt", "errorHalt", "done", "winkleEntry"}
    /\ vital'.proc = "trigger_winkle" =>
          /\ sbe'.at = Last /\ sbe'.pc \in {"body", "errorHalt", "winkleEntry"}
          /\ vital'.step = 0
    /\ sbe'.pc = "winkleEntry" => vital'.proc = "trigger_winkle"
    /\ sbe'.pc = "body" /\ sbe'.at = Last => vital'.proc = "trigger_winkle"

(* Such a step keeps the invariant of the handshake.                     *)
LEMMA ElsewhereHand == HandInv /\ Elsewhere => ExType' /\ VitalOK' /\ HostOK'
<1> SUFFICES ASSUME HandInv, Elsewhere PROVE ExType' /\ VitalOK' /\ HostOK'
    OBVIOUS
<1>1. sbe'.pc \notin Deadman \cup {"pollStart"} \cup WakePCs
      /\ sbe'.pc \notin {"icpOff", "pollAlive", "winkleReady"}
  BY DEF Elsewhere, Deadman, WakePCs, BootPCs, ScanPCs
<1>2. ExType'
  BY DEF HandInv, ExType, Elsewhere
<1>3. VitalOK'
  BY <1>1 DEF VitalOK, Elsewhere, WinklePCs, SBE_READY, DEADMAN_START, BootPCs, ScanPCs
<1>4. sbe.pc \in BeforePCs /\ sbe.pc \notin WokenPCs \cup AfterPCs
  BY DEF Elsewhere, BeforePCs, WokenPCs, AfterPCs, BootPCs, ScanPCs, IntrPCs
<1>5. HostOK'
  BY <1>1, <1>4 DEF HandInv, HostOK, Elsewhere
<1> QED BY <1>2, <1>3, <1>5

(* A step that leaves the engine, SBEVITAL and the chiplets alone.         *)
Aside == UNCHANGED <<sbe, vital, ex>> /\ host'.phase = host.phase

(* So does one that leaves the handshake alone.                          *)
LEMMA AsideHand == HandInv /\ Aside => ExType' /\ VitalOK' /\ HostOK'
BY DEF HandInv, Aside, ExType, VitalOK, HostOK

(* The istep sequence: only an Enter of the last item names the handshake. *)
LEMMA IstepElsewhere == HandInv /\ (IstepStep \/ Continue) => Elsewhere
<1> SUFFICES ASSUME HandInv, IstepStep \/ Continue PROVE Elsewhere
    OBVIOUS
<1>0. /\ Fields /\ sbe.at \in 1 .. Last
  BY DEF HandInv, OrderInv, ServiceInv, BootInv, IntrOK, Last
<1>1. /\ UNCHANGED ex /\ host'.phase = host.phase
  BY DEF IstepStep, Continue, LockI2c, UnknownChip, I2cReset, CheckMagic, EntryHalt, EntryTrap,
         Skip, Enter, ExitCheck, ExitHalt, ExitTrap, Return, Complete, BodyReturns, BodyFails,
         TpChipletInit1, ContinueEntry, ContinueTrap, ContinueExit, others
<1>2. sbe.pc \in BootPCs
  BY DEF IstepStep, Continue, LockI2c, UnknownChip, I2cReset, CheckMagic, EntryHalt, EntryTrap,
         Skip, Enter, ExitCheck, ExitHalt, ExitTrap, Return, Complete, BodyReturns, BodyFails,
         TpChipletInit1, ContinueEntry, ContinueTrap, ContinueExit, At, PlainBody, Body, BootPCs
<1>3. sbe.pc # "body" => vital.proc # "trigger_winkle"
  BY <1>2 DEF HandInv, VitalOK, BootPCs, WinklePCs
<1> HIDE DEF HandInv
<1>4. CASE Enter /\ Item.part # "enter"
  <2>1. sbe'.pc = "body" /\ sbe'.at = sbe.at /\ vital'.proc = Item.proc /\ vital'.step = 0
    BY <1>0, <1>4 DEF Enter, Goto, Entered, Fields
  <2>2. Item.proc = "trigger_winkle" <=> sbe.at = Last
    BY <1>0, Order DEF Item
  <2> QED BY <1>1, <1>2, <2>1, <2>2 DEF Elsewhere, BootPCs
<1>5. CASE BodyReturns \/ BodyFails \/ TpChipletInit1
  <2>1. Item.proc # "trigger_winkle" /\ UNCHANGED vital /\ sbe.pc = "body"
        /\ (Goto("epilogue") \/ ErrorHalt("procedure"))
    BY <1>5 DEF BodyReturns, BodyFails, TpChipletInit1, PlainBody, Body, At, Modelled
  <2>2. sbe.at # Last
    BY <1>0, <2>1, Order DEF Item
  <2>3. vital'.proc # "trigger_winkle"
    BY <2>1, <2>2 DEF HandInv, VitalOK
  <2>4. sbe'.pc \in {"epilogue", "errorHalt"}
    BY <1>0, <2>1 DEF Goto, ErrorHalt, Fields
  <2> QED BY <1>1, <1>2, <2>3, <2>4 DEF Elsewhere, BootPCs
<1>6. CASE CheckMagic \/ Return \/ (Enter /\ Item.part = "enter")
  <2>1. sbe'.pc \in {"epilogue", "prologue", "end", "errorHalt"}
    BY <1>0, <1>6, ArriveAtPc, ErrorHaltPc DEF CheckMagic, Return, Enter
  <2>2. Item.part = "enter" => Item.proc # "trigger_winkle"
    <3>1. \A k \in Pnor .. Last : Program[k].part # "enter"
      BY Order DEF IsEnablePnor, Last
    <3> QED BY <1>0, <3>1, Order DEF Item
  <2>3. vital'.proc # "trigger_winkle"
    BY <1>0, <1>3, <1>6, <2>2 DEF CheckMagic, Return, Enter, At, Entered, Fields
  <2> QED BY <1>1, <1>2, <2>1, <2>3 DEF Elsewhere, BootPCs
<1>7. CASE LockI2c \/ I2cReset \/ UnknownChip \/ EntryHalt \/ EntryTrap \/ Skip
  <2>1. sbe'.pc \in {"i2cReset", "magic", "errorHalt", "entryHalt", "trapCheck", "entryTrap",
                     "skipCheck", "epilogue"}
    BY <1>0, <1>7 DEF LockI2c, I2cReset, UnknownChip, EntryHalt, EntryTrap, Skip, HaltOrNot,
                      GoodHalt, TrapOrNot, Goto, ErrorHalt, Fields
  <2>2. vital'.proc # "trigger_winkle"
    BY <1>0, <1>3, <1>7 DEF LockI2c, I2cReset, UnknownChip, EntryHalt, EntryTrap, Skip, At,
                            HaltOrNot, GoodHalt, HaltedWell, Entered, Fields
  <2> QED BY <1>1, <1>2, <2>1, <2>2 DEF Elsewhere, BootPCs
<1>8. CASE ExitCheck \/ ExitHalt \/ ExitTrap \/ Complete \/ Continue
  <2>1. sbe'.pc \in {"errorHalt", "exitCheck", "exitHalt", "exitTrapCheck", "exitTrap", "return",
                     "done", "trapCheck", "skipCheck"}
    BY <1>0, <1>8 DEF ExitCheck, ExitHalt, ExitTrap, Complete, Continue, ContinueEntry,
                      ContinueTrap, ContinueExit, HaltOrNot, GoodHalt, TrapOrNot, Goto,
                      ErrorHalt, Fields
  <2>2. vital'.proc # "trigger_winkle"
    BY <1>0, <1>3, <1>8 DEF ExitCheck, ExitHalt, ExitTrap, Complete, Continue, ContinueEntry,
                            ContinueTrap, ContinueExit, At, HaltOrNot, GoodHalt, HaltedWell,
                            Continued, Fields
  <2> QED BY <1>1, <1>2, <2>1, <2>2 DEF Elsewhere, BootPCs
<1> QED BY <1>4, <1>5, <1>6, <1>7, <1>8 DEF IstepStep

(* The choice of the master and of the core: the handshake is entered from *)
(* the body of the last item.                                              *)
LEMMA MasterElsewhere == HandInv /\ MasterStep => Elsewhere
<1> SUFFICES ASSUME HandInv, MasterStep PROVE Elsewhere
    OBVIOUS
<1>0. /\ Fields /\ sbe.at \in 1 .. Last
  BY DEF HandInv, OrderInv, ServiceInv, BootInv, IntrOK, Last
<1>1. /\ UNCHANGED ex /\ host'.phase = host.phase
  BY DEF MasterStep, MasterWithoutCore, SlaveStops, SlaveServesScans, TreatedAsMaster,
         MasterBoots, EnablePnor, SelectAll, SelectOne, FindFirst, FirstFound, RotateSecond,
         FindSecond, Selected, HostRuntimeScom, TriggerWinkle, SlaveStop, others
<1>2. sbe.pc \in BootPCs
  BY DEF MasterStep, MasterWithoutCore, SlaveStops, SlaveServesScans, TreatedAsMaster,
         MasterBoots, EnablePnor, SelectAll, SelectOne, FindFirst, FirstFound, RotateSecond,
         FindSecond, Selected, HostRuntimeScom, TriggerWinkle, At, Body, BootPCs
<1>3. CASE TriggerWinkle
  <2>1. sbe'.pc = "winkleEntry" /\ sbe'.at = sbe.at /\ UNCHANGED vital
        /\ sbe.pc = "body" /\ Item.proc = "trigger_winkle"
    BY <1>0, <1>3 DEF TriggerWinkle, Body, At, Goto, Fields
  <2>2. sbe.at = Last
    BY <1>0, <2>1, Order DEF Item
  <2>3. vital.proc = "trigger_winkle" /\ vital.step = 0
    BY <2>1, <2>2 DEF HandInv, VitalOK, OrderInv, ServiceInv, BootInv, StepOK
  <2> QED BY <1>1, <1>2, <2>1, <2>2, <2>3 DEF Elsewhere
<1>4. CASE ~TriggerWinkle
  <2>1. vital.proc # "trigger_winkle"
    <3>1. CASE sbe.pc = "body"
      <4>1. Item.proc # "trigger_winkle"
        BY <1>4, <3>1
           DEF MasterStep, MasterWithoutCore, SlaveStops, SlaveServesScans, TreatedAsMaster,
               MasterBoots, EnablePnor, SelectAll, SelectOne, FindFirst, FirstFound,
               RotateSecond, FindSecond, Selected, HostRuntimeScom, At, Body
      <4> QED BY <1>0, <4>1, Order DEF Item, HandInv, VitalOK
    <3>2. CASE sbe.pc # "body"
      BY <1>2, <3>2 DEF HandInv, VitalOK, BootPCs, WinklePCs
    <3> QED BY <3>1, <3>2
  <2>2. vital'.proc # "trigger_winkle"
    BY <1>0, <1>4, <2>1
       DEF MasterStep, MasterWithoutCore, SlaveStops, SlaveServesScans, TreatedAsMaster,
           MasterBoots, EnablePnor, SelectAll, SelectOne, FindFirst, FirstFound, RotateSecond,
           FindSecond, Selected, HostRuntimeScom, SlaveStop, HaltedWell, Magic, Fields
  <2>3. sbe'.pc \in BootPCs \cup {"scanEntry", "slaveHalt", "errorHalt"} /\ sbe'.pc # "body"
    <3>1. CASE MasterWithoutCore \/ SlaveStops \/ SlaveServesScans \/ TreatedAsMaster
               \/ MasterBoots \/ EnablePnor
      BY <1>0, <3>1
         DEF MasterWithoutCore, SlaveStops, SlaveServesScans, TreatedAsMaster, MasterBoots,
             EnablePnor, SlaveStop, Goto, ErrorHalt, Fields, BootPCs
    <3>2. CASE SelectAll \/ SelectOne \/ FirstFound \/ FindSecond \/ Selected \/ HostRuntimeScom
      BY <1>0, <3>2
         DEF SelectAll, SelectOne, FirstFound, FindSecond, Selected, HostRuntimeScom, Goto,
             Fields, BootPCs
    <3>3. CASE FindFirst \/ RotateSecond
      BY <1>0, <3>3 DEF FindFirst, RotateSecond, Rotate, Goto, Fields, BootPCs
    <3> QED BY <1>4, <3>1, <3>2, <3>3 DEF MasterStep
  <2> QED BY <1>1, <1>2, <2>2, <2>3 DEF Elsewhere, BootPCs, ScanPCs
<1> QED BY <1>3, <1>4

(* The scan service has no part in the handshake.                        *)
LEMMA ScanElsewhere == HandInv /\ ScanStep => Elsewhere
<1> SUFFICES ASSUME HandInv, ScanStep PROVE Elsewhere
    OBVIOUS
<1>0. Fields
  BY DEF HandInv, OrderInv, ServiceInv, BootInv
<1>1. sbe.pc \in ScanPCs
  BY DEF ScanStep, ScanEntry, ScanPrep, ScanReady, ScanPoll, SaveRequest, ScanHalt,
         InvalidOperation, Decode, SetRing, ModRing, RotateToMod, Flip, RotateToEnd, RotateRing,
         HeaderCheck, CheckwordError, Respond, At, ScanPCs
<1>2. vital.proc # "trigger_winkle"
  BY <1>1 DEF HandInv, VitalOK, ScanPCs, WinklePCs
<1> HIDE DEF HandInv
<1>3. UNCHANGED <<ex, host>> /\ vital'.proc # "trigger_winkle"
      /\ sbe'.pc \in ScanPCs \cup {"slaveHalt", "errorHalt"}
  <2> USE <1>0, <1>2 DEF Fields, At, Goto, others, ScanPCs
  <2>1. CASE ScanEntry \/ ScanPrep \/ ScanReady \/ ScanPoll
    <3>1. CASE ScanEntry \/ ScanPrep
      BY <3>1 DEF ScanEntry, ScanPrep, Magic
    <3>2. CASE ScanReady \/ ScanPoll
      BY <3>2 DEF ScanReady, ScanPoll, Step
    <3> QED BY <2>1, <3>1, <3>2
  <2>2. CASE SaveRequest \/ ScanHalt
    BY <2>2 DEF SaveRequest, ScanHalt, HaltedWell
  <2>3. CASE InvalidOperation \/ CheckwordError
    BY <2>3 DEF InvalidOperation, CheckwordError, ErrorHalt
  <2>4. CASE Decode \/ SetRing \/ ModRing
    BY <2>4 DEF Decode, SetRing, ModRing, Step
  <2>5. CASE RotateToMod \/ RotateToEnd
    BY <2>5 DEF RotateToMod, RotateToEnd, RotateRing
  <2>6. CASE Flip \/ HeaderCheck \/ Respond
    BY <2>6 DEF Flip, HeaderCheck, Respond
  <2> QED BY <2>1, <2>2, <2>3, <2>4, <2>5, <2>6 DEF ScanStep
<1> QED BY <1>1, <1>3 DEF Elsewhere, ScanPCs

(* The interrupt service is behind the handshake.                          *)
LEMMA IntrHand == HandInv /\ IntrStep => ExType' /\ VitalOK' /\ HostOK'
<1> SUFFICES ASSUME HandInv, IntrStep PROVE ExType' /\ VitalOK' /\ HostOK'
    OBVIOUS
<1>0. Fields
  BY DEF HandInv, OrderInv, ServiceInv, BootInv
<1>1. sbe.pc \in IntrPCs /\ UNCHANGED ex
  BY DEF IntrStep, IntrEntry, IntrWait, IntrRead, IntrClear, IntrHalt, LoadDecrementer,
         Decrement, At, others, IntrPCs
<1>2. host'.phase = host.phase
  <2>1. CASE Decrement
    BY <1>0, <2>1 DEF Decrement, Fields
  <2>2. CASE ~Decrement
    BY <2>2 DEF IntrStep, IntrEntry, IntrWait, IntrRead, IntrClear, IntrHalt, LoadDecrementer,
                others
  <2> QED BY <2>1, <2>2
<1>3. vital.proc # "trigger_winkle" \/ sbe.pc = "intrEntry"
  BY <1>1 DEF HandInv, VitalOK, IntrPCs, WinklePCs
<1>4. vital'.proc # "trigger_winkle"
  BY <1>0, <1>3 DEF At, IntrStep, IntrEntry, IntrWait, IntrRead, IntrClear, IntrHalt,
                    LoadDecrementer, Decrement, HaltedWell, Magic, Fields
<1>5. sbe'.pc \in IntrPCs \cup {"done"}
  <2>1. CASE Decrement
    <3>1. sbe' = [sbe EXCEPT !.pc = "intrWait", !.ctr = Decremented]
      BY <2>1 DEF Decrement
    <3> QED BY <1>0, <3>1 DEF Fields, IntrPCs
  <2>2. CASE ~Decrement
    BY <1>0, <2>2 DEF IntrStep, IntrEntry, IntrWait, IntrRead, IntrClear, IntrHalt,
                      LoadDecrementer, Goto, Fields, IntrPCs
  <2> QED BY <2>1, <2>2
<1>6. ExType'
  BY <1>1 DEF HandInv, ExType
<1>7. VitalOK'
  BY <1>4, <1>5 DEF VitalOK, WinklePCs, IntrPCs
<1>8. HostOK'
  BY <1>1, <1>2, <1>5
     DEF HandInv, HostOK, BeforePCs, BootPCs, ScanPCs, Deadman, WakePCs, AfterPCs, IntrPCs
<1> QED BY <1>6, <1>7, <1>8

(* What the reads of a single chiplet show.                                *)
LEMMA SingleRead ==
    ASSUME sbe.ex \in Positions
    PROVE  /\ Targets = {sbe.ex}
           /\ WinkleInHistory <=> ex.phase[sbe.ex] # "run"
           /\ FsmRead = {} <=> ex.phase[sbe.ex] \notin {"entering", "goto", "restoring"}
           /\ FsmRead = PORE_GOTO_CMD <=> ex.phase[sbe.ex] = "goto"
<1>0. AllEx \notin Positions
  <2>1. LastPosition \in Nat
    BY SbeAssumption, Zenon DEF SbeAssumption
  <2> QED BY <2>1 DEF AllEx, Positions
<1>1. Targets = {sbe.ex}
  BY <1>0 DEF Targets
<1>2. WinkleInHistory <=> ex.phase[sbe.ex] # "run"
  BY <1>1 DEF WinkleInHistory
<1>3. FsmRead = {b \in 0 .. 6 : b \in FsmBits(ex.phase[sbe.ex])}
  BY <1>1 DEF FsmRead
<1>4. FsmRead = {} <=> ex.phase[sbe.ex] \notin {"entering", "goto", "restoring"}
  <2>1. ex.phase[sbe.ex] \in {"entering", "goto", "restoring"} =>
            0 \in FsmRead \/ 1 \in FsmRead
    BY <1>3 DEF FsmBits
  <2>2. ex.phase[sbe.ex] \notin {"entering", "goto", "restoring"} => FsmRead = {}
    BY <1>3 DEF FsmBits
  <2> QED BY <2>1, <2>2
<1>5. FsmRead = PORE_GOTO_CMD <=> ex.phase[sbe.ex] = "goto"
  <2>1. PORE_GOTO_CMD = {0, 2, 6}
    BY DEF PORE_GOTO_CMD, FsmBits
  <2>2. CASE ex.phase[sbe.ex] = "goto"
    <3>1. FsmBits(ex.phase[sbe.ex]) = {0, 2, 6}
      BY <2>2 DEF FsmBits
    <3> QED BY <1>3, <2>1, <2>2, <3>1
  <2>3. CASE ex.phase[sbe.ex] = "restoring"
    <3>1. 4 \in FsmRead
      BY <1>3, <2>3 DEF FsmBits
    <3> QED BY <2>1, <2>3, <3>1
  <2>4. CASE ex.phase[sbe.ex] \notin {"goto", "restoring"}
    <3>1. 0 \notin FsmRead
      BY <1>3, <2>4 DEF FsmBits
    <3> QED BY <2>1, <2>4, <3>1
  <2> QED BY <2>2, <2>3, <2>4
<1> QED BY <1>1, <1>2, <1>4, <1>5

(* The multicast group is no position.                                   *)
LEMMA SingleNotAll == AllEx \notin Positions /\ LastPosition \in Nat
<1>1. LastPosition \in Nat
  BY SbeAssumption, Zenon DEF SbeAssumption
<1> QED BY <1>1 DEF AllEx, Positions

(* A poll that says that the core is in winkle has looked at a core.       *)
LEMMA SeenInWinkle ==
    ASSUME InWinkle, sbe.ex # AllEx,
           \A c \in Positions : ex.phase[c] \in {"run", "entering", "winkled"}
    PROVE  sbe.ex \in Positions /\ ex.phase[sbe.ex] = "winkled"
<1>1. sbe.ex \in Positions
  <2>1. SUFFICES ASSUME sbe.ex \notin Positions PROVE FALSE
    OBVIOUS
  <2>2. Targets = {}
    BY <2>1 DEF Targets
  <2>3. 0 \in FsmRead
    BY <2>2 DEF FsmRead
  <2> QED BY <2>3 DEF InWinkle
<1> QED BY <1>1, SingleRead DEF InWinkle

(* The handshake keeps in step with SBEVITAL, with Hostboot and with the   *)
(* chiplets.                                                               *)
LEMMA WinkleHand == HandInv /\ WinkleEngine => ExType' /\ VitalOK' /\ HostOK'
<1> SUFFICES ASSUME HandInv, WinkleEngine PROVE ExType' /\ VitalOK' /\ HostOK'
    OBVIOUS
<1>0. Fields /\ ExType /\ VitalOK /\ HostOK /\ StepOK
  BY DEF HandInv, OrderInv, ServiceInv, BootInv
<1>1. sbe.pc \in WinklePCs /\ vital.proc = "trigger_winkle" /\ sbe.at = Last
  BY <1>0 DEF VitalOK, WinkleEngine, WinkleEntry, WinkleReady, PollStart, Started, PollWinkle,
              Wake, Waking, Unblock, Ipi, PollGoto, PollIdle, Awake, IcpOff, PollAlive, Success,
              At, WinklePCs
<1>2. UNCHANGED host /\ sbe'.at = sbe.at /\ sbe'.ex = sbe.ex
  <2>1. UNCHANGED host
    BY DEF WinkleEngine, WinkleEntry, WinkleReady, PollStart, Started, PollWinkle, Wake, Waking,
           Unblock, Ipi, PollGoto, PollIdle, Awake, IcpOff, PollAlive, Success, PollAgain, others
  <2>2. Stays
    BY WinkleStays DEF HandInv
  <2> QED BY <2>1, <2>2 DEF Stays
<1>p. PhaseMax \in Nat
  BY SbeAssumption, Zenon DEF SbeAssumption
<1> HIDE DEF HandInv
(* The steps that change no chiplet.                                       *)
<1>a. ASSUME UNCHANGED ex, sbe'.pc \in WinklePCs,
             vital'.proc = "trigger_winkle",
             vital'.step = SBE_READY => sbe'.pc = "pollStart",
             vital'.step = DEADMAN_START => host.phase # "idle",
             sbe'.pc = "pollStart" => vital'.step = SBE_READY,
             sbe'.pc \in {"icpOff", "pollAlive"} =>
                vital'.step \in {WAITING_FOR_HOSTBOOT, HOSTBOOT_ALIVE},
             sbe'.pc \in BeforePCs => sbe.pc \in BeforePCs,
             sbe'.pc \in Deadman => host.phase # "idle",
             host.phase = "alive" /\ sbe'.pc \in Deadman \cup {"pollStart"} =>
                sbe'.pc \in {"icpOff", "pollAlive"} /\ vital'.step = HOSTBOOT_ALIVE,
             sbe'.pc \notin WokenPCs \cup AfterPCs => sbe.pc \notin WokenPCs \cup AfterPCs,
             sbe'.pc \in WakePCs /\ sbe.ex # AllEx =>
                sbe.ex \in Positions /\ ex.phase[sbe.ex] = "winkled"
      PROVE  ExType' /\ VitalOK' /\ HostOK'
  <2>1. ExType'
    BY <1>0, <1>a DEF ExType
  <2>2. VitalOK'
    BY <1>1, <1>2, <1>a DEF VitalOK, WinklePCs
  <2>3. HostOK'
    BY <1>0, <1>2, <1>a DEF HostOK
  <2> QED BY <2>1, <2>2, <2>3
(* A poll that fails.                                                      *)
<1>b. ASSUME NEW rc, PollAgain(rc), sbe.pc \in Deadman
      PROVE  ExType' /\ VitalOK' /\ HostOK'
  <2>1. UNCHANGED vital /\ sbe'.pc \in {sbe.pc, "errorHalt"}
    BY <1>0, <1>b DEF PollAgain, ErrorHalt, Fields
  <2>2. Tick(FALSE) \/ Tick(TRUE)
    BY <1>b DEF PollAgain
  <2>3. PICK fired \in BOOLEAN : Tick(fired)
    BY <2>2
  <2>4. /\ ex'.phase = ex.phase /\ ex'.ipi = ex.ipi /\ DOMAIN ex' = DOMAIN ex
        /\ ex'.age = IF ex.age < PhaseMax THEN ex.age + 1 ELSE ex.age
    BY <1>0, <2>3 DEF Tick, ExType
  <2>5. ex'.fir \in BOOLEAN /\ ex'.late \in BOOLEAN
    BY <1>0, <2>3, Zenon DEF Tick, ExType
  <2>6. ex'.age \in 0 .. PhaseMax
    BY <1>0, <1>p, <2>4 DEF ExType
  <2>7. ExType'
    BY <1>0, <2>4, <2>5, <2>6 DEF ExType
  <2>8. VitalOK'
    BY <1>0, <1>1, <1>2, <1>b, <2>1 DEF VitalOK, WinklePCs, Deadman, SBE_READY
  <2>9. HostOK'
    BY <1>0, <1>2, <1>b, <2>1, <2>4
       DEF HostOK, BeforePCs, BootPCs, ScanPCs, Deadman, WakePCs, AfterPCs
  <2> QED BY <2>7, <2>8, <2>9
<1> USE DEF At, Goto, Load, Store, others, SBE_READY, DEADMAN_START, WAITING_FOR_WINKLE,
            WAITING_FOR_WAKEUP, WAITING_FOR_HOSTBOOT, HOSTBOOT_ALIVE
<1>3. CASE WinkleEntry \/ WinkleReady
  <2>1. /\ sbe.pc \in {"winkleEntry", "winkleReady"} /\ UNCHANGED ex
        /\ sbe'.pc \in {"winkleReady", "pollStart"}
        /\ vital'.proc = "trigger_winkle" /\ vital'.step \in {0, 1}
        /\ vital'.step = IF sbe'.pc = "winkleReady" THEN 0 ELSE 1
    <3>1. CASE WinkleEntry
      BY <1>0, <1>1, <3>1 DEF WinkleEntry, StepOK, StorePCs, Fields
    <3>2. CASE WinkleReady
      BY <1>0, <1>1, <3>2 DEF WinkleReady, StepOK, StorePCs, Fields
    <3> QED BY <1>3, <3>1, <3>2
  <2>2. host.phase = "idle"
    BY <1>0, <2>1 DEF HostOK, BeforePCs
  <2> QED BY <1>a, <2>1, <2>2
          DEF WinklePCs, BeforePCs, Deadman, WokenPCs, AfterPCs, WakePCs, IntrPCs
<1>4. CASE PollStart \/ Started
  <2>1. /\ sbe.pc \in {"pollStart", "started"} /\ UNCHANGED ex
        /\ sbe'.pc \in {"started", "pollWinkle"}
        /\ vital'.proc = "trigger_winkle" /\ vital'.step \in {2, 3} /\ vital.step = 2
    <3>1. CASE PollStart
      BY <1>0, <1>1, <3>1 DEF PollStart, StepOK, StorePCs, Fields, WinkleStep
    <3>2. CASE Started
      BY <1>0, <1>1, <3>2 DEF Started, StepOK, StorePCs, Fields, WinkleStep
    <3> QED BY <1>4, <3>1, <3>2
  <2>2. host.phase # "idle" /\ host.phase # "alive"
    BY <1>0, <1>1, <2>1 DEF VitalOK, HostOK, Deadman
  <2> QED BY <1>a, <2>1, <2>2
          DEF WinklePCs, BeforePCs, BootPCs, ScanPCs, Deadman, WokenPCs, AfterPCs, WakePCs, IntrPCs
<1>5. CASE PollWinkle
  <2>1. sbe.pc = "pollWinkle" /\ vital.step = 3
    BY <1>0, <1>5 DEF PollWinkle, StepOK
  <2>2. CASE InWinkle
    <3>1. UNCHANGED <<ex, vital>> /\ sbe'.pc = "wake"
      BY <1>0, <1>5, <2>2 DEF PollWinkle, Fields
    <3>2. sbe.ex # AllEx => sbe.ex \in Positions /\ ex.phase[sbe.ex] = "winkled"
      BY <1>0, <2>1, <2>2, SeenInWinkle DEF HostOK, WokenPCs, AfterPCs, IntrPCs
    <3>3. host.phase # "idle" /\ host.phase # "alive"
      BY <1>0, <2>1 DEF HostOK, Deadman
    <3> QED BY <1>1, <1>a, <2>1, <3>1, <3>2, <3>3
            DEF WinklePCs, BeforePCs, BootPCs, ScanPCs, Deadman, WokenPCs, AfterPCs, IntrPCs
  <2>3. CASE ~InWinkle
    BY <1>5, <1>b, <2>1, <2>3 DEF PollWinkle, Deadman
  <2> QED BY <2>2, <2>3
<1>6. CASE Wake \/ Waking
  <2>1. /\ sbe.pc \in {"wake", "waking"} /\ UNCHANGED ex
        /\ sbe'.pc \in {"success", "waking", "unblock"}
        /\ vital'.proc = "trigger_winkle" /\ vital'.step \in {3, 4}
    <3>1. CASE Wake
      BY <1>0, <1>1, <3>1 DEF Wake, StepOK, StorePCs, Fields
    <3>2. CASE Waking
      BY <1>0, <1>1, <3>2 DEF Waking, StepOK, StorePCs, Fields
    <3> QED BY <1>6, <3>1, <3>2
  <2>2. host.phase # "idle" /\ host.phase # "alive"
    BY <1>0, <2>1 DEF HostOK, Deadman
  <2>3. sbe.ex # AllEx => sbe.ex \in Positions /\ ex.phase[sbe.ex] = "winkled"
    BY <1>0, <2>1 DEF HostOK, WakePCs
  <2> QED BY <1>a, <2>1, <2>2, <2>3
          DEF WinklePCs, BeforePCs, BootPCs, ScanPCs, Deadman, WokenPCs, AfterPCs, IntrPCs
<1>7. CASE Unblock \/ Ipi
  <2>1. /\ sbe.pc \in {"unblock", "ipi"} /\ UNCHANGED vital /\ vital.step = 4
        /\ sbe'.pc \in {"ipi", "pollGoto"}
        /\ sbe'.pc = "ipi" => sbe.pc = "unblock"
    BY <1>0, <1>7 DEF Unblock, Ipi, StepOK, Fields
  <2>2. /\ DOMAIN ex' = DOMAIN ex /\ ex'.phase = ex.phase /\ ex'.age \in {0, ex.age}
        /\ ex'.fir = ex.fir /\ ex'.late = ex.late
        /\ sbe'.pc = "ipi" => ex'.ipi = ex.ipi
    <3>1. CASE Unblock
      BY <1>0, <3>1 DEF Unblock, ExType, Fields
    <3>2. CASE Ipi
      BY <1>0, <3>2 DEF Ipi, ExType, Fields
    <3> QED BY <1>7, <3>1, <3>2
  <2>3. ExType'
    BY <1>0, <1>p, <2>2 DEF ExType
  <2>4. VitalOK'
    BY <1>1, <1>2, <2>1 DEF VitalOK, WinklePCs
  <2>5. HostOK'
    BY <1>0, <1>2, <2>1, <2>2
       DEF HostOK, BeforePCs, BootPCs, ScanPCs, Deadman, WakePCs, WokenPCs, AfterPCs, IntrPCs
  <2> QED BY <2>3, <2>4, <2>5
<1>8. CASE PollGoto \/ PollIdle
  <2>1. sbe.pc \in {"pollGoto", "pollIdle"} /\ vital.step = 4
    BY <1>0, <1>8 DEF PollGoto, PollIdle, StepOK
  <2>2. \/ UNCHANGED <<ex, vital>> /\ sbe'.pc \in {"pollIdle", "awake"}
        \/ PollAgain("noGoto") \/ PollAgain("noWakeup")
    BY <1>0, <1>8 DEF PollGoto, PollIdle, Fields
  <2>3. host.phase # "idle" /\ host.phase # "alive"
    BY <1>0, <2>1 DEF HostOK, Deadman
  <2>4. CASE UNCHANGED <<ex, vital>> /\ sbe'.pc \in {"pollIdle", "awake"}
    BY <1>1, <1>a, <2>1, <2>3, <2>4
       DEF WinklePCs, BeforePCs, BootPCs, ScanPCs, Deadman, WokenPCs, WakePCs
  <2> QED BY <1>b, <2>1, <2>2, <2>4 DEF Deadman
<1>9. CASE Awake
  <2>1. /\ sbe.pc = "awake" /\ UNCHANGED ex /\ sbe'.pc = "icpOff"
        /\ vital'.proc = "trigger_winkle" /\ vital'.step = 5
    BY <1>0, <1>1, <1>9 DEF Awake, StepOK, StorePCs, Fields
  <2>2. host.phase # "idle" /\ host.phase # "alive"
    BY <1>0, <2>1 DEF HostOK, Deadman
  <2> QED BY <1>a, <2>1, <2>2
          DEF WinklePCs, BeforePCs, BootPCs, ScanPCs, Deadman, WokenPCs, WakePCs
<1>10. CASE IcpOff
  <2>1. /\ sbe.pc = "icpOff" /\ sbe'.pc = "pollAlive" /\ UNCHANGED vital
        /\ DOMAIN ex' = DOMAIN ex /\ ex'.phase = ex.phase /\ ex'.age = ex.age
        /\ ex'.ipi = ex.ipi /\ ex'.fir = ex.fir /\ ex'.late = ex.late
    BY <1>0, <1>10 DEF IcpOff, ExType, Fields
  <2>2. ExType'
    BY <1>0, <2>1 DEF ExType
  <2>3. VitalOK'
    BY <1>0, <1>1, <1>2, <2>1 DEF VitalOK, WinklePCs
  <2>4. HostOK'
    BY <1>0, <1>2, <2>1 DEF HostOK, BeforePCs, BootPCs, ScanPCs, Deadman, WakePCs, WokenPCs
  <2> QED BY <2>2, <2>3, <2>4
<1>11. CASE PollAlive
  <2>1. sbe.pc = "pollAlive" /\ vital.step \in {5, 6}
    BY <1>0, <1>11 DEF PollAlive, VitalOK
  <2>2. CASE WinkleStep(HOSTBOOT_ALIVE)
    <3>1. UNCHANGED <<ex, vital>> /\ sbe'.pc = "success"
      BY <1>0, <1>11, <2>2 DEF PollAlive, Fields
    <3> QED BY <1>1, <1>a, <2>1, <3>1
            DEF WinklePCs, BeforePCs, BootPCs, ScanPCs, Deadman, WokenPCs, AfterPCs, WakePCs
  <2>3. CASE ~WinkleStep(HOSTBOOT_ALIVE)
    BY <1>11, <1>b, <2>1, <2>3 DEF PollAlive, Deadman
  <2> QED BY <2>2, <2>3
<1>12. CASE Success
  <2>1. /\ sbe.pc = "success" /\ UNCHANGED ex /\ sbe'.pc \in {"done", "intrEntry"}
        /\ vital'.proc = vital.proc /\ vital'.step = vital.step
    BY <1>0, <1>12 DEF Success, HaltedWell, Fields
  <2>3. ExType'
    BY <1>0, <2>1 DEF ExType
  <2>4. VitalOK'
    BY <1>0, <1>1, <1>2, <2>1 DEF VitalOK, WinklePCs
  <2>5. HostOK'
    BY <1>0, <1>2, <2>1
       DEF HostOK, BeforePCs, BootPCs, ScanPCs, Deadman, WakePCs, AfterPCs, IntrPCs
  <2> QED BY <2>3, <2>4, <2>5
<1> QED BY <1>3, <1>4, <1>5, <1>6, <1>7, <1>8, <1>9, <1>10, <1>11, <1>12 DEF WinkleEngine

(* Hostboot and the chiplets keep in step with the engine, wherever it is. *)
LEMMA HostHand == HandInv /\ WinkleHost => ExType' /\ VitalOK' /\ HostOK'
<1> SUFFICES ASSUME HandInv, WinkleHost PROVE ExType' /\ VitalOK' /\ HostOK'
    OBVIOUS
<1>0. Fields /\ ExType /\ VitalOK /\ HostOK /\ StepOK
  BY DEF HandInv, OrderInv, ServiceInv, BootInv
<1>1. UNCHANGED sbe
  BY DEF WinkleHost, HostStarts, HostWinkles, ChipletMoves, HostAlive
<1>p. PhaseMax \in Nat
  BY SbeAssumption, Zenon DEF SbeAssumption
<1> HIDE DEF HandInv
<1>2. CASE HostStarts
  <2>1. /\ sbe.pc = "pollStart" /\ host.phase = "idle"
        /\ vital.proc = "trigger_winkle" /\ UNCHANGED ex
        /\ vital'.proc = vital.proc /\ vital'.step = 2
        /\ host'.phase = "started"
    BY <1>0, <1>2
       DEF HostStarts, WinkleStep, VitalOK, Fields, SBE_READY, DEADMAN_START
  <2>2. ExType'
    BY <1>0, <2>1 DEF ExType
  <2>3. VitalOK'
    BY <1>0, <1>1, <2>1 DEF VitalOK, SBE_READY, DEADMAN_START
  <2>4. HostOK'
    BY <1>0, <1>1, <2>1 DEF HostOK, BeforePCs, BootPCs, ScanPCs, WakePCs, Deadman
  <2> QED BY <2>2, <2>3, <2>4
<1>3. CASE HostWinkles
  <2>1. /\ host.phase = "started" /\ host'.phase = "asleep" /\ UNCHANGED vital
        /\ DOMAIN ex' = DOMAIN ex /\ ex'.ipi = ex.ipi /\ ex'.age = 0
        /\ ex'.fir = ex.fir /\ ex'.late = ex.late
        /\ ex'.phase = [c \in Positions |-> IF c \in Targets THEN "entering" ELSE ex.phase[c]]
    BY <1>0, <1>3 DEF HostWinkles, ExType, Fields
  <2>2. ExType'
    BY <1>0, <1>p, <2>1 DEF ExType, Phases
  <2>3. VitalOK'
    BY <1>0, <1>1, <2>1 DEF VitalOK
  <2>4. ~(sbe.pc \in WakePCs /\ sbe.ex # AllEx)
    BY <1>0, <2>1 DEF HostOK
  <2>5. HostOK'
    BY <1>0, <1>1, <2>1, <2>4 DEF HostOK
  <2> QED BY <2>2, <2>3, <2>5
<1>4. CASE ChipletMoves
  <2>1. PICK c \in Positions :
          /\ \/ ex.phase[c] \in {"entering", "restoring"}
             \/ ex.phase[c] = "goto" /\ ex.age > 0
             \/ Wakeable(c)
          /\ ex' = [ex EXCEPT !.phase[c] = NextPhase[@], !.age = 0]
          /\ UNCHANGED <<vital, host>>
    BY <1>4 DEF ChipletMoves
  <2>2. /\ DOMAIN ex' = DOMAIN ex /\ ex'.ipi = ex.ipi /\ ex'.age = 0
        /\ ex'.fir = ex.fir /\ ex'.late = ex.late
        /\ ex'.phase = [ex.phase EXCEPT ![c] = NextPhase[ex.phase[c]]]
    BY <1>0, <2>1 DEF ExType
  <2>3. ex.phase[c] \in {"entering", "winkled", "goto", "restoring"}
    BY <2>1 DEF Wakeable
  <2>4. NextPhase[ex.phase[c]] \in Phases \ {"run", "entering"}
    BY <2>3 DEF NextPhase, Phases
  <2>5. ExType'
    BY <1>0, <1>p, <2>2, <2>4 DEF ExType
  <2>6. VitalOK'
    BY <1>0, <1>1, <2>1 DEF VitalOK
  <2>7. host.phase \notin {"idle", "started"}
    BY <1>0, <2>3 DEF HostOK
  <2>8. sbe.pc \notin WokenPCs \cup AfterPCs =>
            ex.phase[c] = "entering" /\ NextPhase[ex.phase[c]] = "winkled"
    BY <1>0, <2>1, <2>3 DEF HostOK, Wakeable, NextPhase
  <2>9. sbe.pc \in WakePCs => sbe.pc \notin WokenPCs \cup AfterPCs
    BY DEF WakePCs, WokenPCs, AfterPCs, IntrPCs
  <2>10. HostOK'
    BY <1>0, <1>1, <2>1, <2>2, <2>7, <2>8, <2>9 DEF HostOK, ExType
  <2> QED BY <2>5, <2>6, <2>10
<1>5. CASE HostAlive
  <2>1. /\ host.phase = "asleep" /\ vital.step = 5 /\ vital.proc = "trigger_winkle"
        /\ vital'.proc = vital.proc /\ vital'.step = 6 /\ host'.phase = "alive"
        /\ DOMAIN ex' = DOMAIN ex /\ ex'.ipi = ex.ipi /\ ex'.age = 0
        /\ ex'.fir = ex.fir /\ ex'.late = ex.late /\ ex'.phase = ex.phase
    BY <1>0, <1>5
       DEF HostAlive, HostAwake, WinkleStep, ExType, Fields, WAITING_FOR_HOSTBOOT, HOSTBOOT_ALIVE
  <2>2. sbe.pc \notin {"winkleEntry", "winkleReady", "started", "pollWinkle", "wake", "waking",
                       "unblock", "ipi", "pollGoto", "pollIdle", "awake"}
    BY <1>0, <2>1
       DEF StepOK, DEADMAN_START, WAITING_FOR_WINKLE, WAITING_FOR_WAKEUP
  <2>3. sbe.pc # "pollStart"
    <3>1. SUFFICES ASSUME sbe.pc = "pollStart" PROVE FALSE
      OBVIOUS
    <3> QED BY <1>0, <2>1, <3>1 DEF VitalOK, SBE_READY, DEADMAN_START
  <2>4. ExType'
    BY <1>0, <1>p, <2>1 DEF ExType
  <2>5. VitalOK'
    BY <1>0, <1>1, <2>1 DEF VitalOK, SBE_READY, DEADMAN_START, WAITING_FOR_HOSTBOOT, HOSTBOOT_ALIVE
  <2>6. HostOK'
    BY <1>0, <1>1, <2>1, <2>2, <2>3
       DEF HostOK, BeforePCs, Deadman, WakePCs, HOSTBOOT_ALIVE
  <2> QED BY <2>4, <2>5, <2>6
<1> QED BY <1>2, <1>3, <1>4, <1>5 DEF WinkleHost

(* The other actors have no part in the handshake; the step that a         *)
(* procedure without a model records is not one of it.                     *)
LEMMA OthersHand ==
    HandInv /\ (UpdateStep \/ RaiseAttention \/ PostInterrupt \/ PostScan \/ CollectScan
                \/ UNCHANGED vars) => ExType' /\ VitalOK' /\ HostOK'
<1> SUFFICES ASSUME HandInv,
                    UpdateStep \/ RaiseAttention \/ PostInterrupt \/ PostScan \/ CollectScan
                    \/ UNCHANGED vars
             PROVE  ExType' /\ VitalOK' /\ HostOK'
    OBVIOUS
<1>0. Fields /\ sbe.at \in 1 .. Last
  BY DEF HandInv, OrderInv, ServiceInv, BootInv, IntrOK, Last
<1>1. CASE UpdateStep
  <2>1. /\ sbe.pc = "body" /\ Item.proc # "trigger_winkle"
        /\ UNCHANGED <<sbe, ex, host>> /\ vital'.proc = vital.proc
    BY <1>0, <1>1 DEF UpdateStep, PlainBody, At, Modelled, others, Fields
  <2>2. sbe.at # Last
    BY <1>0, <2>1, Order DEF Item
  <2>3. VitalOK'
    BY <2>1, <2>2 DEF HandInv, VitalOK, WinklePCs
  <2>4. ExType' /\ HostOK'
    BY <2>1 DEF HandInv, ExType, HostOK, Deadman
  <2> QED BY <2>3, <2>4
<1>2. CASE PostInterrupt
  <2>1. Aside
    BY <1>0, <1>2, Zenon DEF PostInterrupt, Aside, Fields
  <2> QED BY <2>1, AsideHand
<1>3. CASE PostScan
  <2>1. Aside
    BY <1>0, <1>3, Zenon DEF PostScan, Aside, Fields
  <2> QED BY <2>1, AsideHand
<1>4. CASE RaiseAttention \/ CollectScan \/ UNCHANGED vars
  <2>1. Aside
    BY <1>0, <1>4 DEF RaiseAttention, CollectScan, vars, others, Aside, Fields
  <2> QED BY <2>1, AsideHand
<1> QED BY <1>1, <1>2, <1>3, <1>4

(* In every behaviour the handshake is in step.                            *)
THEOREM HandInvariant == Spec => []HandInv
<1>1. Init => ExType /\ VitalOK /\ HostOK
  <2> SUFFICES ASSUME Init PROVE ExType /\ VitalOK /\ HostOK
      OBVIOUS
  <2>1. PhaseMax \in Nat
    BY SbeAssumption, Zenon DEF SbeAssumption
  <2>2. ExType
    BY <2>1 DEF Init, ExType, Phases
  <2>3. VitalOK
    BY DEF Init, VitalOK, WinklePCs
  <2>4. HostOK
    BY DEF Init, HostOK, Deadman, WakePCs
  <2> QED BY <2>2, <2>3, <2>4
<1>2. HandInv /\ [Next]_vars => ExType' /\ VitalOK' /\ HostOK'
  BY IstepElsewhere, MasterElsewhere, ScanElsewhere, ElsewhereHand, IntrHand, WinkleHand,
     HostHand, OthersHand
     DEF Next, EngineStep, Polls
<1>3. (ExType /\ VitalOK /\ HostOK) /\ OrderInv /\ OrderInv' /\ [Next]_vars
         => (ExType /\ VitalOK /\ HostOK)'
  BY <1>2 DEF HandInv
<1> QED BY <1>1, <1>3, OrderInvariant, PTL DEF Spec, HandInv

(* The boot core is woken when it is in winkle, not before it went there,  *)
(* also when the sequence selected no core at all.                         *)
THEOREM WokenFromWinkle == Spec => []WokenInWinkle
<1>1. HandInv => WokenInWinkle
  BY DEF HandInv, HostOK, WokenInWinkle, WakePCs
<1> QED BY HandInvariant, <1>1, PTL

(***************************************************************************)
(* The deadman timer: what is left of its count is enough for the phases   *)
(* that are left, as long as none has taken too long.                      *)
(***************************************************************************)
Single == sbe.ex \in Positions
CountPCs == Deadman \ {"started"}
LeftIn == [run |-> 6, entering |-> 5, winkled |-> 4, goto |-> 3, restoring |-> 2, awake |-> 1]
PhasesLeft == IF host.phase = "alive" THEN 0
              ELSE IF host.phase = "started" THEN 6 ELSE LeftIn[ex.phase[sbe.ex]]

(* Where the chiplet is at each poll, so that a poll that fails waits for  *)
(* something that is due.                                                  *)
ChipletOK ==
    Single /\ sbe.pc \in Deadman \cup {"pollStart"} =>
        /\ \A c \in Positions \ {sbe.ex} : ex.phase[c] = "run"
        /\ host.phase = "asleep" => ex.phase[sbe.ex] # "run"
        /\ sbe.pc \notin WokenPCs /\ ex.phase[sbe.ex] = "winkled" => ex.age = 0
        /\ sbe.pc \in WokenPCs \cup {"ipi"} =>
              host.phase \in {"asleep", "alive"} /\ ex.blocked = FALSE
        /\ sbe.pc \in WokenPCs => ex.ipi = {sbe.ex}
        /\ sbe.pc = "pollGoto" =>
              \/ ex.phase[sbe.ex] = "winkled"
              \/ ex.phase[sbe.ex] = "goto" /\ ex.age = 0
        /\ sbe.pc = "pollIdle" => ex.phase[sbe.ex] \in {"goto", "restoring", "awake"}
        /\ sbe.pc \in {"awake", "icpOff", "pollAlive"} => ex.phase[sbe.ex] = "awake"

DeadlineOK ==
    /\ ex.fir => sbe.pc = "errorHalt" /\ (Single => ex.late)
    /\ Single /\ sbe.pc \in CountPCs =>
          sbe.ctr \in Int /\ (~ex.late => sbe.ctr >= PhasesLeft * PhaseMax - ex.age)

DeadmanInv == HandInv /\ ChipletOK /\ DeadlineOK

(* The count is long enough for the six phases that there are.             *)
CountFits == DeadmanCount >= 6 * PhaseMax

(* The multiples of the longest phase.                                     *)
LEMMA Multiples ==
    /\ PhaseMax \in Nat /\ PhaseMax > 0 /\ DeadmanCount \in Nat
    /\ \A n \in 0 .. 6 : n * PhaseMax \in Nat /\ n * PhaseMax <= 6 * PhaseMax
    /\ \A n \in 1 .. 6 : n * PhaseMax = (n - 1) * PhaseMax + PhaseMax
<1>1. PhaseMax \in Nat /\ PhaseMax > 0 /\ DeadmanCount \in Nat
  <2>1. PhaseMax \in Nat \ {0} /\ DeadmanCount \in Nat
    BY SbeAssumption, Zenon DEF SbeAssumption
  <2> QED BY <2>1
<1>2. \A n \in 0 .. 6 : n = 0 \/ n = 1 \/ n = 2 \/ n = 3 \/ n = 4 \/ n = 5 \/ n = 6
  OBVIOUS
<1>3. \A n \in 0 .. 6 : n * PhaseMax \in Nat /\ n * PhaseMax <= 6 * PhaseMax
  BY <1>1, <1>2
<1>4. \A n \in 1 .. 6 : n * PhaseMax = (n - 1) * PhaseMax + PhaseMax
  BY <1>1, <1>2
<1> QED BY <1>1, <1>3, <1>4

(* At most six phases are left.                                          *)
LEMMA LeftType == HandInv /\ Single => PhasesLeft \in 0 .. 6
<1> SUFFICES ASSUME HandInv, Single PROVE PhasesLeft \in 0 .. 6
    OBVIOUS
<1>1. ex.phase[sbe.ex] \in Phases
  BY DEF HandInv, ExType, Single
<1>2. LeftIn[ex.phase[sbe.ex]] \in 1 .. 6
  BY <1>1 DEF LeftIn, Phases
<1> QED BY <1>2 DEF PhasesLeft

(* A step that has no part in the handshake.                               *)
LEMMA QuietDeadline ==
    DeadmanInv /\ (Elsewhere \/ (UNCHANGED <<sbe, ex>> /\ host'.phase = host.phase))
        => ChipletOK' /\ DeadlineOK'
<1> SUFFICES ASSUME DeadmanInv, Elsewhere \/ (UNCHANGED <<sbe, ex>> /\ host'.phase = host.phase)
             PROVE  ChipletOK' /\ DeadlineOK'
    OBVIOUS
<1>1. CASE Elsewhere
  <2>1. ~ex.fir /\ UNCHANGED ex /\ sbe'.pc \notin Deadman \cup {"pollStart"}
    BY <1>1 DEF DeadmanInv, DeadlineOK, Elsewhere, BootPCs, ScanPCs, Deadman
  <2> QED BY <2>1 DEF ChipletOK, DeadlineOK, CountPCs
<1>2. CASE UNCHANGED <<sbe, ex>> /\ host'.phase = host.phase
  BY <1>2 DEF DeadmanInv, ChipletOK, DeadlineOK, PhasesLeft, Single
<1> QED BY <1>1, <1>2

(* The interrupt service is not timed.                                     *)
LEMMA IntrDeadline == DeadmanInv /\ IntrStep => ChipletOK' /\ DeadlineOK'
<1> SUFFICES ASSUME DeadmanInv, IntrStep PROVE ChipletOK' /\ DeadlineOK'
    OBVIOUS
<1>0. Fields
  BY DEF DeadmanInv, HandInv, OrderInv, ServiceInv, BootInv
<1>1. sbe.pc \in IntrPCs /\ UNCHANGED ex
  BY DEF IntrStep, IntrEntry, IntrWait, IntrRead, IntrClear, IntrHalt, LoadDecrementer,
         Decrement, At, others, IntrPCs
<1>2. sbe'.pc \in IntrPCs \cup {"done"}
  <2>1. CASE Decrement
    <3>1. sbe' = [sbe EXCEPT !.pc = "intrWait", !.ctr = Decremented]
      BY <2>1 DEF Decrement
    <3> QED BY <1>0, <3>1 DEF Fields, IntrPCs
  <2>2. CASE ~Decrement
    BY <1>0, <2>2 DEF IntrStep, IntrEntry, IntrWait, IntrRead, IntrClear, IntrHalt,
                      LoadDecrementer, Goto, Fields, IntrPCs
  <2> QED BY <2>1, <2>2
<1>3. ~ex.fir
  BY <1>1 DEF DeadmanInv, DeadlineOK, IntrPCs
<1> QED BY <1>1, <1>2, <1>3 DEF ChipletOK, DeadlineOK, CountPCs, Deadman, IntrPCs

(* Hostboot and the chiplets only shorten what is left.                    *)
LEMMA HostDeadline == DeadmanInv /\ WinkleHost => ChipletOK' /\ DeadlineOK'
<1> SUFFICES ASSUME DeadmanInv, WinkleHost PROVE ChipletOK' /\ DeadlineOK'
    OBVIOUS
<1>0. Fields /\ ExType /\ VitalOK /\ HostOK /\ ChipletOK /\ DeadlineOK
  BY DEF DeadmanInv, HandInv, OrderInv, ServiceInv, BootInv
<1>1. UNCHANGED sbe
  BY DEF WinkleHost, HostStarts, HostWinkles, ChipletMoves, HostAlive
<1>2. Single => PhasesLeft \in 0 .. 6
  BY LeftType DEF DeadmanInv
<1> HIDE DEF DeadmanInv
(* A step to a phase with less left than the time that has passed.         *)
<1>a. ASSUME ex'.age = 0, ex'.fir = ex.fir, ex'.late = ex.late,
             Single /\ sbe.pc \in CountPCs =>
                PhasesLeft \in 1 .. 6 /\ PhasesLeft' \in 0 .. PhasesLeft - 1
      PROVE  DeadlineOK'
  <2>1. SUFFICES ASSUME Single, sbe.pc \in CountPCs, ~ex.late
                 PROVE  sbe.ctr >= PhasesLeft' * PhaseMax
    BY <1>0, <1>1, <1>a, Multiples DEF DeadlineOK, Single
  <2> DEFINE m == PhasesLeft
             n == PhasesLeft'
  <2>2. /\ sbe.ctr \in Int /\ sbe.ctr >= m * PhaseMax - ex.age
        /\ m \in 1 .. 6 /\ n \in 0 .. 6 /\ n <= m - 1 /\ ex.age \in 0 .. PhaseMax
    BY <1>0, <1>a, <2>1 DEF DeadlineOK, ExType
  <2> HIDE DEF m, n
  <2>3. m * PhaseMax = (m - 1) * PhaseMax + PhaseMax
    BY <2>2, Multiples
  <2>4. n * PhaseMax <= (m - 1) * PhaseMax
    <3>1. \A i, j \in 0 .. 6 : i <= j => i * PhaseMax <= j * PhaseMax
      <4>1. \A i \in 0 .. 6 : i = 0 \/ i = 1 \/ i = 2 \/ i = 3 \/ i = 4 \/ i = 5 \/ i = 6
        OBVIOUS
      <4> QED BY <4>1, Multiples
    <3> QED BY <2>2, <3>1
  <2>5. m * PhaseMax \in Nat /\ n * PhaseMax \in Nat /\ (m - 1) * PhaseMax \in Nat
    BY <2>2, Multiples
  <2>6. sbe.ctr >= n * PhaseMax
    BY <2>2, <2>3, <2>4, <2>5, Multiples
  <2> QED BY <2>6 DEF n
<1>3. CASE HostStarts
  <2>1. /\ sbe.pc = "pollStart" /\ UNCHANGED ex /\ host'.phase = "started"
        /\ \A c \in Positions : ex.phase[c] = "run"
    BY <1>0, <1>3
       DEF HostStarts, WinkleStep, VitalOK, HostOK, Fields, SBE_READY
  <2>2. ChipletOK'
    BY <1>0, <1>1, <2>1 DEF ChipletOK, Single, WokenPCs
  <2>3. DeadlineOK'
    BY <1>0, <1>1, <2>1 DEF DeadlineOK, CountPCs, Deadman, Single
  <2> QED BY <2>2, <2>3
<1>4. CASE HostWinkles
  <2>1. /\ host.phase = "started" /\ host'.phase = "asleep"
        /\ ex'.ipi = ex.ipi /\ ex'.age = 0 /\ ex'.fir = ex.fir /\ ex'.late = ex.late
        /\ ex'.phase = [c \in Positions |-> IF c \in Targets THEN "entering" ELSE ex.phase[c]]
        /\ \A c \in Positions : ex.phase[c] = "run"
    BY <1>0, <1>4 DEF HostWinkles, HostOK, ExType, Fields
  <2>2. Single => /\ ex'.phase[sbe.ex] = "entering"
                  /\ \A c \in Positions \ {sbe.ex} : ex'.phase[c] = "run"
    BY <2>1, SingleRead DEF Single
  <2>3. Single => sbe.pc \notin WokenPCs \cup {"ipi"}
    BY <1>0, <2>1 DEF ChipletOK, WokenPCs, Deadman
  <2>4. ChipletOK'
    BY <1>1, <2>1, <2>2, <2>3 DEF ChipletOK, Single, WokenPCs
  <2>5. Single => PhasesLeft = 6 /\ PhasesLeft' = 5
    BY <1>1, <2>1, <2>2 DEF PhasesLeft, LeftIn
  <2> QED BY <1>a, <2>1, <2>4, <2>5
<1>5. CASE ChipletMoves
  <2>1. PICK c \in Positions :
          /\ \/ ex.phase[c] \in {"entering", "restoring"}
             \/ ex.phase[c] = "goto" /\ ex.age > 0
             \/ Wakeable(c)
          /\ ex' = [ex EXCEPT !.phase[c] = NextPhase[@], !.age = 0]
          /\ UNCHANGED host
    BY <1>5 DEF ChipletMoves
  <2>2. /\ ex'.ipi = ex.ipi /\ ex'.age = 0 /\ ex'.blocked = ex.blocked
        /\ ex'.fir = ex.fir /\ ex'.late = ex.late
        /\ ex'.phase = [ex.phase EXCEPT ![c] = NextPhase[ex.phase[c]]]
    BY <1>0, <2>1 DEF ExType
  <2>3. ex.phase[c] \in {"entering", "winkled", "goto", "restoring"}
    BY <2>1 DEF Wakeable
  <2>4. host.phase \in {"asleep", "alive"}
    BY <1>0, <2>3 DEF HostOK
  <2>5. CASE ~(Single /\ sbe.pc \in Deadman \cup {"pollStart"})
    <3>1. ChipletOK'
      BY <1>1, <2>5 DEF ChipletOK, Single
    <3> QED BY <1>a, <2>2, <2>5, <3>1 DEF CountPCs
  <2>6. CASE Single /\ sbe.pc \in Deadman \cup {"pollStart"}
    <3>1. c = sbe.ex
      BY <1>0, <2>3, <2>6 DEF ChipletOK
    <3>2. /\ ex'.phase[c] = NextPhase[ex.phase[c]]
          /\ \A d \in Positions \ {c} : ex'.phase[d] = ex.phase[d]
      BY <1>0, <2>2 DEF ExType
    <3>3. \/ ex.phase[c] = "entering" /\ ex'.phase[c] = "winkled"
          \/ ex.phase[c] = "winkled" /\ ex'.phase[c] = "goto" /\ Wakeable(c)
          \/ ex.phase[c] = "goto" /\ ex'.phase[c] = "restoring" /\ ex.age > 0
          \/ ex.phase[c] = "restoring" /\ ex'.phase[c] = "awake"
      BY <2>1, <2>3, <3>2 DEF NextPhase, Wakeable
    <3>4. Wakeable(c) => sbe.pc \in WokenPCs
      BY <1>0, <2>6 DEF Wakeable, HostOK, AfterPCs, IntrPCs, Deadman
    <3>5. sbe.pc \notin {"awake", "icpOff", "pollAlive"}
      BY <1>0, <2>6, <3>1, <3>3 DEF ChipletOK
    <3>6. sbe.pc \in WokenPCs => sbe.pc \in {"pollGoto", "pollIdle"}
      BY <3>5 DEF WokenPCs
    <3>7. sbe.pc = "ipi" => ex.phase[c] = "winkled"
      BY <1>0, <2>6, <3>1, Order, SingleNotAll DEF HostOK, WakePCs, Single
    <3>8. sbe.pc = "pollGoto" => ex.phase[c] = "winkled" /\ ex'.phase[c] = "goto"
      BY <1>0, <2>6, <3>1, <3>3 DEF ChipletOK, ExType
    <3>9. sbe.pc = "pollIdle" => ex'.phase[c] \in {"restoring", "awake"}
      BY <1>0, <2>6, <3>1, <3>3 DEF ChipletOK
    <3>10. ChipletOK'
      BY <1>0, <1>1, <2>1, <2>2, <2>4, <2>6, <3>1, <3>2, <3>3, <3>5, <3>6, <3>8, <3>9
         DEF ChipletOK, Single
    <3>11. sbe.pc \in CountPCs => PhasesLeft \in 1 .. 6 /\ PhasesLeft' \in 0 .. PhasesLeft - 1
      <4>1. SUFFICES ASSUME sbe.pc \in CountPCs
                     PROVE  PhasesLeft \in 1 .. 6 /\ PhasesLeft' \in 0 .. PhasesLeft - 1
        OBVIOUS
      <4>2. host.phase = "asleep"
        <5>1. host.phase = "alive" => sbe.pc \in {"icpOff", "pollAlive"}
          BY <1>0, <4>1 DEF HostOK, CountPCs
        <5> QED BY <2>4, <3>5, <5>1
      <4>3. PhasesLeft = LeftIn[ex.phase[c]] /\ PhasesLeft' = LeftIn[ex'.phase[c]]
        BY <1>1, <2>1, <3>1, <4>2 DEF PhasesLeft
      <4> QED BY <3>3, <4>3 DEF LeftIn
    <3> QED BY <1>a, <2>2, <3>10, <3>11
  <2> QED BY <2>5, <2>6
<1>6. CASE HostAlive
  <2>1. /\ host.phase = "asleep" /\ host'.phase = "alive"
        /\ ex'.ipi = ex.ipi /\ ex'.age = 0 /\ ex'.phase = ex.phase
        /\ ex'.fir = ex.fir /\ ex'.late = ex.late /\ ex'.blocked = ex.blocked
        /\ WinkleStep(WAITING_FOR_HOSTBOOT)
    BY <1>0, <1>6 DEF HostAlive, HostAwake, ExType, Fields
  <2>2. sbe.pc # "pollGoto"
    BY <1>0, <2>1 DEF DeadmanInv, HandInv, OrderInv, ServiceInv, BootInv, StepOK, WinkleStep,
                      WAITING_FOR_WAKEUP, WAITING_FOR_HOSTBOOT
  <2>3. ChipletOK'
    BY <1>0, <1>1, <2>1, <2>2 DEF ChipletOK, Single
  <2>4. Single => PhasesLeft \in 1 .. 6 /\ PhasesLeft' = 0
    <3>1. Single => ex.phase[sbe.ex] \in Phases
      BY <1>0 DEF ExType, Single
    <3>2. \A p \in Phases : LeftIn[p] \in 1 .. 6
      BY DEF Phases, LeftIn
    <3> QED BY <2>1, <3>1, <3>2 DEF PhasesLeft
  <2> QED BY <1>a, <2>1, <2>3, <2>4
<1> QED BY <1>3, <1>4, <1>5, <1>6 DEF WinkleHost

(* A poll that fails while something is due: in time it takes one from the *)
(* count and one from what is left; when it is too late that is recorded.  *)
LEMMA PollDeadline ==
    ASSUME DeadmanInv, NEW rc, PollAgain(rc),
           sbe.pc \in {"pollWinkle", "pollGoto", "pollIdle", "pollAlive"},
           sbe'.ex = sbe.ex,
           Single => Due /\ host.phase # "alive",
           Single /\ sbe.pc = "pollWinkle" => ex.phase[sbe.ex] # "winkled",
           Single /\ sbe.pc = "pollGoto" => ex.phase[sbe.ex] = "winkled"
    PROVE  ChipletOK' /\ DeadlineOK'
<1>0. Fields /\ ExType /\ ChipletOK /\ DeadlineOK
  BY DEF DeadmanInv, HandInv, OrderInv, ServiceInv, BootInv
<1>1. Single => PhasesLeft \in 1 .. 6
  <2>1. Single => PhasesLeft \in 0 .. 6
    BY LeftType DEF DeadmanInv
  <2>2. Single => ex.phase[sbe.ex] \in Phases
    BY <1>0 DEF ExType, Single
  <2>3. \A p \in Phases : LeftIn[p] \in 1 .. 6
    BY DEF Phases, LeftIn
  <2> QED BY <2>2, <2>3 DEF PhasesLeft
<1> HIDE DEF DeadmanInv
<1>2. ~ex.fir
  BY <1>0 DEF DeadlineOK
<1>3. PICK fired \in BOOLEAN : Tick(fired) /\ (fired <=> ~(sbe.ctr > 0))
  BY DEF PollAgain
<1>4. /\ ex'.phase = ex.phase /\ ex'.ipi = ex.ipi /\ ex'.blocked = ex.blocked
      /\ ex'.age = IF ex.age < PhaseMax THEN ex.age + 1 ELSE ex.age
  BY <1>0, <1>3 DEF Tick, ExType
<1>5. /\ ex'.late <=> ex.late \/ (Due /\ ex.age = PhaseMax)
      /\ ex'.fir <=> ex.fir \/ fired
  BY <1>0, <1>3, Zenon DEF Tick, ExType
<1>6. /\ sbe.ctr > 0 => sbe'.pc = sbe.pc /\ sbe'.ctr = sbe.ctr - 1
      /\ ~(sbe.ctr > 0) => sbe'.pc = "errorHalt"
      /\ host' = host
  BY <1>0 DEF PollAgain, Counted, ErrorHalt, Fields
<1>7. PhasesLeft' = PhasesLeft
  BY <1>4, <1>6 DEF PhasesLeft
<1>8. ChipletOK'
  BY <1>0, <1>4, <1>6 DEF ChipletOK, Single, WokenPCs, Deadman
<1>9. ASSUME Single, ~ex.late, ~(Due /\ ex.age = PhaseMax)
      PROVE  /\ sbe.ctr > 0 /\ sbe'.ctr \in Int
             /\ sbe'.ctr >= PhasesLeft * PhaseMax - ex'.age
  <2> DEFINE m == PhasesLeft
  <2>1. /\ sbe.ctr \in Int /\ sbe.ctr >= m * PhaseMax - ex.age /\ m \in 1 .. 6
        /\ ex.age \in 0 .. PhaseMax /\ ex.age # PhaseMax
    BY <1>0, <1>1, <1>9 DEF DeadlineOK, ExType, CountPCs, Deadman
  <2>2. m * PhaseMax = (m - 1) * PhaseMax + PhaseMax /\ (m - 1) * PhaseMax \in Nat
    <3> HIDE DEF m
    <3> QED BY <2>1, Multiples
  <2>3. ex.age < PhaseMax /\ ex'.age = ex.age + 1
    BY <1>4, <2>1, Multiples
  <2> HIDE DEF m
  <2>4. sbe.ctr > 0
    BY <2>1, <2>2, <2>3, Multiples
  <2>5. sbe'.ctr = sbe.ctr - 1
    BY <1>6, <2>4
  <2>6. sbe'.ctr \in Int /\ sbe'.ctr >= m * PhaseMax - ex'.age
    BY <2>1, <2>2, <2>3, <2>5, Multiples
  <2> QED BY <2>4, <2>6 DEF m
<1>10. DeadlineOK'
  <2>1. ex'.fir => sbe'.pc = "errorHalt" /\ (Single => ex'.late)
    BY <1>2, <1>3, <1>5, <1>6, <1>9
  <2>2. ASSUME Single, sbe'.pc \in CountPCs
        PROVE  /\ sbe'.ctr \in Int
               /\ ~ex'.late => sbe'.ctr >= PhasesLeft' * PhaseMax - ex'.age
    <3>1. sbe.ctr > 0 /\ sbe'.ctr = sbe.ctr - 1
      BY <1>6, <2>2 DEF CountPCs, Deadman
    <3>2. sbe.ctr \in Int
      BY <1>0, <2>2 DEF DeadlineOK, CountPCs, Deadman
    <3> QED BY <1>5, <1>7, <1>9, <2>2, <3>1, <3>2
  <2> QED BY <2>1, <2>2 DEF DeadlineOK, Single
<1> QED BY <1>8, <1>10

(* The bit for a single chiplet is its own as long as 64 bits are enough.  *)
LEMMA OwnBit == LastPosition < 64 => \A c \in Positions : RotatedBit(c) = c
BY SingleNotAll DEF RotatedBit, Positions

(* The engine keeps the count above what is left, and wakes its own core.  *)
LEMMA WinkleDeadline ==
    CountFits /\ LastPosition < 64 /\ DeadmanInv /\ WinkleEngine => ChipletOK' /\ DeadlineOK'
<1> SUFFICES ASSUME CountFits, LastPosition < 64, DeadmanInv, WinkleEngine
             PROVE  ChipletOK' /\ DeadlineOK'
    OBVIOUS
<1>0. /\ Fields /\ ExType /\ VitalOK /\ HostOK /\ StepOK /\ ChipletOK /\ DeadlineOK
  BY DEF DeadmanInv, HandInv, OrderInv, ServiceInv, BootInv
<1>1. UNCHANGED host /\ sbe'.ex = sbe.ex
  <2>1. UNCHANGED host
    BY DEF WinkleEngine, WinkleEntry, WinkleReady, PollStart, Started, PollWinkle, Wake, Waking,
           Unblock, Ipi, PollGoto, PollIdle, Awake, IcpOff, PollAlive, Success, PollAgain, others
  <2>2. Stays
    BY WinkleStays DEF DeadmanInv, HandInv
  <2> QED BY <2>1, <2>2 DEF Stays
<1>2. Single => sbe.ex # AllEx
  BY SingleNotAll DEF Single
<1>3. sbe.pc \in WinklePCs /\ ~ex.fir /\ (sbe.pc \in WinklePCs => vital.proc = "trigger_winkle")
  <2>1. sbe.pc \in WinklePCs
    BY DEF WinkleEngine, WinkleEntry, WinkleReady, PollStart, Started, PollWinkle,
           Wake, Waking, Unblock, Ipi, PollGoto, PollIdle, Awake, IcpOff, PollAlive, Success,
           At, WinklePCs
  <2> QED BY <1>0, <2>1 DEF DeadlineOK, VitalOK, WinklePCs
<1>4. Single => ex.phase[sbe.ex] \in Phases
  BY <1>0 DEF ExType, Single
(* The steps that wait for nothing and count nothing.                      *)
<1>a. ASSUME /\ ex'.phase = ex.phase /\ ex'.age = ex.age
             /\ ex'.fir = ex.fir /\ ex'.late = ex.late,
             sbe'.pc \in CountPCs => sbe.pc \in CountPCs /\ sbe'.ctr = sbe.ctr
      PROVE  DeadlineOK'
  <2>1. PhasesLeft' = PhasesLeft
    BY <1>1, <1>a DEF PhasesLeft
  <2> QED BY <1>0, <1>1, <1>3, <1>a, <2>1 DEF DeadlineOK, Single
<1> HIDE DEF DeadmanInv
<1> USE DEF At, Goto, Load, others
<1>5. CASE WinkleEntry \/ WinkleReady \/ PollStart
  <2>1. /\ UNCHANGED ex /\ sbe.pc \in {"winkleEntry", "winkleReady", "pollStart"}
        /\ sbe'.pc \in {"winkleReady", "pollStart", "started"}
        /\ sbe'.pc = "started" => sbe.pc = "pollStart"
        /\ sbe'.pc = "pollStart" => sbe.pc = "winkleReady"
    BY <1>0, <1>5 DEF WinkleEntry, WinkleReady, PollStart, Fields
  <2>2. ChipletOK'
    <3>1. sbe'.pc = "pollStart" => host.phase = "idle"
      BY <1>0, <2>1 DEF HostOK, BeforePCs
    <3>2. sbe'.pc = "pollStart" => \A c \in Positions : ex.phase[c] = "run"
      BY <1>0, <3>1 DEF HostOK
    <3>3. CASE sbe'.pc = "pollStart"
      BY <1>1, <1>2, <2>1, <3>1, <3>2, <3>3 DEF ChipletOK, Single, WokenPCs
    <3>4. CASE sbe'.pc = "started"
      BY <1>0, <1>1, <2>1, <3>4 DEF ChipletOK, Single, WokenPCs, Deadman
    <3>5. CASE sbe'.pc = "winkleReady"
      BY <3>5 DEF ChipletOK, Deadman
    <3> QED BY <2>1, <3>3, <3>4, <3>5
  <2> QED BY <1>a, <2>1, <2>2 DEF CountPCs, Deadman
<1>6. CASE Started
  <2>1. /\ UNCHANGED ex /\ sbe.pc = "started" /\ sbe'.pc = "pollWinkle"
        /\ sbe'.ctr = DeadmanCount
    BY <1>0, <1>6 DEF Started, Fields
  <2>2. ChipletOK'
    BY <1>0, <1>1, <2>1 DEF ChipletOK, Single, WokenPCs, Deadman
  <2>3. DeadlineOK'
    <3> DEFINE m == PhasesLeft'
    <3>1. Single => m \in 0 .. 6
      <4>1. m = PhasesLeft
        BY <1>1, <2>1 DEF PhasesLeft
      <4> QED BY <4>1, LeftType DEF DeadmanInv
    <3>2. Single => m * PhaseMax \in Nat /\ m * PhaseMax <= 6 * PhaseMax
      <4> HIDE DEF m
      <4> QED BY <3>1, Multiples
    <3> HIDE DEF m
    <3>3. Single => sbe'.ctr \in Int /\ sbe'.ctr >= m * PhaseMax - ex'.age
      <4>1. ex.age \in Nat
        BY <1>0, Multiples DEF ExType
      <4> QED BY <2>1, <3>2, <4>1, Multiples DEF CountFits
    <3> QED BY <1>1, <1>3, <2>1, <3>3 DEF DeadlineOK, Single, m
  <2> QED BY <2>2, <2>3
<1>7. CASE PollWinkle
  <2>1. sbe.pc = "pollWinkle" /\ (host.phase # "idle" /\ host.phase # "alive")
    BY <1>0, <1>7 DEF PollWinkle, HostOK, Deadman
  <2>2. Single => ex.phase[sbe.ex] \in {"run", "entering", "winkled"}
    BY <1>0, <2>1 DEF HostOK, WokenPCs, AfterPCs, IntrPCs, Single
  <2>3. CASE InWinkle
    <3>1. UNCHANGED ex /\ sbe'.pc = "wake" /\ sbe'.ctr = sbe.ctr
      BY <1>0, <1>7, <2>3 DEF PollWinkle, Fields
    <3>2. ChipletOK'
      BY <1>0, <1>1, <2>1, <3>1 DEF ChipletOK, Single, WokenPCs, Deadman
    <3> QED BY <1>a, <2>1, <3>1, <3>2 DEF CountPCs, Deadman
  <2>4. CASE ~InWinkle
    <3>1. PollAgain("noWinkle")
      BY <1>7, <2>4 DEF PollWinkle
    <3>2. Single => ex.phase[sbe.ex] \in {"run", "entering"}
      BY <2>2, <2>4, SingleRead DEF InWinkle, Single
    <3>3. Single => Due
      <4>1. Single /\ ex.phase[sbe.ex] = "run" => host.phase = "started"
        BY <1>0, <2>1 DEF ChipletOK, HostOK, Deadman
      <4> QED BY <3>2, <4>1 DEF Due, Single
    <3> QED BY <1>1, <2>1, <3>1, <3>2, <3>3, PollDeadline
  <2> QED BY <2>3, <2>4
<1>8. CASE Wake \/ Waking
  <2>1. /\ UNCHANGED ex /\ sbe.pc \in {"wake", "waking"}
        /\ sbe'.pc \in {"success", "waking", "unblock"} /\ sbe'.ctr = sbe.ctr
    BY <1>0, <1>8 DEF Wake, Waking, Fields
  <2>2. ChipletOK'
    BY <1>0, <1>1, <2>1 DEF ChipletOK, Single, WokenPCs, Deadman
  <2> QED BY <1>a, <2>1, <2>2 DEF CountPCs, Deadman
<1>9. CASE Unblock
  <2>1. /\ sbe.pc = "unblock" /\ sbe'.pc = "ipi" /\ sbe'.ctr = sbe.ctr
        /\ ex'.phase = ex.phase /\ ex'.age = ex.age /\ ex'.blocked = FALSE
        /\ ex'.fir = ex.fir /\ ex'.late = ex.late
    BY <1>0, <1>9 DEF Unblock, ExType, Fields
  <2>2. Single => ex.phase[sbe.ex] = "winkled"
    BY <1>0, <1>2, <2>1 DEF HostOK, WakePCs
  <2>3. Single => host.phase \in {"asleep", "alive"}
    BY <1>0, <2>1, <2>2 DEF HostOK, Deadman, Single
  <2>4. ChipletOK'
    BY <1>0, <1>1, <2>1, <2>3 DEF ChipletOK, Single, WokenPCs, Deadman
  <2> QED BY <1>a, <2>1, <2>4 DEF CountPCs, Deadman
<1>10. CASE Ipi
  <2>1. /\ sbe.pc = "ipi" /\ sbe'.pc = "pollGoto" /\ sbe'.ctr = sbe.ctr
        /\ ex'.phase = ex.phase /\ ex'.age = 0 /\ ex'.blocked = ex.blocked
        /\ ex'.ipi = IpiBits /\ ex'.fir = ex.fir /\ ex'.late = ex.late
    BY <1>0, <1>10 DEF Ipi, RestoredCount, ExType, Fields
  <2>2. Single => ex.phase[sbe.ex] = "winkled" /\ ex.age = 0
    BY <1>0, <1>2, <2>1 DEF HostOK, WakePCs, ChipletOK, WokenPCs, Deadman
  <2>3. Single => ex'.ipi = {sbe.ex}
    BY <1>2, <2>1, OwnBit DEF IpiBits, Single
  <2>4. ChipletOK'
    BY <1>0, <1>1, <2>1, <2>2, <2>3 DEF ChipletOK, Single, WokenPCs, Deadman
  <2>5. PhasesLeft' = PhasesLeft
    BY <1>1, <2>1 DEF PhasesLeft
  <2>6. DeadlineOK'
    BY <1>0, <1>1, <1>3, <2>1, <2>2, <2>5 DEF DeadlineOK, Single, CountPCs, Deadman
  <2> QED BY <2>4, <2>6
<1>11. CASE PollGoto
  <2>1. sbe.pc = "pollGoto" /\ host.phase # "alive"
    BY <1>0, <1>11 DEF PollGoto, HostOK, Deadman
  <2>2. CASE FsmRead = PORE_GOTO_CMD
    <3>1. UNCHANGED ex /\ sbe'.pc = "pollIdle" /\ sbe'.ctr = sbe.ctr
      BY <1>0, <1>11, <2>2 DEF PollGoto, Fields
    <3>2. Single => ex.phase[sbe.ex] = "goto"
      BY <2>2, SingleRead DEF Single
    <3>3. ChipletOK'
      BY <1>0, <1>1, <2>1, <3>1, <3>2 DEF ChipletOK, Single, WokenPCs, Deadman
    <3> QED BY <1>a, <2>1, <3>1, <3>3 DEF CountPCs, Deadman
  <2>3. CASE FsmRead # PORE_GOTO_CMD
    <3>1. PollAgain("noGoto")
      BY <1>11, <2>3 DEF PollGoto
    <3>2. Single => /\ ex.phase[sbe.ex] = "winkled" /\ ex.blocked = FALSE
                    /\ ex.ipi = {sbe.ex}
      <4>1. Single => ex.phase[sbe.ex] # "goto"
        BY <2>3, SingleRead DEF Single
      <4> QED BY <1>0, <2>1, <4>1 DEF ChipletOK, WokenPCs, Deadman
    <3>3. Single => Due
      BY <3>2 DEF Due, Wakeable, Single
    <3> QED BY <1>1, <2>1, <3>1, <3>2, <3>3, PollDeadline
  <2> QED BY <2>2, <2>3
<1>12. CASE PollIdle
  <2>1. sbe.pc = "pollIdle" /\ host.phase # "alive"
    BY <1>0, <1>12 DEF PollIdle, HostOK, Deadman
  <2>2. Single => ex.phase[sbe.ex] \in {"goto", "restoring", "awake"}
    BY <1>0, <2>1 DEF ChipletOK, Deadman
  <2>3. CASE FsmRead = {}
    <3>1. UNCHANGED ex /\ sbe'.pc = "awake" /\ sbe'.ctr = sbe.ctr
      BY <1>0, <1>12, <2>3 DEF PollIdle, Fields
    <3>2. Single => ex.phase[sbe.ex] = "awake"
      BY <2>2, <2>3, SingleRead DEF Single
    <3>3. ChipletOK'
      BY <1>0, <1>1, <2>1, <3>1, <3>2 DEF ChipletOK, Single, WokenPCs, Deadman
    <3> QED BY <1>a, <2>1, <3>1, <3>3 DEF CountPCs, Deadman
  <2>4. CASE FsmRead # {}
    <3>1. PollAgain("noWakeup")
      BY <1>12, <2>4 DEF PollIdle
    <3>2. Single => ex.phase[sbe.ex] \in {"goto", "restoring"}
      BY <2>2, <2>4, SingleRead DEF Single
    <3>3. Single => Due
      BY <3>2 DEF Due, Single
    <3> QED BY <1>1, <2>1, <3>1, <3>3, PollDeadline
  <2> QED BY <2>3, <2>4
<1>13. CASE Awake \/ IcpOff
  <2>1. /\ sbe.pc \in {"awake", "icpOff"} /\ sbe'.pc \in {"icpOff", "pollAlive"}
        /\ sbe'.ctr = sbe.ctr
        /\ ex'.phase = ex.phase /\ ex'.age = ex.age /\ ex'.blocked = ex.blocked
        /\ ex'.ipi = ex.ipi /\ ex'.fir = ex.fir /\ ex'.late = ex.late
    BY <1>0, <1>13 DEF Awake, IcpOff, ExType, Fields
  <2>2. ChipletOK'
    BY <1>0, <1>1, <2>1 DEF ChipletOK, Single, WokenPCs, Deadman
  <2> QED BY <1>a, <2>1, <2>2 DEF CountPCs, Deadman
<1>14. CASE PollAlive
  <2>1. sbe.pc = "pollAlive"
    BY <1>14 DEF PollAlive
  <2>2. CASE WinkleStep(HOSTBOOT_ALIVE)
    <3>1. UNCHANGED ex /\ sbe'.pc = "success"
      BY <1>0, <1>14, <2>2 DEF PollAlive, Fields
    <3> QED BY <1>a, <3>1 DEF ChipletOK, CountPCs, Deadman
  <2>3. CASE ~WinkleStep(HOSTBOOT_ALIVE)
    <3>1. PollAgain("noHostboot")
      BY <1>14, <2>3 DEF PollAlive
    <3>2. WinkleStep(WAITING_FOR_HOSTBOOT) /\ host.phase # "alive"
      BY <1>0, <1>3, <2>1, <2>3 DEF VitalOK, HostOK, WinkleStep, Deadman
    <3>3. Single => host.phase = "asleep" /\ ex.phase[sbe.ex] = "awake"
      BY <1>0, <2>1, <3>2 DEF ChipletOK, WokenPCs, Deadman
    <3>4. Single => Due
      BY <3>2, <3>3, SingleRead DEF Due, HostAwake, Single
    <3> QED BY <1>1, <2>1, <3>1, <3>2, <3>4, PollDeadline
  <2> QED BY <2>2, <2>3
<1>15. CASE Success
  <2>1. UNCHANGED ex /\ sbe'.pc \in {"done", "intrEntry"}
    BY <1>0, <1>15 DEF Success, Fields
  <2> QED BY <1>a, <2>1 DEF ChipletOK, CountPCs, Deadman
<1> QED BY <1>5, <1>6, <1>7, <1>8, <1>9, <1>10, <1>11, <1>12, <1>13, <1>14, <1>15
        DEF WinkleEngine

(* In every behaviour the count of the timer is above what is left of the  *)
(* handshake of a single boot core, unless a phase was too late.           *)
THEOREM DeadmanInvariant ==
    ASSUME CountFits, LastPosition < 64 PROVE Spec => []DeadmanInv
<1>1. Init => ChipletOK /\ DeadlineOK
  BY DEF Init, ChipletOK, DeadlineOK, Deadman, CountPCs
<1>2. DeadmanInv /\ [Next]_vars => ChipletOK' /\ DeadlineOK'
  <2> SUFFICES ASSUME DeadmanInv, [Next]_vars PROVE ChipletOK' /\ DeadlineOK'
      OBVIOUS
  <2>1. HandInv
    BY DEF DeadmanInv
  <2>2. CASE IstepStep \/ Continue \/ MasterStep \/ ScanStep
    BY <2>1, <2>2, IstepElsewhere, MasterElsewhere, ScanElsewhere, QuietDeadline
  <2>3. CASE UpdateStep \/ RaiseAttention \/ PostInterrupt \/ PostScan \/ CollectScan
             \/ Polls \/ UNCHANGED vars
    <3>0. Fields
      BY <2>1 DEF HandInv, OrderInv, ServiceInv, BootInv
    <3>1. UNCHANGED <<sbe, ex>> /\ host'.phase = host.phase
      <4>1. CASE UpdateStep \/ RaiseAttention \/ CollectScan \/ Polls \/ UNCHANGED vars
        BY <3>0, <4>1 DEF UpdateStep, RaiseAttention, CollectScan, Polls, vars, others, Fields
      <4>2. CASE PostInterrupt
        BY <3>0, <4>2, Zenon DEF PostInterrupt, Fields
      <4>3. CASE PostScan
        BY <3>0, <4>3, Zenon DEF PostScan, Fields
      <4> QED BY <2>3, <4>1, <4>2, <4>3
    <3> QED BY <3>1, QuietDeadline
  <2> QED BY <2>2, <2>3, IntrDeadline, WinkleDeadline, HostDeadline DEF Next, EngineStep
<1>3. (ChipletOK /\ DeadlineOK) /\ HandInv /\ HandInv' /\ [Next]_vars
         => (ChipletOK /\ DeadlineOK)'
  BY <1>2 DEF DeadmanInv
<1> QED BY <1>1, <1>3, HandInvariant, PTL DEF Spec, DeadmanInv

(* The deadman timer stops the system only when a phase of the boot core   *)
(* or of Hostboot took longer than it may, as long as the count is that of *)
(* six phases and the interrupt register has a bit for each position.      *)
THEOREM NoFalseCheckstops ==
    ASSUME CountFits, LastPosition < 64 PROVE Spec => []NoFalseCheckstop
<1>1. DeadmanInv => NoFalseCheckstop
  BY DEF DeadmanInv, DeadlineOK, NoFalseCheckstop, Single
<1> QED BY DeadmanInvariant, <1>1, PTL
=============================================================================
