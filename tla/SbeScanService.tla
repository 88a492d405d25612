--------------------------- MODULE SbeScanService ---------------------------
(***************************************************************************)
(* proc_sbe_scan_service.S: a slave SBE scans PLL rings for the host.  A   *)
(* ring is a set of bits relative to the image; bits counts the ones that  *)
(* were flipped in the latches, shadow those that a setpulse has made      *)
(* effective, pos how far the ring is rotated.  The host is external.      *)
(***************************************************************************)
EXTENDS SbeIntrService

(* The tables hold an offset for each bus that the ring has.               *)
InTable(r) == r.op \in DOMAIN ModOffset[r.ring] /\ r.bus \in DOMAIN ModOffset[r.ring][r.op]
OffsetOf(r) == ModOffset[r.ring][r.op][r.bus]

(* The ring identifier selects the operations and the highest bus number;  *)
(* what is supported is in the tables, inside of the ring.                 *)
MaxBusId(r) ==
    IF r.op = BASE THEN 0 ELSE IF r.ring = "abus" THEN 2 ELSE 7
OperationOf(r) == r.op = BASE \/ (r.op \in ModOperations /\ r.ring \in {"abus", "dmi"})
Supported(r) == OperationOf(r) /\ r.bus <= MaxBusId(r)
ASSUME TableAssumption ==
    \A r \in ScanRequests : r.kind = "scan" /\ r.op # BASE /\ Supported(r) =>
        InTable(r) /\ OffsetOf(r) \in 0 .. RingLength[r.ring] - 1

Toggle(set, b) == (set \ {b}) \cup ({b} \ set)

(* The host looks for SUBSTEP_SBE_READY, posts a request, and collects the *)
(* response before it posts another.  It expects the image after a base    *)
(* scan, and one bit flipped after a modification.                         *)
Expected(r) ==
    IF r.kind = "halt" THEN host.expected
    ELSE IF r.op = BASE THEN [host.expected EXCEPT ![r.ring] = {}]
    ELSE IF InTable(r) THEN [host.expected EXCEPT ![r.ring] = Toggle(@, OffsetOf(r))]
    ELSE host.expected

PostScan == \E r \in ScanRequests :
    /\ vital.proc = "scan_service" /\ vital.step = SBE_READY
    /\ vital.halt = "FATAL" /\ ~host.waits
    /\ mbox' = [mbox EXCEPT !.request = r]
    /\ host' = [host EXCEPT !.waits = TRUE, !.expected = Expected(r)]
    /\ UNCHANGED <<cfg, sbe, vital, lock, attn, ex, ring>>

CollectScan ==
    /\ host.waits /\ mbox.response.valid
    /\ host' = [host EXCEPT !.waits = FALSE]
    /\ mbox' = [mbox EXCEPT !.response = NoResponse]
    /\ UNCHANGED <<cfg, sbe, vital, lock, attn, ex, ring>>

(***************************************************************************)
(* The SBE.                                                                *)
(***************************************************************************)
Step(step, pc) ==
    /\ vital' = [vital EXCEPT !.step = step]
    /\ Goto(pc)
    /\ UNCHANGED <<lock, attn, others>>

ScanEntry ==
    /\ At("scanEntry")
    /\ vital' = Magic("scan_service", 0)
    /\ mbox' = [mbox EXCEPT !.response = NoResponse]
    /\ Goto("scanPrep")
    /\ UNCHANGED <<cfg, lock, attn, ex, ring, host>>

MutantCleared == mbox.request
Cleared == NoRequest
ScanPrep ==
    /\ At("scanPrep")
    /\ mbox' = [mbox EXCEPT !.request = Cleared]
    /\ Goto("scanReady")
    /\ UNCHANGED <<cfg, vital, lock, attn, ex, ring, host>>

ScanReady == At("scanReady") /\ Step(SBE_READY, "scanPoll")

ScanPoll ==
    /\ At("scanPoll") /\ mbox.request # NoRequest
    /\ sbe' = [sbe EXCEPT !.pc = "scanSave", !.request = mbox.request]
    /\ UNCHANGED <<vital, lock, attn, others>>

(* The request without its valid bit becomes the response to be.           *)
SaveRequest ==
    /\ At("scanSave") /\ sbe.request.kind = "scan"
    /\ mbox' = [mbox EXCEPT !.response = [valid |-> FALSE, request |-> sbe.request]]
    /\ vital' = [vital EXCEPT !.step = DECODE_REQ]
    /\ Goto("decode")
    /\ UNCHANGED <<cfg, lock, attn, ex, ring, host>>

ScanHalt ==
    /\ At("scanSave") /\ sbe.request.kind = "halt"
    /\ mbox' = [mbox EXCEPT !.response = [valid |-> FALSE, request |-> sbe.request]]
    /\ lock' = FALSE
    /\ vital' = HaltedWell([vital EXCEPT !.step = HALT_SUCCESS])
    /\ Goto("slaveHalt")
    /\ UNCHANGED <<cfg, attn, ex, ring, host>>

InvalidOperation ==
    /\ At("decode") /\ ~Supported(sbe.request)
    /\ vital' = [vital EXCEPT !.step = ARG_ERR]
    /\ ErrorHalt("invalidOperation")
    /\ UNCHANGED <<lock, attn, others>>

Decode ==
    /\ At("decode") /\ Supported(sbe.request)
    /\ Step(SCAN_IP, IF sbe.request.op = BASE THEN "setRing" ELSE "modRing")

(* load_ring scans the image of the SEEPROM, ending with a setpulse.       *)
TheRing == sbe.request.ring
SetRing ==
    /\ At("setRing")
    /\ ring' = [ring EXCEPT ![TheRing] = [pos |-> 0, bits |-> {}, shadow |-> {}]]
    /\ vital' = [vital EXCEPT !.step = SCAN_DONE]
    /\ Goto("respond")
    /\ UNCHANGED <<cfg, lock, attn, ex, mbox, host>>

(* The bit to modify comes from the table of the ring, by the bus number.  *)
ModRing ==
    /\ At("modRing")
    /\ sbe' = [sbe EXCEPT !.pc = "rotateToMod", !.offset = OffsetOf(sbe.request),
                          !.left = OffsetOf(sbe.request)]
    /\ vital' = [vital EXCEPT !.step = RESCAN_IP]
    /\ UNCHANGED <<cfg, lock, attn, ex, mbox, ring, host>>

(* pll_ring_rotate: rotate in chunks, then by what is left.                *)
Chunk == IF sbe.left > MaxRotate THEN MaxRotate ELSE sbe.left
RotateRing(from, to) ==
    /\ At(from)
    /\ ring' = [ring EXCEPT ![TheRing].pos = (@ + Chunk) % RingLength[TheRing]]
    /\ sbe' = [sbe EXCEPT !.pc = IF sbe.left > MaxRotate THEN from ELSE to,
                          !.left = @ - Chunk]
    /\ UNCHANGED <<cfg, vital, lock, attn, ex, mbox, host>>

RotateToMod == RotateRing("rotateToMod", "flip")
RotateToEnd == RotateRing("rotateToEnd", "header")

Remaining == RingLength[TheRing] - sbe.offset
Flip ==
    /\ At("flip")
    /\ ring' = [ring EXCEPT ![TheRing].bits = Toggle(@, ring[TheRing].pos)]
    /\ sbe' = [sbe EXCEPT !.pc = "rotateToEnd", !.left = Remaining]
    /\ UNCHANGED <<cfg, vital, lock, attn, ex, mbox, host>>

(* The pattern at the head of the ring, bit 0 here, must be there again.   *)
HeaderOK == ring[TheRing].pos = 0 /\ 0 \notin ring[TheRing].bits

HeaderCheck ==
    /\ At("header") /\ HeaderOK
    /\ ring' = [ring EXCEPT ![TheRing].shadow = ring[TheRing].bits]
    /\ Goto("respond")
    /\ UNCHANGED <<cfg, vital, lock, attn, ex, mbox, host>>

CheckwordError ==
    /\ At("header") /\ ~HeaderOK
    /\ vital' = [vital EXCEPT !.step = CHECKWORD_ERR]
    /\ ErrorHalt("checkword")
    /\ UNCHANGED <<lock, attn, others>>

MutantRespond ==
    /\ At("respond")
    /\ mbox' = [mbox EXCEPT !.response.valid = TRUE]
    /\ vital' = [vital EXCEPT !.step = SBE_READY]
    /\ Goto("scanPrep")
    /\ UNCHANGED <<cfg, lock, attn, ex, ring, host>>
Respond ==
    /\ At("respond")
    /\ mbox' = [mbox EXCEPT !.response.valid = TRUE]
    /\ Goto("scanPrep")
    /\ UNCHANGED <<cfg, vital, lock, attn, ex, ring, host>>

ScanStep ==
    \/ ScanEntry \/ ScanPrep \/ ScanReady \/ ScanPoll \/ SaveRequest \/ ScanHalt
    \/ InvalidOperation \/ Decode \/ SetRing \/ ModRing \/ RotateToMod \/ Flip
    \/ RotateToEnd \/ HeaderCheck \/ CheckwordError \/ Respond
=============================================================================
