--------------------------- MODULE SbeIntrService ---------------------------
(***************************************************************************)
(* proc_sbe_intr_service_pibmem.S: after the boot the SBE counts down for  *)
(* Hostboot and interrupts it when the count reaches zero.  A request is   *)
(* read from a mailbox and then cleared; A0 is odd in between, so that a   *)
(* host can know of the critical section.                                  *)
(***************************************************************************)
EXTENDS SbeWinkle

ServesInterrupts == vital.proc = "intr_service" /\ vital.step = 1

(* Hostboot posts a request at any time.  One that it posts in the         *)
(* critical section is torn: it may be cleared before it is read.          *)
PostInterrupt == \E r \in IntrRequests :
    /\ cfg.host /\ host.phase = "alive" /\ ServesInterrupts
    /\ mbox' = [mbox EXCEPT !.intr = r, !.torn = (@ \/ sbe.odd \/ r.kind = "halt")]
    /\ host' = [host EXCEPT !.owed = (@ \/ ~sbe.odd) /\ r.kind = "count"]
    /\ UNCHANGED <<cfg, sbe, vital, lock, attn, ex, ring>>

(***************************************************************************)
(* The SBE.                                                                *)
(***************************************************************************)
IntrEntry ==
    /\ At("intrEntry")
    /\ mbox' = [mbox EXCEPT !.intr = NoRequest]
    /\ vital' = Magic("intr_service", 1)
    /\ sbe' = [sbe EXCEPT !.pc = "intrWait", !.ctr = 0, !.odd = FALSE]
    /\ UNCHANGED <<cfg, lock, attn, ex, ring, host>>

IntrWait ==
    /\ At("intrWait")
    /\ sbe' = [sbe EXCEPT !.pc = "intrRead", !.odd = TRUE]
    /\ UNCHANGED <<vital, lock, attn, others>>

IntrRead ==
    /\ At("intrRead")
    /\ sbe' = [sbe EXCEPT !.pc = "intrClear", !.request = mbox.intr]
    /\ UNCHANGED <<vital, lock, attn, others>>

IntrClear ==
    /\ At("intrClear")
    /\ mbox' = [mbox EXCEPT !.intr = NoRequest]
    /\ sbe' = [sbe EXCEPT !.pc = "intrCheck", !.odd = FALSE]
    /\ UNCHANGED <<cfg, vital, lock, attn, ex, ring, host>>

IntrHalt ==
    /\ At("intrCheck") /\ sbe.request.kind = "halt"
    /\ vital' = HaltedWell(Magic("intr_service", HALT_SUCCESS))
    /\ Goto("done")
    /\ UNCHANGED <<lock, attn, others>>

MutantClamped(count) == count
Clamped(count) == IF count = 0 THEN 1 ELSE count
LoadDecrementer ==
    /\ At("intrCheck") /\ sbe.request.kind = "count"
    /\ sbe' = [sbe EXCEPT !.pc = "intrWait", !.ctr = Clamped(sbe.request.count)]
    /\ UNCHANGED <<vital, lock, attn, others>>

(* An interrupt is for all the requests but one that came after the clear. *)
Fires == sbe.ctr = 1
MutantKept == sbe.ctr
Decremented == IF sbe.ctr = 0 THEN 0 ELSE sbe.ctr - 1
Decrement ==
    /\ At("intrCheck") /\ sbe.request.kind = "none"
    /\ sbe' = [sbe EXCEPT !.pc = "intrWait", !.ctr = Decremented]
    /\ IF Fires
       THEN /\ host' = [host EXCEPT !.owed = mbox.intr.kind = "count"]
            /\ mbox' = [mbox EXCEPT !.torn = mbox.intr.kind = "halt"]
       ELSE UNCHANGED <<mbox, host>>
    /\ UNCHANGED <<cfg, vital, lock, attn, ex, ring>>

IntrStep == IntrEntry \/ IntrWait \/ IntrRead \/ IntrClear \/ IntrHalt
            \/ LoadDecrementer \/ Decrement
=============================================================================
