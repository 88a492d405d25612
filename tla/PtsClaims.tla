----------------------------- MODULE PtsClaims -----------------------------
(***************************************************************************)
(* What a comment of PTS promises and its code does not keep: the run is   *)
(* expected to find a violation.                                           *)
(***************************************************************************)
EXTENDS PtsSlw

(* pts_command.h: while stopped, no PTS threads are allowed to run.  The   *)
(* hypervisor has the answer to its STOP command and has not sent START.   *)
StopMeansStopped == phyp.stopped => cpu.pc # "thread"
=============================================================================
