------------------------------- MODULE MCPts -------------------------------
(* Instances of PtsSlw for TLC.                                            *)
EXTENDS PtsClaims

CONSTANTS t0, t1

(* The product table has one slot, the test table two.                     *)
MCSlotOf == [t \in Threads |-> IF t = t0 THEN 0 ELSE 1]
=============================================================================
