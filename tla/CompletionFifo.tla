--------------------------- MODULE CompletionFifo ---------------------------
(***************************************************************************)
(* What the PTS completion queue promises the OCC: a bounded first-in      *)
(* first-out channel.  A record is delivered once, whole and in order, and *)
(* is refused, which is fatal to PTS, only when the channel is full.       *)
(***************************************************************************)
EXTENDS Naturals, Sequences

CONSTANTS Records, NoRecord, Capacity

VARIABLES fifo,       \* the records on their way
          delivered,  \* the record OCC consumed last
          refused     \* has a record been refused?

FifoInit == fifo = <<>> /\ delivered = NoRecord /\ ~refused

Put == \E r \in Records :
    /\ ~refused /\ Len(fifo) < Capacity
    /\ fifo' = Append(fifo, r)
    /\ UNCHANGED <<delivered, refused>>

Refuse ==
    /\ Len(fifo) = Capacity
    /\ refused' = TRUE
    /\ UNCHANGED <<fifo, delivered>>

Get ==
    /\ fifo # <<>>
    /\ delivered' = Head(fifo) /\ fifo' = Tail(fifo)
    /\ UNCHANGED refused

FifoNext == Put \/ Refuse \/ Get

FifoSpec == FifoInit /\ [][FifoNext]_<<fifo, delivered, refused>>
=============================================================================
