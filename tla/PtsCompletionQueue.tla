------------------------- MODULE PtsCompletionQueue -------------------------
(***************************************************************************)
(* The completion queue of pts_command.h as _ptsWriteCompletionRecord      *)
(* (pts_command.S) fills it and the OCC empties it: a circular buffer with *)
(* a read and a write index, empty when they are equal.  Both indices name *)
(* the slot used last, so slot 0 is the last one to be written.  PTS and   *)
(* the OCC run in parallel and share nothing but the memory of the queue;  *)
(* an error of PTS can end it between any two of its stores.               *)
(***************************************************************************)
EXTENDS Naturals, Sequences

CONSTANTS
    Records,    \* the PtsCompletion values
    NoRecord,   \* what a slot holds before it is written
    Entries     \* the number of 8-byte entries

(* ptsDeclareCompletionQueue refuses a queue of less than 2 entries.       *)
ASSUME QueueAssumption == Entries \in Nat \ {0, 1} /\ NoRecord \notin Records

Slots == 0 .. Entries - 1

VARIABLES
    data,        \* the ring
    readIndex, writeIndex,
    writer,      \* PTS in _ptsWriteCompletionRecord: where, record, index
    reader,      \* the OCC: holding a record it has not yet released?
    delivered,   \* the record OCC consumed last
    refused      \* has _ptsKillPts been called with PTS_COMPLETION_QUEUE_FULL?
vars == <<data, readIndex, writeIndex, writer, reader, delivered, refused>>

WriterType == [pc : {"idle", "index", "check", "store", "publish", "killed"},
               record : Records \cup {NoRecord}, next : Slots]
ReaderType == [holds : BOOLEAN, record : Records \cup {NoRecord}]

TypeOK ==
    /\ data \in [Slots -> Records \cup {NoRecord}]
    /\ readIndex \in Slots /\ writeIndex \in Slots
    /\ writer \in WriterType /\ reader \in ReaderType
    /\ delivered \in Records \cup {NoRecord}
    /\ refused \in BOOLEAN

Init ==
    /\ data = [i \in Slots |-> NoRecord]
    /\ readIndex = 0 /\ writeIndex = 0
    /\ writer = [pc |-> "idle", record |-> NoRecord, next |-> 0]
    /\ reader = [holds |-> FALSE, record |-> NoRecord]
    /\ delivered = NoRecord /\ refused = FALSE

(* The index after i, modulo the number of entries.                        *)
Wrap(i) == IF i + 1 = Entries THEN 0 ELSE i + 1

(***************************************************************************)
(* _ptsWriteCompletionRecord: keep the record in memory, compute the next  *)
(* write index, check for a full queue, store the record at that index,    *)
(* then publish the index.                                                 *)
(***************************************************************************)
Write == \E r \in Records :
    /\ writer.pc = "idle"
    /\ writer' = [writer EXCEPT !.pc = "index", !.record = r]
    /\ UNCHANGED <<data, readIndex, writeIndex, reader, delivered, refused>>

NextIndex ==
    /\ writer.pc = "index"
    /\ writer' = [writer EXCEPT !.pc = "check", !.next = Wrap(writeIndex)]
    /\ UNCHANGED <<data, readIndex, writeIndex, reader, delivered, refused>>

MutantFull == FALSE
Full == writer.next = readIndex

CheckRoom ==
    /\ writer.pc = "check"
    /\ writer' = [writer EXCEPT !.pc = IF Full THEN "killed" ELSE "store"]
    /\ refused' = Full
    /\ UNCHANGED <<data, readIndex, writeIndex, reader, delivered>>

StoreRecord ==
    /\ writer.pc = "store"
    /\ data' = [data EXCEPT ![writer.next] = writer.record]
    /\ writer' = [writer EXCEPT !.pc = "publish"]
    /\ UNCHANGED <<readIndex, writeIndex, reader, delivered, refused>>

Publish ==
    /\ writer.pc = "publish"
    /\ writeIndex' = writer.next
    /\ writer' = [writer EXCEPT !.pc = "idle"]
    /\ UNCHANGED <<data, readIndex, reader, delivered, refused>>

(* An error in the routine: _ptsKillPts, from which it does not return.    *)
Killed ==
    /\ writer.pc \in {"index", "check", "store", "publish"}
    /\ writer' = [writer EXCEPT !.pc = "killed"]
    /\ UNCHANGED <<data, readIndex, writeIndex, reader, delivered, refused>>

(***************************************************************************)
(* The OCC's handler, which is not part of this repository: a record is    *)
(* read from the slot after the read index, then its slot is released.     *)
(***************************************************************************)
ReadRecord ==
    /\ ~reader.holds /\ readIndex # writeIndex
    /\ reader' = [holds |-> TRUE, record |-> data[Wrap(readIndex)]]
    /\ UNCHANGED <<data, readIndex, writeIndex, writer, delivered, refused>>

Release ==
    /\ reader.holds
    /\ readIndex' = Wrap(readIndex)
    /\ reader' = [reader EXCEPT !.holds = FALSE]
    /\ delivered' = reader.record
    /\ UNCHANGED <<data, writeIndex, writer, refused>>

Next == \/ Write \/ NextIndex \/ CheckRoom \/ StoreRecord \/ Publish \/ Killed
        \/ ReadRecord \/ Release

Spec == Init /\ [][Next]_vars

-----------------------------------------------------------------------------
(* The records between the two indices, oldest first.                      *)
Used == IF readIndex <= writeIndex THEN writeIndex - readIndex
        ELSE (writeIndex + Entries) - readIndex
SlotAt(k) == IF readIndex + k < Entries THEN readIndex + k
             ELSE (readIndex + k) - Entries
Queued == [k \in 1 .. Used |-> data[SlotAt(k)]]

(* The queue is a FIFO of Entries - 1 records: none is lost, duplicated,   *)
(* torn or reordered, however the two sides interleave, and PTS is killed  *)
(* for a full queue only when all of these are in use.                     *)
Fifo == INSTANCE CompletionFifo WITH fifo <- Queued, Capacity <- Entries - 1
ImplementsFifo == Fifo!FifoSpec

(* The record OCC reads stays in its slot until OCC releases it, though    *)
(* PTS may wrap around in the meantime.                                    *)
ReaderUndisturbed == reader.holds => data[Wrap(readIndex)] = reader.record
=============================================================================
