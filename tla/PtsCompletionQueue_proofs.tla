---------------------- MODULE PtsCompletionQueue_proofs ----------------------
(***************************************************************************)
(* The completion queue implements the FIFO for any number of entries and  *)
(* any set of records.                                                     *)
(***************************************************************************)
EXTENDS PtsCompletionQueue, TLAPS

(***************************************************************************)
(* The inductive invariant: the slot after the write index is the writer's *)
(* from the check on, and the slot after the read index the reader's while *)
(* it holds a record.                                                      *)
(***************************************************************************)
WriterOK ==
    /\ writer.pc \in {"index", "check", "store", "publish"} => writer.record \in Records
    /\ writer.pc \in {"check", "store", "publish"} => writer.next = Wrap(writeIndex)
    /\ writer.pc \in {"store", "publish"} => writer.next # readIndex
    /\ writer.pc = "publish" => data[writer.next] = writer.record
    /\ refused => writer.pc = "killed"

ReaderOK == reader.holds => readIndex # writeIndex

Inv == TypeOK /\ WriterOK /\ ReaderOK /\ ReaderUndisturbed

LEMMA WrapSlot ==
    /\ \A i \in Slots : Wrap(i) \in Slots
    /\ \A i, j \in Slots : Wrap(i) = Wrap(j) => i = j
BY QueueAssumption DEF Wrap, Slots

LEMMA InvInit == Init => Inv
<1> SUFFICES ASSUME Init PROVE Inv
    OBVIOUS
<1>1. 0 \in Slots
    BY QueueAssumption DEF Slots
<1>2. TypeOK
    BY <1>1, Zenon DEF Init, TypeOK, WriterType, ReaderType
<1> QED BY <1>2 DEF Init, Inv, WriterOK, ReaderOK, ReaderUndisturbed

LEMMA InvStep == Inv /\ [Next]_vars => Inv'
<1> SUFFICES ASSUME Inv, [Next]_vars PROVE Inv'
    OBVIOUS
<1> USE DEF Inv, TypeOK, WriterType, ReaderType, WriterOK, ReaderOK, ReaderUndisturbed
<1>1. CASE Write
  <2>1. PICK r \in Records : writer' = [writer EXCEPT !.pc = "index", !.record = r]
    BY <1>1 DEF Write
  <2>2. writer' \in WriterType
    BY <2>1, Zenon
  <2> QED BY <1>1, <2>1, <2>2 DEF Write
<1>2. CASE NextIndex
    BY <1>2, WrapSlot DEF NextIndex
<1>3. CASE CheckRoom
    BY <1>3 DEF CheckRoom, Full
<1>4. CASE StoreRecord
  <2>1. reader.holds => Wrap(readIndex) # writer.next
    BY <1>4, WrapSlot DEF StoreRecord
  <2> QED BY <1>4, <2>1, WrapSlot DEF StoreRecord
<1>5. CASE Publish
    BY <1>5 DEF Publish
<1>6. CASE Killed
    BY <1>6 DEF Killed
<1>7. CASE ReadRecord
    BY <1>7, WrapSlot DEF ReadRecord
<1>8. CASE Release
    BY <1>8, WrapSlot DEF Release
<1>9. CASE UNCHANGED vars
    BY <1>9 DEF vars
<1> QED BY <1>1, <1>2, <1>3, <1>4, <1>5, <1>6, <1>7, <1>8, <1>9 DEF Next

(* Indices stay in the ring and the memory of the queue in its type.       *)
THEOREM QueueTypeCorrect == Spec => []TypeOK
<1>1. Inv => TypeOK
    BY DEF Inv
<1> QED BY <1>1, InvInit, InvStep, PTL DEF Spec

(* What OCC reads is not overwritten before OCC releases it.               *)
THEOREM ReadersRecordStays == Spec => []ReaderUndisturbed
<1>1. Inv => ReaderUndisturbed
    BY DEF Inv
<1> QED BY <1>1, InvInit, InvStep, PTL DEF Spec

-----------------------------------------------------------------------------
(* The refinement.                                                         *)

Values == Records \cup {NoRecord}

LEMMA SameSeq ==
    ASSUME NEW S, NEW s \in Seq(S), NEW t \in Seq(S), Len(s) = Len(t),
           \A k \in 1 .. Len(s) : s[k] = t[k]
    PROVE  s = t
OBVIOUS

QueuedOK ==
    /\ Used \in 0 .. Entries - 1
    /\ Queued \in Seq(Values) /\ Len(Queued) = Used
    /\ \A k \in 1 .. Used : SlotAt(k) \in Slots /\ Queued[k] = data[SlotAt(k)]
    /\ Used = 0 <=> readIndex = writeIndex
    /\ Used = Entries - 1 <=> Wrap(writeIndex) = readIndex

LEMMA QueuedIsSeq == Inv => QueuedOK
<1> SUFFICES ASSUME Inv PROVE QueuedOK
    OBVIOUS
<1> USE QueueAssumption DEF Inv, TypeOK, Slots
<1>1. Used \in 0 .. Entries - 1
  BY DEF Used
<1>2. \A k \in 1 .. Used : SlotAt(k) \in Slots
  BY DEF Used, SlotAt
<1>3. Queued \in Seq(Values) /\ Len(Queued) = Used
  BY <1>1, <1>2 DEF Queued, Values
<1>4. Used = 0 <=> readIndex = writeIndex
  BY DEF Used
<1>5. Used = Entries - 1 <=> Wrap(writeIndex) = readIndex
  BY DEF Used, Wrap
<1> QED BY <1>1, <1>2, <1>3, <1>4, <1>5 DEF Queued, QueuedOK

LEMMA QueuedIsSeqNext == Inv' => QueuedOK'
BY QueuedIsSeq, PTL

(* While neither index moves and no record in the queue is overwritten the *)
(* queue is the same.                                                      *)
LEMMA SameQueue ==
    ASSUME Inv, Inv', UNCHANGED <<readIndex, writeIndex>>,
           \A k \in 1 .. Used : data'[SlotAt(k)] = data[SlotAt(k)]
    PROVE  UNCHANGED Queued
<1>1. Used' = Used /\ \A k \in 1 .. Used : SlotAt(k)' = SlotAt(k)
  BY DEF Used, SlotAt
<1>2. Queued' = [k \in 1 .. Used |-> data'[SlotAt(k)]]
  BY <1>1, Zenon DEF Queued, SlotAt
<1> QED BY <1>2 DEF Queued

LEMMA StoreStutters == Inv /\ Inv' /\ StoreRecord => UNCHANGED Queued
<1> SUFFICES ASSUME Inv, Inv', StoreRecord PROVE UNCHANGED Queued
    OBVIOUS
<1>1. \A k \in 1 .. Used : SlotAt(k) # Wrap(writeIndex)
  BY QueueAssumption DEF Inv, TypeOK, Slots, Used, SlotAt, Wrap, WriterOK, StoreRecord
<1>2. \A k \in 1 .. Used : data'[SlotAt(k)] = data[SlotAt(k)]
  BY <1>1, QueuedIsSeq DEF Inv, TypeOK, WriterOK, StoreRecord, QueuedOK
<1> QED BY <1>2, SameQueue DEF StoreRecord

LEMMA PublishPuts == Inv /\ Inv' /\ Publish => Fifo!Put
<1> SUFFICES ASSUME Inv, Inv', Publish PROVE Fifo!Put
    OBVIOUS
<1> DEFINE r == writer.record
<1>1. /\ writer.next = Wrap(writeIndex) /\ writer.next # readIndex
      /\ writeIndex' = writer.next /\ readIndex' = readIndex
      /\ data' = data /\ data[writer.next] = r /\ r \in Records
      /\ UNCHANGED <<delivered, refused>> /\ ~refused
  BY DEF Inv, WriterOK, Publish
<1>2. Used' = Used + 1 /\ Used < Entries - 1
  <2>1. Used \in 0 .. Entries - 1 /\ Used # Entries - 1
    BY <1>1, QueuedIsSeq DEF QueuedOK
  <2>2. Used' = Used + 1
    BY <1>1, QueueAssumption DEF Inv, TypeOK, Slots, Used, Wrap
  <2> QED BY <2>1, <2>2, QueueAssumption
<1>3. \A k \in 1 .. Used : SlotAt(k)' = SlotAt(k)
  BY <1>1 DEF SlotAt
<1>4. SlotAt(Used)' = Wrap(writeIndex)
  BY <1>1, <1>2, QueueAssumption DEF Inv, TypeOK, Slots, Used, SlotAt, Wrap
<1>5. /\ Queued \in Seq(Values) /\ Len(Queued) = Used /\ Used \in Nat
      /\ \A k \in 1 .. Used : Queued[k] = data[SlotAt(k)]
  BY QueuedIsSeq, QueueAssumption DEF QueuedOK
<1>6. /\ Queued' \in Seq(Values) /\ Len(Queued') = Used + 1
      /\ \A k \in 1 .. Used + 1 : Queued'[k] = data'[SlotAt(k)']
  <2>1. /\ Queued' \in Seq(Values) /\ Len(Queued') = Used'
        /\ \A k \in 1 .. Used' : Queued'[k] = data'[SlotAt(k)']
    BY QueuedIsSeqNext DEF QueuedOK
  <2> QED BY <1>2, <2>1
<1>7. \A k \in 1 .. Used : Queued'[k] = Queued[k]
  BY <1>1, <1>3, <1>5, <1>6
<1>8. Queued'[Used + 1] = r
  BY <1>1, <1>2, <1>4, <1>5, <1>6
<1>9. Queued' = Append(Queued, r)
  <2>1. r \in Values
    BY <1>1 DEF Values
  <2>2. /\ Append(Queued, r) \in Seq(Values) /\ Len(Append(Queued, r)) = Used + 1
        /\ \A k \in 1 .. Used + 1 :
             Append(Queued, r)[k] = IF k = Used + 1 THEN r ELSE Queued[k]
    BY <1>5, <2>1
  <2>3. \A k \in 1 .. Used + 1 : Queued'[k] = Append(Queued, r)[k]
    BY <1>5, <1>7, <1>8, <2>2
  <2> QED BY <1>6, <2>2, <2>3, SameSeq
<1> QED BY <1>1, <1>2, <1>5, <1>9 DEF Fifo!Put

LEMMA ReleaseGets == Inv /\ Inv' /\ Release => Fifo!Get
<1> SUFFICES ASSUME Inv, Inv', Release PROVE Fifo!Get
    OBVIOUS
<1>1. /\ readIndex' = Wrap(readIndex) /\ writeIndex' = writeIndex
      /\ readIndex # writeIndex /\ data' = data
      /\ delivered' = data[Wrap(readIndex)] /\ refused' = refused
  BY DEF Inv, ReaderOK, ReaderUndisturbed, Release
<1>2. Used' = Used - 1 /\ Used > 0
  BY <1>1, QueueAssumption DEF Inv, TypeOK, Slots, Used, Wrap
<1>3. /\ SlotAt(1) = Wrap(readIndex)
      /\ \A k \in 1 .. Used' : SlotAt(k)' = SlotAt(k + 1)
  BY <1>1, QueueAssumption DEF Inv, TypeOK, Slots, Used, SlotAt, Wrap
<1>4. /\ Queued \in Seq(Values) /\ Len(Queued) = Used /\ Used \in Nat
      /\ \A k \in 1 .. Used : Queued[k] = data[SlotAt(k)]
  BY QueuedIsSeq, QueueAssumption DEF QueuedOK
<1>5. /\ Queued' \in Seq(Values) /\ Len(Queued') = Used - 1
      /\ \A k \in 1 .. Used - 1 : Queued'[k] = data'[SlotAt(k)']
  BY <1>2, QueuedIsSeqNext DEF QueuedOK
<1>6. Queued # <<>> /\ Head(Queued) = delivered'
  BY <1>1, <1>2, <1>3, <1>4
<1>7. Queued' = Tail(Queued)
  <2>1. /\ Tail(Queued) \in Seq(Values) /\ Len(Tail(Queued)) = Used - 1
        /\ \A k \in 1 .. Used - 1 : Tail(Queued)[k] = Queued[k + 1]
    BY <1>2, <1>4
  <2>2. \A k \in 1 .. Used - 1 : Queued'[k] = Queued[k + 1]
    BY <1>1, <1>2, <1>3, <1>4, <1>5
  <2> QED BY <1>5, <2>1, <2>2, SameSeq
<1> QED BY <1>1, <1>6, <1>7 DEF Fifo!Get

LEMMA CheckRefuses == Inv /\ Inv' /\ CheckRoom =>
                          Fifo!Refuse \/ UNCHANGED <<Queued, delivered, refused>>
<1> SUFFICES ASSUME Inv, Inv', CheckRoom
             PROVE  Fifo!Refuse \/ UNCHANGED <<Queued, delivered, refused>>
    OBVIOUS
<1>1. UNCHANGED Queued
  BY SameQueue DEF CheckRoom
<1>2. CASE Full
  <2>1. Wrap(writeIndex) = readIndex /\ refused' = TRUE
    BY <1>2 DEF Inv, WriterOK, CheckRoom, Full
  <2> QED BY <1>1, <2>1, QueuedIsSeq DEF QueuedOK, CheckRoom, Fifo!Refuse
<1>3. CASE ~Full
  BY <1>1, <1>3 DEF Inv, TypeOK, WriterOK, CheckRoom
<1> QED BY <1>2, <1>3

(* Every step of the two sides is a step of the FIFO or none.              *)
LEMMA StepRefines == Inv /\ Inv' /\ [Next]_vars
                         => [Fifo!FifoNext]_<<Queued, delivered, refused>>
<1> SUFFICES ASSUME Inv, Inv', [Next]_vars
             PROVE  Fifo!FifoNext \/ UNCHANGED <<Queued, delivered, refused>>
    OBVIOUS
<1>1. CASE Write \/ NextIndex \/ Killed \/ ReadRecord \/ UNCHANGED vars
  <2>1. UNCHANGED <<data, readIndex, writeIndex, delivered, refused>>
    BY <1>1 DEF Write, NextIndex, Killed, ReadRecord, vars
  <2> QED BY <2>1, SameQueue
<1>2. CASE CheckRoom
  BY <1>2, CheckRefuses DEF Fifo!FifoNext
<1>3. CASE StoreRecord
  BY <1>3, StoreStutters DEF StoreRecord
<1>4. CASE Publish
  BY <1>4, PublishPuts DEF Fifo!FifoNext
<1>5. CASE Release
  BY <1>5, ReleaseGets DEF Fifo!FifoNext
<1> QED BY <1>1, <1>2, <1>3, <1>4, <1>5 DEF Next

LEMMA InitRefines == Init => Fifo!FifoInit
<1> SUFFICES ASSUME Init PROVE Fifo!FifoInit
    OBVIOUS
<1>1. Queued \in Seq(Values) /\ Len(Queued) = 0
  BY InvInit, QueuedIsSeq DEF Init, QueuedOK
<1> QED BY <1>1 DEF Init, Fifo!FifoInit

(* The completion queue is a FIFO of Entries - 1 records that refuses a    *)
(* record only when it is full, whatever the number of entries.            *)
THEOREM QueueImplementsFifo == Spec => ImplementsFifo
<1>1. Inv /\ [Next]_vars => [Fifo!FifoNext]_<<Queued, delivered, refused>>
    BY InvStep, StepRefines
<1> QED BY <1>1, InvInit, InvStep, InitRefines, PTL DEF Spec, ImplementsFifo, Fifo!FifoSpec
=============================================================================
