------------------------ MODULE UploadSessionProofs ------------------------
(***************************************************************************)
(* Proofs about UploadSession for every value of its constants: its types, *)
(* the books it keeps on Telegram's documents and its bound on buffers,    *)
(* which handler may stand where, and where every document is remembered.  *)
(***************************************************************************)
EXTENDS UploadSessionInv, SequenceTheorems, TLAPS

-----------------------------------------------------------------------------
(* Types *)

\* The empty sequence has every sequence type.
LEMMA EmptyType == ASSUME NEW S PROVE <<>> \in Seq(S)
OBVIOUS

\* Appending keeps the type of a sequence.
LEMMA AppendType ==
    ASSUME NEW S, NEW s \in Seq(S), NEW e \in S
    PROVE  Append(s, e) \in Seq(S)
OBVIOUS

\* Concatenating keeps the type of a sequence.
LEMMA ConcatType ==
    ASSUME NEW S, NEW s \in Seq(S), NEW t \in Seq(S)
    PROVE  s \o t \in Seq(S)
OBVIOUS

\* Replacing an element keeps the type of a sequence.
LEMMA UpdateType ==
    ASSUME NEW S, NEW s \in Seq(S), NEW i \in DOMAIN s, NEW e \in S
    PROVE  [s EXCEPT ![i] = e] \in Seq(S)
OBVIOUS

\* A span is a sequence of file positions.
LEMMA SpanType ==
    ASSUME NEW a \in Nat, NEW n \in Nat
    PROVE  /\ Span(a, n) \in Seq(Nat)
           /\ Len(Span(a, n)) = n
BY DEF Span

\* One turn of receive() takes no more than the block has and the chunk can hold.
LEMMA TakeType ==
    ASSUME TypeInv
    PROVE  /\ Take \in Nat
           /\ Take <= todo
           /\ chunkWritten + Take <= ChunkSize
           /\ todo - Take \in Nat
BY SessionAssumption DEF TypeInv, TypeOK, CallType, ChunkType, Take, Least

\* Counting a failure keeps the counter a number.
LEMMA FaultType ==
    ASSUME TypeOK, Fault
    PROVE  faults' \in Nat
BY DEF Fault, TypeOK

\* Deleting documents only moves them from Telegram to the list of the lost.
LEMMA RemoveChunksType ==
    ASSUME NEW docs, TypeOK, RemoveChunks(docs), UNCHANGED posted
    PROVE  TgType' /\ faults' \in Nat
<1>1. PICK kept \in SUBSET (docs \cap live) :
          /\ live' = live \ (docs \ kept)
          /\ lost' = lost \cup kept
          /\ IF kept = {} THEN UNCHANGED faults ELSE Fault
  BY DEF RemoveChunks
<1>2. faults' \in Nat
  BY <1>1, FaultType DEF TypeOK
<1>3. TgType'
  BY <1>1 DEF TypeOK, TgType
<1>4. QED
  BY <1>2, <1>3

\* What an action leaves alone keeps its type.
LEMMA Frame ==
    ASSUME TypeOK
    PROVE  /\ UNCHANGED flagVars => FlagType'
           /\ UNCHANGED callVars => CallType'
           /\ UNCHANGED chunkVars => ChunkType'
           /\ UNCHANGED markVars => MarkType'
           /\ UNCHANGED flightVars => FlightType'
           /\ UNCHANGED keptVars => KeptType'
           /\ UNCHANGED tgVars => TgType'
           /\ UNCHANGED dbVars => DbType'
<1>1. UNCHANGED flagVars => FlagType'
  BY DEF TypeOK, FlagType, flagVars
<1>2. UNCHANGED callVars => CallType'
  BY DEF TypeOK, CallType, callVars
<1>3. UNCHANGED chunkVars => ChunkType'
  BY DEF TypeOK, ChunkType, chunkVars
<1>4. UNCHANGED markVars => MarkType'
  BY DEF TypeOK, MarkType, markVars
<1>5. UNCHANGED flightVars => FlightType'
  BY DEF TypeOK, FlightType, flightVars
<1>6. UNCHANGED keptVars => KeptType'
  BY DEF TypeOK, KeptType, keptVars
<1>7. UNCHANGED tgVars => TgType'
  BY DEF TypeOK, TgType, tgVars
<1>8. UNCHANGED dbVars => DbType'
  BY DEF TypeOK, DbType, dbVars
<1>9. QED
  BY <1>1, <1>2, <1>3, <1>4, <1>5, <1>6, <1>7, <1>8

\* The handler's own variables stay in range however it moves.
LEMMA CallSteps ==
    ASSUME TypeOK
    PROVE  /\ Return => CallType'
           /\ \A where \in Places : Goto(where) => CallType'
           /\ \A left \in Nat : pc \in Places /\ Continue(left) => CallType'
BY DEF TypeOK, CallType, Return, Goto, Continue, Places

\* After an error the session is in one of its states.
LEMMA AfterErrorType ==
    ASSUME NEW kind
    PROVE  AfterError(kind) \in States
BY DEF AfterError, States

\* Dropping the buffer keeps the types of its parts.
LEMMA DropBufferType ==
    ASSUME DropBuffer
    PROVE  opened' \in BOOLEAN /\ buffer' \in Seq(Nat) /\ fullPart' \in BOOLEAN
<1>1. buffer' \in Seq(Nat)
  BY EmptyType DEF DropBuffer
<1>2. QED
  BY <1>1 DEF DropBuffer

\* A new record keeps the type of the chunk list and of uploaded_.
LEMMA KeepRecordType ==
    ASSUME TypeOK, NEW index \in Nat, NEW offset \in Nat, NEW size \in Nat,
           NEW doc \in Nat, KeepRecord(index, offset, size, doc)
    PROVE  KeptType'
<1>1. [index |-> index, offset |-> offset, size |-> size, doc |-> doc] \in Record
  BY DEF Record
<1>2. chunkRecords' \in Seq(Record)
  BY <1>1 DEF KeepRecord, TypeOK, KeptType
<1>3. QED
  BY <1>2 DEF KeepRecord, TypeOK, KeptType

\* Handing a chunk to a thread keeps the types and empties the chunk.
LEMMA GiaoManhType ==
    ASSUME TypeInv, GiaoManhChoNen
    PROVE  ChunkType' /\ FlightType' /\ chunkWritten' = 0
<1> DEFINE m == [index |-> chunkIndex, offset |-> chunkOffset, size |-> chunkWritten,
                 data |-> buffer, hash |-> hasher, pc |-> "pushing", doc |-> 0]
<1>1. m \in Piece
  BY DEF TypeInv, TypeOK, ChunkType, MarkType, Piece
<1>2. dangBay' \in Seq(Piece)
  BY <1>1 DEF GiaoManhChoNen, TypeInv, TypeOK, FlightType
<1>3. FlightType'
  BY <1>2 DEF GiaoManhChoNen, TypeInv, TypeOK, FlightType
<1>4. ChunkType' /\ chunkWritten' = 0
  BY DropBufferType DEF GiaoManhChoNen, TypeInv, TypeOK, ChunkType, ChunkEnd
<1>5. QED
  BY <1>3, <1>4

\* The oldest piece is a piece, and so are those behind it.
LEMMA HeadType ==
    ASSUME TypeOK, HeadLanded
    PROVE  /\ dangBay[1] \in Piece
           /\ dangBay[1].pc \in Settled
           /\ Tail(dangBay) \in Seq(Piece)
BY DEF TypeOK, FlightType, HeadLanded

\* uploaded_ remains a set of documents when a piece is taken back.
LEMMA KeepForRollbackType ==
    ASSUME TypeOK, HeadLanded
    PROVE  KeepForRollback(dangBay[1]) \in SUBSET Nat
BY HeadType DEF TypeOK, KeptType, KeepForRollback, Piece

\* Taking a piece back keeps the types of what it writes.
LEMMA ThuMotManhType ==
    ASSUME TypeOK, ThuMotManh
    PROVE  /\ FlightType' /\ KeptType'
           /\ committedBytes' \in Nat /\ hasherCommitted' \in Seq(Nat)
<1> DEFINE m == dangBay[1]
<1>1. HeadLanded
  BY DEF ThuMotManh
<1>2. m \in Piece /\ m.pc \in Settled /\ dangBay' \in Seq(Piece)
  BY <1>1, HeadType DEF ThuMotManh
<1>3. CASE manhHong \/ m.pc # "ok"
  <2>1. KeptType'
    BY <1>1, <1>3, KeepForRollbackType DEF ThuMotManh, TypeOK, KeptType
  <2>2. loiManhDau' \in Kinds \cup {"none"} /\ manhHong' \in BOOLEAN
    BY <1>2, <1>3 DEF ThuMotManh, TypeOK, FlightType, Settled
  <2>3. QED
    BY <1>2, <1>3, <2>1, <2>2 DEF ThuMotManh, TypeOK, FlightType, MarkType
<1>4. CASE ~(manhHong \/ m.pc # "ok")
  <2>1. KeptType'
    BY <1>2, <1>4, KeepRecordType DEF ThuMotManh, Piece
  <2>2. committedBytes' \in Nat /\ hasherCommitted' \in Seq(Nat)
    BY <1>2, <1>4 DEF ThuMotManh, Piece
  <2>3. QED
    BY <1>2, <1>4, <2>1, <2>2 DEF ThuMotManh, TypeOK, FlightType
<1>5. QED
  BY <1>3, <1>4

\* Settling the pieces keeps the types, stepping back or not.
LEMMA ThuHetManhType ==
    ASSUME TypeInv, ThuHetManh
    PROVE  ChunkType' /\ MarkType' /\ FlightType' /\ chunkWritten' <= ChunkSize
<1>1. CASE manhHong
  <2>1. NextIndex \in Nat
    <3>1. chunkRecords # <<>> => chunkRecords[Len(chunkRecords)] \in Record
      BY DEF TypeInv, TypeOK, KeptType
    <3>2. QED
      BY <3>1 DEF NextIndex, Record
  <2>2. FlightType'
    BY <1>1 DEF ThuHetManh, LuiMoc, StepBackTo, TypeInv, TypeOK, FlightType
  <2>3. QED
    BY <1>1, <2>1, <2>2, SessionAssumption, DropBufferType
    DEF ThuHetManh, LuiMoc, StepBackTo, TypeInv, TypeOK, ChunkType, MarkType
<1>2. CASE ~manhHong
  BY <1>2, Frame DEF ThuHetManh, TypeInv, TypeOK, chunkVars
<1>3. QED
  BY <1>1, <1>2

\* The types hold at the start.
LEMMA TypeInit == Init => TypeInv
<1> SUFFICES ASSUME Init PROVE TypeInv
  OBVIOUS
<1>1. FlagType /\ CallType /\ ChunkType /\ FlightType /\ KeptType /\ MarkType
  BY EmptyType
  DEF Init, FlagType, CallType, ChunkType, FlightType, KeptType, MarkType, States
<1>2. TgType
  <2>1. Span(0, Total) \in Seq(Nat) /\ <<Total>> \in Seq(Nat)
    BY SpanType, SessionAssumption
  <2>2. QED
    BY <2>1 DEF Init, TgType, Foreign, Twin, Old
<1>3. DbType
  BY EmptyType DEF Init, DbType, NoFile
<1>4. QED
  BY <1>1, <1>2, <1>3, SessionAssumption DEF Init, TypeInv, TypeOK

\* The steps of receive() keep the types and never overfill a chunk.
LEMMA ReceiveStepType ==
    ASSUME TypeInv,
           \/ ReceiveStopped \/ OpenChunk \/ OpenChunkFails \/ AppendBytes \/ SpoolFails
           \/ StreamFails
    PROVE  TypeInv'
<1> USE DEF TypeInv
<1>1. CASE ReceiveStopped
  <2>1. FlagType'
    BY <1>1, AfterErrorType DEF ReceiveStopped, TypeOK, FlagType
  <2>2. QED
    BY <1>1, <2>1, CallSteps, Frame DEF ReceiveStopped, TypeOK, chunkVars
<1>2. CASE OpenChunk
  <2>1. ChunkType' /\ chunkWritten' <= ChunkSize
    <3>1. buffer' \in Seq(Nat)
      BY <1>2, EmptyType DEF OpenChunk
    <3>2. opened' \in BOOLEAN /\ fullPart' \in BOOLEAN
      BY <1>2 DEF OpenChunk
    <3>3. /\ chunkIndex' \in Nat /\ chunkOffset' \in Nat /\ chunkWritten' \in Nat
          /\ chunkWritten' <= ChunkSize
      BY <1>2, SessionAssumption DEF OpenChunk, TypeOK, ChunkType
    <3>4. QED
      BY <3>1, <3>2, <3>3 DEF ChunkType
  <2>2. QED
    BY <1>2, <2>1, Frame DEF OpenChunk, TypeOK
<1>3. CASE OpenChunkFails
  <2>1. FlagType'
    BY <1>3, AfterErrorType DEF OpenChunkFails, TypeOK, FlagType
  <2>2. QED
    BY <1>3, <2>1, CallSteps, Frame, FaultType DEF OpenChunkFails, TypeOK, chunkVars
<1>4. CASE AppendBytes
  <2>1. Span(cursor, Take) \in Seq(Nat)
    BY TakeType, SpanType DEF TypeOK, CallType
  <2>2. ChunkType' /\ chunkWritten' <= ChunkSize
    <3>1. buffer' \in Seq(Nat)
      BY <1>4, <2>1 DEF AppendBytes, TypeOK, ChunkType
    <3>2. opened' \in BOOLEAN /\ fullPart' \in BOOLEAN
      BY <1>4 DEF AppendBytes, TypeOK, ChunkType
    <3>3. /\ chunkIndex' \in Nat /\ chunkOffset' \in Nat /\ chunkWritten' \in Nat
          /\ chunkWritten' <= ChunkSize
      BY <1>4, TakeType DEF AppendBytes, TypeOK, ChunkType
    <3>4. QED
      BY <3>1, <3>2, <3>3 DEF ChunkType
  <2>3. MarkType'
    BY <1>4, <2>1, TakeType DEF AppendBytes, TypeOK, MarkType
  <2>4. CallType'
    <3>1. CASE chunkWritten + Take >= ChunkSize
      BY <1>4, <3>1, TakeType DEF AppendBytes, TypeOK, CallType, Places
    <3>2. CASE ~(chunkWritten + Take >= ChunkSize)
      BY <1>4, <3>2, CallSteps DEF AppendBytes
    <3>3. QED
      BY <3>1, <3>2
  <2>5. QED
    BY <1>4, <2>2, <2>3, <2>4, Frame DEF AppendBytes, TypeOK
<1>5. CASE SpoolFails
  <2>1. FlagType' /\ CallType'
    <3>1. CASE Parallel > 1 /\ dangBay # <<>>
      BY <1>5, <3>1 DEF SpoolFails, ReportError, TypeOK, FlagType, CallType, Kinds, Places
    <3>2. CASE ~(Parallel > 1 /\ dangBay # <<>>)
      BY <1>5, <3>2, CallSteps, AfterErrorType DEF SpoolFails, ReportError, TypeOK, FlagType
    <3>3. QED
      BY <3>1, <3>2
  <2>2. QED
    BY <1>5, <2>1, Frame, FaultType DEF SpoolFails, TypeOK, chunkVars
<1>6. CASE StreamFails
  <2>1. PICK r \in 0..Take : buffer' = buffer \o Span(cursor, r) /\ fullPart' = TRUE
    BY <1>6 DEF StreamFails
  <2>2. Span(cursor, r) \in Seq(Nat)
    BY <2>1, TakeType, SpanType DEF TypeOK, CallType
  <2>3. ChunkType' /\ chunkWritten' <= ChunkSize
    BY <1>6, <2>1, <2>2 DEF StreamFails, TypeOK, ChunkType
  <2>4. FlagType' /\ faults' \in Nat
    BY <1>6, AfterErrorType, FaultType DEF StreamFails, TypeOK, FlagType
  <2>5. QED
    BY <1>6, <2>3, <2>4, CallSteps, Frame DEF StreamFails, TypeOK
<1>7. QED
  BY <1>1, <1>2, <1>3, <1>4, <1>5, <1>6

\* The steps that close a chunk keep the types.
LEMMA CloseStepType ==
    ASSUME TypeInv, HandOff \/ ChunkClosed \/ CloseChunkFails
    PROVE  TypeInv'
<1> USE DEF TypeInv
<1> todo \in Nat /\ Len(dangBay) \in Nat /\ Len(posted) \in Nat
  BY DEF TypeOK, CallType, FlightType, TgType
<1>0. Len(posted) + 1 \in Nat /\ live \in SUBSET Nat /\ lost \in SUBSET Nat
  BY DEF TypeOK, TgType
<1>1. CASE HandOff
  <2>1. CallType'
    BY <1>1, CallSteps DEF HandOff, Places
  <2>2. ChunkType' /\ FlightType' /\ chunkWritten' <= ChunkSize
    BY <1>1, GiaoManhType, SessionAssumption DEF HandOff
  <2>3. QED
    BY <1>1, <2>1, <2>2, Frame DEF HandOff, TypeOK
<1>2. CASE ChunkClosed
  <2> DEFINE doc == Len(posted) + 1
  <2>1. TgType'
    <3>1. posted' \in Seq(Seq(Nat))
      BY <1>2, AppendType DEF ChunkClosed, TypeOK, TgType, ChunkType
    <3>2. live' \in SUBSET Nat /\ lost' \in SUBSET Nat
      BY <1>0, <1>2 DEF ChunkClosed
    <3>3. QED
      BY <3>1, <3>2 DEF TgType
  <2>2. KeptType'
    BY <1>2, KeepRecordType DEF ChunkClosed, TypeOK, ChunkType
  <2>3. ChunkType' /\ chunkWritten' <= ChunkSize
    BY <1>2, DropBufferType, SessionAssumption DEF ChunkClosed, TypeOK, ChunkType, ChunkEnd
  <2>4. MarkType'
    BY <1>2 DEF ChunkClosed, TypeOK, MarkType, ChunkType, ChunkEnd
  <2>5. CallType'
    BY <1>2, CallSteps DEF ChunkClosed, Places
  <2>6. QED
    BY <1>2, <2>1, <2>2, <2>3, <2>4, <2>5, Frame DEF ChunkClosed, TypeOK
<1>3. CASE CloseChunkFails
  <2>1. TgType'
    <3>1. CASE UNCHANGED tgVars
      BY <3>1, Frame
    <3>2. CASE /\ posted' = Append(posted, buffer)
               /\ live' = live \cup {Len(posted) + 1}
               /\ lost' = lost \cup {Len(posted) + 1}
      <4>1. posted' \in Seq(Seq(Nat))
        BY <3>2, AppendType DEF TypeOK, TgType, ChunkType
      <4>2. live' \in SUBSET Nat /\ lost' \in SUBSET Nat
        BY <1>0, <3>2
      <4>3. QED
        BY <4>1, <4>2 DEF TgType
    <3>3. QED
      BY <1>3, <3>1, <3>2 DEF CloseChunkFails
  <2>2. FlagType' /\ faults' \in Nat
    BY <1>3, AfterErrorType, FaultType DEF CloseChunkFails, TypeOK, FlagType
  <2>3. ChunkType' /\ chunkWritten' <= ChunkSize
    BY <1>3, DropBufferType DEF CloseChunkFails, TypeOK, ChunkType
  <2>4. QED
    BY <1>3, <2>1, <2>2, <2>3, CallSteps, Frame DEF CloseChunkFails, TypeOK
<1>4. QED
  BY <1>1, <1>2, <1>3

\* The steps that take pieces back keep the types.
LEMMA DrainStepType ==
    ASSUME TypeInv,
           \/ Harvest \/ Drain \/ ReceiveDrained \/ ChotSoDrained \/ CompleteDrained
           \/ CancelDrained
    PROVE  TypeInv'
<1> USE DEF TypeInv
<1> todo \in Nat /\ Len(dangBay) \in Nat
  BY DEF TypeOK, CallType, FlightType
<1>1. CASE Harvest
  <2>1. FlightType' /\ KeptType' /\ MarkType'
    BY <1>1, ThuMotManhType DEF Harvest, TypeOK, MarkType
  <2>2. CallType'
    <3>1. CASE manhHong'
      BY <1>1, <2>1, <3>1 DEF Harvest, TypeOK, CallType, FlightType, Places
    <3>2. CASE ~manhHong' /\ InFlightFull(Len(dangBay) - 1)
      BY <1>1, <3>2, Frame DEF Harvest
    <3>3. CASE ~manhHong' /\ ~InFlightFull(Len(dangBay) - 1)
      BY <1>1, <3>3, CallSteps DEF Harvest, Places
    <3>4. QED
      BY <3>1, <3>2, <3>3
  <2>3. QED
    BY <1>1, <2>1, <2>2, Frame DEF Harvest, TypeOK, chunkVars
<1>2. CASE Drain
  <2>1. FlightType' /\ KeptType' /\ MarkType'
    <3>1. CASE caller = "cancel"
      BY <1>2, <3>1, HeadType, KeepForRollbackType
      DEF Drain, TypeOK, FlightType, KeptType, MarkType
    <3>2. CASE caller # "cancel"
      BY <1>2, <3>2, ThuMotManhType DEF Drain, TypeOK, MarkType
    <3>3. QED
      BY <3>1, <3>2
  <2>2. QED
    BY <1>2, <2>1, Frame DEF Drain, TypeOK, chunkVars
<1>3. CASE ReceiveDrained
  <2>1. FlagType'
    BY <1>3, AfterErrorType DEF ReceiveDrained, TypeOK, FlagType
  <2>2. QED
    BY <1>3, <2>1, ThuHetManhType, CallSteps, Frame DEF ReceiveDrained, TypeOK
<1>4. CASE ChotSoDrained
  BY <1>4, ThuHetManhType, CallSteps, Frame DEF ChotSoDrained, TypeOK
<1>5. CASE CompleteDrained
  <2>1. FlagType'
    BY <1>5, AfterErrorType DEF CompleteDrained, TypeOK, FlagType
  <2>2. CallType'
    BY <1>5, CallSteps DEF CompleteDrained, Places
  <2>3. QED
    BY <1>5, <2>1, <2>2, ThuHetManhType, Frame DEF CompleteDrained, TypeOK
<1>6. CASE CancelDrained
  <2>1. TgType' /\ faults' \in Nat
    BY <1>6, RemoveChunksType DEF CancelDrained, Rollback
  <2>2. KeptType'
    BY <1>6, EmptyType DEF CancelDrained, Rollback, TypeOK, KeptType
  <2>3. ChunkType' /\ chunkWritten' <= ChunkSize
    BY <1>6, DropBufferType DEF CancelDrained, TypeOK, ChunkType
  <2>4. QED
    BY <1>6, <2>1, <2>2, <2>3, CallSteps, Frame DEF CancelDrained, TypeOK
<1>7. QED
  BY <1>1, <1>2, <1>3, <1>4, <1>5, <1>6

\* The steps that save the file keep the types.
LEMMA SaveStepType ==
    ASSUME TypeInv,
           \/ NoTwin \/ TakeTwin \/ CopyTwinRows \/ KeepOthers \/ PurgeOld \/ WriteEntry
           \/ AddChunk \/ DatabaseFails \/ Finish
    PROVE  TypeInv'
<1> USE DEF TypeInv
<1>1. CASE NoTwin
  BY <1>1, CallSteps, Frame DEF NoTwin, Places, TypeOK, chunkVars
<1>2. CASE TakeTwin
  <2>1. KeptType'
    BY <1>2 DEF TakeTwin, TypeOK, KeptType
  <2>2. QED
    BY <1>2, <2>1, RemoveChunksType, CallSteps, Frame DEF TakeTwin, Places, TypeOK, chunkVars
<1>3. CASE CopyTwinRows
  <2>1. TwinRows \in Seq(Record)
    BY SessionAssumption DEF TwinRows, Record, Twin
  <2>2. KeptType' /\ faults' \in Nat
    BY <1>3, <2>1, FaultType DEF CopyTwinRows, TypeOK, KeptType
  <2>3. QED
    BY <1>3, <2>2, CallSteps, Frame DEF CopyTwinRows, Places, TypeOK, chunkVars
<1>4. CASE KeepOthers
  BY <1>4, CallSteps, Frame DEF KeepOthers, Places, TypeOK, chunkVars
<1>5. CASE PurgeOld
  BY <1>5, RemoveChunksType, CallSteps, Frame DEF PurgeOld, Places, TypeOK, chunkVars
<1>6. CASE WriteEntry
  <2>1. DbType'
    BY <1>6 DEF WriteEntry, TypeOK, DbType, MarkType
  <2>2. QED
    BY <1>6, <2>1, CallSteps, Frame DEF WriteEntry, Places, TypeOK, chunkVars
<1>7. CASE AddChunk
  <2>1. Len(rows) + 1 \in DOMAIN chunkRecords
    BY <1>7 DEF AddChunk, TypeOK, DbType, KeptType
  <2>2. chunkRecords[Len(rows) + 1] \in Record
    BY <2>1 DEF TypeOK, KeptType
  <2>3. DbType'
    BY <1>7, <2>2 DEF AddChunk, TypeOK, DbType
  <2>4. QED
    BY <1>7, <2>3, CallSteps, Frame DEF AddChunk, Places, TypeOK, chunkVars
<1>8. CASE DatabaseFails
  <2>1. FlagType'
    BY <1>8 DEF DatabaseFails, TypeOK, FlagType, States
  <2>2. QED
    BY <1>8, <2>1, CallSteps, Frame, FaultType DEF DatabaseFails, TypeOK, chunkVars
<1>9. CASE Finish
  <2>1. FlagType' /\ DbType' /\ KeptType'
    BY <1>9 DEF Finish, TypeOK, FlagType, DbType, KeptType, States
  <2>2. QED
    BY <1>9, <2>1, RemoveChunksType, CallSteps, Frame DEF Finish, TypeOK, chunkVars
<1>10. QED
  BY <1>1, <1>2, <1>3, <1>4, <1>5, <1>6, <1>7, <1>8, <1>9

\* The steps of the background threads keep the types.
LEMMA PieceStepType ==
    ASSUME TypeInv, PieceStep
    PROVE  TypeInv'
<1> USE DEF TypeInv
<1>1. PICK i \in DOMAIN dangBay : PushPiece(i) \/ FinishPiece(i)
  BY DEF PieceStep
<1>2. dangBay[i] \in Piece
  BY DEF TypeOK, FlightType
<1>3. ASSUME NEW how \in {"finishing"} \cup Settled, PieceEnds(i, how)
      PROVE  dangBay' \in Seq(Piece)
  <2> DEFINE m == [dangBay[i] EXCEPT !.pc = how]
  <2>1. m \in Piece
    BY <1>2 DEF Piece, Settled
  <2>2. dangBay' = [dangBay EXCEPT ![i] = m]
    BY <1>3 DEF PieceEnds
  <2>3. QED
    BY <2>1, <2>2, UpdateType DEF TypeOK, FlightType
<1>4. CASE PushPiece(i)
  <2>1. \E how \in {"finishing"} \cup Settled : PieceEnds(i, how)
    BY <1>4 DEF PushPiece, Settled, Kinds
  <2>2. FlightType'
    BY <1>3, <1>4, <2>1 DEF PushPiece, TypeOK, FlightType
  <2>3. faults' \in Nat
    BY <1>4, FaultType DEF PushPiece, TypeOK
  <2>4. QED
    BY <1>4, <2>2, <2>3, Frame DEF PushPiece, TypeOK, chunkVars
<1>5. CASE FinishPiece(i)
  <2> DEFINE doc == Len(posted) + 1
  <2>1. doc \in Nat
    BY DEF TypeOK, TgType
  <2>2. dangBay' \in Seq(Piece)
    <3>1. CASE dangBay' = [dangBay EXCEPT ![i].pc = "ok", ![i].doc = doc]
      <4> DEFINE m == [dangBay[i] EXCEPT !.pc = "ok", !.doc = doc]
      <4>1. m \in Piece
        BY <1>2, <2>1 DEF Piece, Settled
      <4>2. dangBay' = [dangBay EXCEPT ![i] = m]
        BY <3>1
      <4>3. QED
        BY <4>1, <4>2, UpdateType DEF TypeOK, FlightType
    <3>2. CASE \E kind \in Kinds : PieceEnds(i, kind)
      BY <1>3, <3>2 DEF Settled
    <3>3. QED
      BY <1>5, <3>1, <3>2 DEF FinishPiece
  <2>3. TgType'
    <3>1. CASE UNCHANGED tgVars
      BY <3>1, Frame
    <3>2. CASE /\ posted' = Append(posted, dangBay[i].data)
               /\ live' = live \cup {doc}
               /\ lost' \in {lost, lost \cup {doc}}
      <4>1. posted' \in Seq(Seq(Nat))
        BY <1>2, <3>2, AppendType DEF TypeOK, TgType, Piece
      <4>2. QED
        BY <2>1, <3>2, <4>1 DEF TypeOK, TgType
    <3>3. QED
      BY <1>5, <3>1, <3>2 DEF FinishPiece
  <2>4. faults' \in Nat
    BY <1>5, FaultType DEF FinishPiece, TypeOK
  <2>5. QED
    BY <1>5, <2>2, <2>3, <2>4, Frame DEF FinishPiece, TypeOK, FlightType, chunkVars
<1>6. QED
  BY <1>1, <1>4, <1>5

\* The calls that begin a handler keep the types.
LEMMA CallerStepType ==
    ASSUME TypeInv,
           ClientSends \/ ClientCompletes \/ ChotSo \/ CancelRequest \/ Cancel
    PROVE  TypeInv'
<1> USE DEF TypeInv
<1>1. CASE ClientSends
  <2>1. PICK k \in 1..MaxBlock : ReceiveCall(receivedBytes, k)
    BY <1>1 DEF ClientSends
  <2>2. CallType' /\ FlagType'
    BY <2>1 DEF ReceiveCall, TypeOK, MarkType, CallType, FlagType, States, Places, Handlers
  <2>3. QED
    BY <2>1, <2>2, Frame DEF ReceiveCall, TypeOK, chunkVars
<1>2. CASE ClientCompletes
  <2> USE <1>2 DEF ClientCompletes, CompleteCall
  <2>1. FlagType' /\ CallType'
    BY DEF TypeOK, FlagType, CallType, States, Places, Handlers
  <2>2. ChunkType' /\ FlightType' /\ chunkWritten' <= ChunkSize
    <3>1. CASE GiaoManhChoNen
      BY <3>1, GiaoManhType, SessionAssumption
    <3>2. CASE UNCHANGED <<chunkVars, flightVars>>
      BY <3>2, Frame DEF TypeOK, chunkVars
    <3>3. CASE DropBuffer /\ UNCHANGED <<chunkIndex, chunkOffset, chunkWritten, flightVars>>
      BY <3>3, Frame, DropBufferType DEF TypeOK, ChunkType
    <3>4. QED
      BY <3>1, <3>2, <3>3
  <2>3. QED
    BY <2>1, <2>2, Frame DEF TypeOK
<1>3. CASE ChotSo
  <2>1. CallType'
    BY <1>3 DEF ChotSo, TypeOK, CallType, Places, Handlers
  <2>2. QED
    BY <1>3, <2>1, Frame DEF ChotSo, TypeOK, chunkVars
<1>4. CASE CancelRequest
  <2>1. FlagType'
    BY <1>4 DEF CancelRequest, TypeOK, FlagType
  <2>2. QED
    BY <1>4, <2>1, Frame DEF CancelRequest, TypeOK, chunkVars
<1>5. CASE Cancel
  <2>1. FlagType' /\ CallType'
    BY <1>5 DEF Cancel, TypeOK, FlagType, CallType, States, Places, Handlers
  <2>2. QED
    BY <1>5, <2>1, Frame DEF Cancel, TypeOK, chunkVars
<1>6. QED
  BY <1>1, <1>2, <1>3, <1>4, <1>5

\* Every step keeps the types.
LEMMA TypeStep ==
    ASSUME TypeInv, [Next]_vars
    PROVE  TypeInv'
<1>1. CASE HandlerStep
  BY <1>1, ReceiveStepType, CloseStepType, DrainStepType, SaveStepType DEF HandlerStep
<1>2. CASE UNCHANGED vars
  BY <1>2, Frame DEF TypeInv, TypeOK, vars, chunkVars
<1>3. QED
  BY <1>1, <1>2, PieceStepType, CallerStepType DEF Next, Ended

\* Every variable keeps its range, and no chunk is filled beyond its size.
THEOREM TypeCorrect == Spec => []TypeOK
<1>1. TypeInv /\ [Next]_vars => TypeInv'
  BY TypeStep
<1>2. TypeInv => TypeOK
  BY DEF TypeInv
<1>3. QED
  BY TypeInit, <1>1, <1>2, PTL DEF Spec

-----------------------------------------------------------------------------
(* Who may stand where *)

\* Handlers follow one another as the mutex and state_ allow.
LEMMA ControlStep ==
    ASSUME TypeInv, Control, Slots, [Next]_vars
    PROVE  Control'
<1> USE SessionAssumption
    DEF Control, SavePhase, Return, Goto, AfterError, flagVars, callVars
<1>0. state \in States /\ caller \in Handlers \cup {"none"} /\ pc \in Places \cup {"idle"}
  BY DEF TypeInv, TypeOK, FlagType, CallType
<1> USE <1>0 DEF States, Handlers, Places
<1>1. CASE ClientSends
  BY <1>1 DEF ClientSends, ReceiveCall
<1>2. CASE ClientCompletes
  BY <1>2 DEF ClientCompletes, CompleteCall
<1>3. CASE ChotSo
  BY <1>3 DEF ChotSo, Slots
<1>4. CASE CancelRequest
  BY <1>4 DEF CancelRequest
<1>5. CASE Cancel
  BY <1>5 DEF Cancel
<1>6. CASE HandlerStep
  <2>1. CASE ReceiveStopped
    BY <2>1 DEF ReceiveStopped
  <2>2. CASE OpenChunk
    BY <2>2 DEF OpenChunk
  <2>3. CASE OpenChunkFails
    BY <2>3 DEF OpenChunkFails
  <2>4. CASE AppendBytes
    BY <2>4 DEF AppendBytes
  <2>5. CASE SpoolFails
    BY <2>5 DEF SpoolFails, ReportError
  <2>6. CASE StreamFails
    BY <2>6 DEF StreamFails
  <2>7. CASE HandOff
    BY <2>7 DEF HandOff, Continue
  <2>8. CASE ChunkClosed
    BY <2>8 DEF ChunkClosed, Continue
  <2>9. CASE CloseChunkFails
    BY <2>9 DEF CloseChunkFails
  <2>10. CASE Harvest
    BY <2>10 DEF Harvest, Continue, InFlightFull
  <2>11. CASE Drain
    BY <2>11 DEF Drain
  <2>12. CASE ReceiveDrained
    BY <2>12 DEF ReceiveDrained
  <2>13. CASE ChotSoDrained
    BY <2>13 DEF ChotSoDrained
  <2>14. CASE CompleteDrained
    BY <2>14 DEF CompleteDrained
  <2>15. CASE NoTwin
    BY <2>15 DEF NoTwin
  <2>16. CASE TakeTwin
    BY <2>16 DEF TakeTwin
  <2>17. CASE CopyTwinRows
    BY <2>17 DEF CopyTwinRows
  <2>18. CASE KeepOthers
    BY <2>18 DEF KeepOthers
  <2>19. CASE PurgeOld
    BY <2>19 DEF PurgeOld
  <2>20. CASE WriteEntry
    BY <2>20 DEF WriteEntry
  <2>21. CASE AddChunk
    BY <2>21 DEF AddChunk
  <2>22. CASE DatabaseFails
    BY <2>22 DEF DatabaseFails
  <2>23. CASE Finish
    BY <2>23 DEF Finish
  <2>24. CASE CancelDrained
    BY <2>24 DEF CancelDrained
  <2>25. QED
    BY <1>6, <2>1, <2>2, <2>3, <2>4, <2>5, <2>6, <2>7, <2>8, <2>9, <2>10, <2>11, <2>12, <2>13, <2>14, <2>15, <2>16, <2>17, <2>18, <2>19, <2>20, <2>21, <2>22, <2>23, <2>24
    DEF HandlerStep
<1>7. CASE PieceStep
  BY <1>7 DEF PieceStep, PushPiece, FinishPiece
<1>8. CASE UNCHANGED vars
  BY <1>8 DEF vars
<1>9. QED
  BY <1>1, <1>2, <1>3, <1>4, <1>5, <1>6, <1>7, <1>8 DEF Next, Ended

\* Only the empty sequence has length 0.
LEMMA LengthZero ==
    ASSUME NEW S, NEW s \in Seq(S)
    PROVE  Len(s) \in Nat /\ (Len(s) = 0 <=> s = <<>>)
OBVIOUS

\* A chunk handed off gives its slot to the piece.
LEMMA GiaoManhLength ==
    ASSUME TypeInv, GiaoManhChoNen
    PROVE  Len(dangBay') = Len(dangBay) + 1 /\ ~opened'
BY DEF TypeInv, TypeOK, FlightType, GiaoManhChoNen, DropBuffer

\* A piece taken back frees a slot.
LEMMA TakeBackLength ==
    ASSUME TypeInv, HeadLanded, dangBay' = Tail(dangBay)
    PROVE  /\ Len(dangBay') \in Nat
           /\ Len(dangBay) = Len(dangBay') + 1
           /\ Len(dangBay') = 0 <=> dangBay' = <<>>
<1>1. dangBay \in Seq(Piece) /\ dangBay # <<>>
  BY DEF TypeInv, TypeOK, FlightType, HeadLanded
<1>2. Tail(dangBay) \in Seq(Piece) /\ Len(Tail(dangBay)) = Len(dangBay) - 1
  BY <1>1
<1>3. Len(dangBay) \in Nat /\ Len(dangBay') \in Nat
  BY <1>1, <1>2, LengthZero
<1>4. Len(dangBay') = 0 <=> dangBay' = <<>>
  BY <1>2, LengthZero
<1>5. QED
  BY <1>2, <1>3, <1>4

\* Settling opens no buffer and starts no piece.
LEMMA ThuHetManhLength ==
    ASSUME TypeInv, ThuHetManh
    PROVE  dangBay' = dangBay /\ opened' \in {opened, FALSE}
BY DEF ThuHetManh, LuiMoc, StepBackTo, DropBuffer, chunkVars, flightVars, TypeInv, TypeOK,
       ChunkType

\* A thread neither adds a piece nor removes one.
LEMMA PieceStepLength ==
    ASSUME TypeInv, PieceStep
    PROVE  dangBay # <<>> /\ Len(dangBay') = Len(dangBay)
BY DEF TypeInv, TypeOK, FlightType, PieceStep, PushPiece, FinishPiece, PieceEnds

\* The number of buffers stays within soManhSongSong_.
LEMMA SlotsStep ==
    ASSUME TypeInv, Control, Slots, [Next]_vars
    PROVE  Slots'
<1> USE SessionAssumption
    DEF Slots, SavePhase, Return, Goto, AfterError, flagVars, callVars, chunkVars,
        flightVars, keptVars
<1>0. /\ Len(dangBay) \in Nat /\ todo \in Nat /\ opened \in BOOLEAN
      /\ Len(dangBay) = 0 <=> dangBay = <<>>
  BY DEF TypeInv, TypeOK, FlightType, CallType, ChunkType
<1> USE <1>0
<1>1. CASE ClientSends
  BY <1>1 DEF ClientSends, ReceiveCall, Control
<1>2. CASE ClientCompletes
  BY <1>2, GiaoManhLength DEF ClientCompletes, CompleteCall, Control, DropBuffer
<1>3. CASE ChotSo
  BY <1>3 DEF ChotSo, Control
<1>4. CASE CancelRequest
  BY <1>4 DEF CancelRequest
<1>5. CASE Cancel
  BY <1>5 DEF Cancel
<1>6. CASE HandlerStep
  <2>1. CASE ReceiveStopped
    BY <2>1 DEF ReceiveStopped, Control
  <2>2. CASE OpenChunk
    BY <2>2 DEF OpenChunk
  <2>3. CASE OpenChunkFails
    BY <2>3 DEF OpenChunkFails
  <2>4. CASE AppendBytes
    BY <2>4, TakeType DEF AppendBytes, Control
  <2>5. CASE SpoolFails
    BY <2>5 DEF SpoolFails, ReportError
  <2>6. CASE StreamFails
    BY <2>6 DEF StreamFails
  <2>7. CASE HandOff
    BY <2>7, GiaoManhLength DEF HandOff, InFlightFull, Continue, Control
  <2>8. CASE ChunkClosed
    BY <2>8 DEF ChunkClosed, DropBuffer, Continue, Control
  <2>9. CASE CloseChunkFails
    BY <2>9 DEF CloseChunkFails, DropBuffer, Control
  <2>10. CASE Harvest
    BY <2>10, TakeBackLength DEF Harvest, ThuMotManh, InFlightFull, Continue, Control
  <2>11. CASE Drain
    BY <2>11, TakeBackLength DEF Drain, ThuMotManh, Control
  <2>12. CASE ReceiveDrained
    BY <2>12, ThuHetManhLength DEF ReceiveDrained, Control
  <2>13. CASE ChotSoDrained
    BY <2>13, ThuHetManhLength DEF ChotSoDrained, Control
  <2>14. CASE CompleteDrained
    BY <2>14, ThuHetManhLength DEF CompleteDrained, Control
  <2>15. CASE NoTwin
    BY <2>15 DEF NoTwin
  <2>16. CASE TakeTwin
    BY <2>16 DEF TakeTwin
  <2>17. CASE CopyTwinRows
    BY <2>17 DEF CopyTwinRows
  <2>18. CASE KeepOthers
    BY <2>18 DEF KeepOthers
  <2>19. CASE PurgeOld
    BY <2>19 DEF PurgeOld
  <2>20. CASE WriteEntry
    BY <2>20 DEF WriteEntry
  <2>21. CASE AddChunk
    BY <2>21 DEF AddChunk
  <2>22. CASE DatabaseFails
    BY <2>22 DEF DatabaseFails
  <2>23. CASE Finish
    BY <2>23 DEF Finish
  <2>24. CASE CancelDrained
    BY <2>24 DEF CancelDrained, DropBuffer, Rollback, Control
  <2>25. QED
    BY <1>6, <2>1, <2>2, <2>3, <2>4, <2>5, <2>6, <2>7, <2>8, <2>9, <2>10, <2>11, <2>12, <2>13, <2>14, <2>15, <2>16, <2>17, <2>18, <2>19, <2>20, <2>21, <2>22, <2>23, <2>24
    DEF HandlerStep
<1>7. CASE PieceStep
  <2>1. UNCHANGED <<flagVars, callVars, chunkVars, keptVars>>
    BY <1>7 DEF PieceStep, PushPiece, FinishPiece
  <2>2. dangBay # <<>> /\ Len(dangBay') = Len(dangBay)
    BY <1>7, PieceStepLength
  <2>3. QED
    BY <2>1, <2>2
<1>8. CASE UNCHANGED vars
  BY <1>8 DEF vars
<1>9. QED
  BY <1>1, <1>2, <1>3, <1>4, <1>5, <1>6, <1>7, <1>8 DEF Next, Ended

\* addChunk() writes the chunk list in order and only complete() writes it.
LEMMA RowsStep ==
    ASSUME TypeInv, Control, Slots, Rows, [Next]_vars
    PROVE  Rows'
<1> USE SessionAssumption
    DEF Rows, Control, SavePhase, Return, Goto, AfterError, flagVars, callVars,
        markVars, keptVars, dbVars
<1>0. receivedBytes \in Nat /\ rows \in Seq(Record) /\ chunkRecords \in Seq(Record)
  BY DEF TypeInv, TypeOK, MarkType, DbType, KeptType
<1> USE <1>0
<1>1. CASE ClientSends
  BY <1>1 DEF ClientSends, ReceiveCall
<1>2. CASE ClientCompletes
  BY <1>2 DEF ClientCompletes, CompleteCall
<1>3. CASE ChotSo
  BY <1>3 DEF ChotSo
<1>4. CASE CancelRequest
  BY <1>4 DEF CancelRequest
<1>5. CASE Cancel
  BY <1>5 DEF Cancel
<1>6. CASE HandlerStep
  <2>1. CASE ReceiveStopped
    BY <2>1 DEF ReceiveStopped
  <2>2. CASE OpenChunk
    BY <2>2 DEF OpenChunk
  <2>3. CASE OpenChunkFails
    BY <2>3 DEF OpenChunkFails
  <2>4. CASE AppendBytes
    BY <2>4 DEF AppendBytes
  <2>5. CASE SpoolFails
    BY <2>5 DEF SpoolFails, ReportError
  <2>6. CASE StreamFails
    BY <2>6 DEF StreamFails
  <2>7. CASE HandOff
    BY <2>7 DEF HandOff, Continue
  <2>8. CASE ChunkClosed
    BY <2>8 DEF ChunkClosed, Continue
  <2>9. CASE CloseChunkFails
    BY <2>9 DEF CloseChunkFails
  <2>10. CASE Harvest
    BY <2>10 DEF Harvest, Continue
  <2>11. CASE Drain
    BY <2>11 DEF Drain
  <2>12. CASE ReceiveDrained
    BY <2>12 DEF ReceiveDrained
  <2>13. CASE ChotSoDrained
    BY <2>13 DEF ChotSoDrained
  <2>14. CASE CompleteDrained
    BY <2>14 DEF CompleteDrained, ThuHetManh
  <2>15. CASE NoTwin
    BY <2>15 DEF NoTwin
  <2>16. CASE TakeTwin
    BY <2>16 DEF TakeTwin
  <2>17. CASE CopyTwinRows
    BY <2>17 DEF CopyTwinRows
  <2>18. CASE KeepOthers
    BY <2>18 DEF KeepOthers
  <2>19. CASE PurgeOld
    BY <2>19 DEF PurgeOld
  <2>20. CASE WriteEntry
    BY <2>20 DEF WriteEntry
  <2>21. CASE AddChunk
    BY <2>21 DEF AddChunk
  <2>22. CASE DatabaseFails
    BY <2>22 DEF DatabaseFails
  <2>23. CASE Finish
    BY <2>23 DEF Finish
  <2>24. CASE CancelDrained
    BY <2>24 DEF CancelDrained
  <2>25. QED
    BY <1>6, <2>1, <2>2, <2>3, <2>4, <2>5, <2>6, <2>7, <2>8, <2>9, <2>10, <2>11, <2>12,
       <2>13, <2>14, <2>15, <2>16, <2>17, <2>18, <2>19, <2>20, <2>21, <2>22, <2>23, <2>24
    DEF HandlerStep
<1>7. CASE PieceStep
  BY <1>7 DEF PieceStep, PushPiece, FinishPiece
<1>8. CASE UNCHANGED vars
  BY <1>8 DEF vars
<1>9. QED
  BY <1>1, <1>2, <1>3, <1>4, <1>5, <1>6, <1>7, <1>8 DEF Next, Ended

\* Deleting documents touches no other; what could not be deleted is lost.
LEMMA RemoveChunksEffect ==
    ASSUME NEW docs, RemoveChunks(docs)
    PROVE  /\ live' \subseteq live /\ lost \subseteq lost'
           /\ live \ docs \subseteq live'
           /\ live' \cap docs \subseteq lost'
BY DEF RemoveChunks

\* A step that leaves pieces, lists and Telegram alone keeps the accounts.
LEMMA AccountsFrame ==
    ASSUME Accounts, UNCHANGED <<dangBay, uploaded, posted, live, rows>>, lost \subseteq lost'
    PROVE  Accounts'
BY DEF Accounts, EveryDocumentAccounted, FlightDocs

\* A new piece has no document yet.
LEMMA AccountsHandOff ==
    ASSUME TypeInv, Accounts, GiaoManhChoNen, UNCHANGED <<uploaded, tgVars, rows>>
    PROVE  Accounts'
<1> DEFINE m == [index |-> chunkIndex, offset |-> chunkOffset, size |-> chunkWritten,
                 data |-> buffer, hash |-> hasher, pc |-> "pushing", doc |-> 0]
<1>1. dangBay \in Seq(Piece) /\ dangBay' = Append(dangBay, m)
  BY DEF TypeInv, TypeOK, FlightType, GiaoManhChoNen
<1>2. /\ DOMAIN dangBay \subseteq DOMAIN dangBay'
      /\ \A i \in DOMAIN dangBay' :
            IF i \in DOMAIN dangBay THEN dangBay'[i] = dangBay[i] ELSE dangBay'[i] = m
  BY <1>1
<1>3. \A i \in DOMAIN dangBay' :
         IF dangBay'[i].pc = "ok" THEN dangBay'[i].doc \in 3..Len(posted)
                                  ELSE dangBay'[i].doc = 0
  BY <1>2 DEF Accounts
<1>4. FlightDocs \subseteq FlightDocs'
  BY <1>2 DEF FlightDocs
<1>5. QED
  BY <1>3, <1>4 DEF Accounts, EveryDocumentAccounted, tgVars

\* A piece taken back leaves its document in uploaded_, if it has one.
LEMMA AccountsTakeBack ==
    ASSUME TypeInv, Accounts, HeadLanded, dangBay' = Tail(dangBay),
           uploaded' = KeepForRollback(dangBay[1]), UNCHANGED <<tgVars, rows>>
    PROVE  Accounts'
<1>1. dangBay \in Seq(Piece) /\ dangBay # <<>>
  BY DEF TypeInv, TypeOK, FlightType, HeadLanded
<1>2. \A i \in DOMAIN dangBay' : i + 1 \in DOMAIN dangBay /\ dangBay'[i] = dangBay[i + 1]
  BY <1>1
<1>3. \A i \in DOMAIN dangBay : i = 1 \/ (i - 1 \in DOMAIN dangBay' /\ dangBay'[i - 1] = dangBay[i])
  BY <1>1
<1>4. 1 \in DOMAIN dangBay
  BY <1>1
<1>5. \A i \in DOMAIN dangBay' :
         IF dangBay'[i].pc = "ok" THEN dangBay'[i].doc \in 3..Len(posted)
                                  ELSE dangBay'[i].doc = 0
  BY <1>2 DEF Accounts
<1>6. FlightDocs \subseteq FlightDocs' \cup {dangBay[1].doc}
  BY <1>3 DEF FlightDocs
<1>7. CASE dangBay[1].pc = "ok"
  <2>1. uploaded' = uploaded \cup {dangBay[1].doc} /\ dangBay[1].doc \in 3..Len(posted)
    BY <1>4, <1>7 DEF KeepForRollback, Accounts
  <2>2. QED
    BY <1>5, <1>6, <2>1 DEF Accounts, EveryDocumentAccounted, tgVars
<1>8. CASE dangBay[1].pc # "ok"
  <2>1. uploaded' = uploaded /\ dangBay[1].doc = 0
    BY <1>4, <1>8 DEF KeepForRollback, Accounts
  <2>2. dangBay[1].doc \notin live
    BY <2>1 DEF Accounts
  <2>3. QED
    BY <1>5, <1>6, <2>1, <2>2 DEF Accounts, EveryDocumentAccounted, tgVars
<1>9. QED
  BY <1>7, <1>8

\* Whatever became of a piece, its document goes to uploaded_ if there is one.
LEMMA ThuMotManhKeeps ==
    ASSUME TypeInv, ThuMotManh
    PROVE  HeadLanded /\ dangBay' = Tail(dangBay) /\ uploaded' = KeepForRollback(dangBay[1])
BY DEF ThuMotManh, KeepRecord, KeepForRollback

\* Documents disappear, at most those of uploaded_ and of the replaced file, and
\* those that stay are put among the lost.
LEMMA AccountsRemove ==
    ASSUME TypeInv, Accounts, NEW docs \in SUBSET (uploaded \cup {Old}), RemoveChunks(docs),
           uploaded' \in SUBSET uploaded, uploaded \ uploaded' \subseteq docs \cup Docs(rows),
           UNCHANGED <<dangBay, posted, rows>>
    PROVE  Accounts'
<1>1. /\ live' \subseteq live /\ lost \subseteq lost' /\ live \ docs \subseteq live'
      /\ live' \cap docs \subseteq lost'
  BY RemoveChunksEffect
<1>2. Twin \notin docs
  BY DEF Accounts, Twin, Old
<1>3. FlightDocs' = FlightDocs /\ Docs(rows)' = Docs(rows)
  BY DEF FlightDocs, Docs
<1>4. EveryDocumentAccounted'
  BY <1>1, <1>3 DEF Accounts, EveryDocumentAccounted, Foreign
<1>5. Twin \in live'
  BY <1>1, <1>2 DEF Accounts
<1>6. QED
  BY <1>1, <1>4, <1>5 DEF Accounts

\* The books stay within the documents posted so far when one more is posted.
LEMMA RangeGrows ==
    ASSUME NEW n \in Nat, NEW m \in Nat, n >= 2, m = n + 1
    PROVE  1..n \subseteq 1..m /\ 3..n \subseteq 3..m /\ m \in 1..m /\ m \in 3..m
OBVIOUS

\* A document appears: either the session knows it or nobody does.
LEMMA AccountsPost ==
    ASSUME TypeInv, Accounts, NEW data, posted' = Append(posted, data),
           live' = live \cup {Len(posted) + 1},
           \/ lost' = lost /\ uploaded' = uploaded \cup {Len(posted) + 1}
           \/ lost' = lost \cup {Len(posted) + 1} /\ uploaded' = uploaded,
           UNCHANGED <<dangBay, rows>>
    PROVE  Accounts'
<1>1. Len(posted) \in Nat /\ Len(posted') \in Nat /\ Len(posted') = Len(posted) + 1
  BY DEF TypeInv, TypeOK, TgType
<1>2. FlightDocs' = FlightDocs /\ Docs(rows)' = Docs(rows)
  BY DEF FlightDocs, Docs
<1>3. EveryDocumentAccounted'
  BY <1>2 DEF Accounts, EveryDocumentAccounted
<1>4. live' \subseteq 1..Len(posted') /\ uploaded' \subseteq 3..Len(posted')
  <2>1. /\ 1..Len(posted) \subseteq 1..Len(posted') /\ 3..Len(posted) \subseteq 3..Len(posted')
        /\ Len(posted') \in 1..Len(posted') /\ Len(posted') \in 3..Len(posted')
    BY <1>1, RangeGrows DEF Accounts
  <2>2. live \subseteq 1..Len(posted) /\ uploaded \subseteq 3..Len(posted)
    BY DEF Accounts
  <2>3. live' \subseteq 1..Len(posted')
    BY <1>1, <2>1, <2>2
  <2>4. /\ uploaded \subseteq 3..Len(posted')
        /\ uploaded \cup {Len(posted) + 1} \subseteq 3..Len(posted')
    BY <1>1, <2>1, <2>2
  <2>5. QED
    BY <2>3, <2>4
<1>5. \A i \in DOMAIN dangBay' :
         IF dangBay'[i].pc = "ok" THEN dangBay'[i].doc \in 3..Len(posted')
                                  ELSE dangBay'[i].doc = 0
  BY <1>1 DEF Accounts
<1>6. QED
  BY <1>1, <1>3, <1>4, <1>5 DEF Accounts

\* A thread's document is named by its piece, or lost with the answer of the post.
LEMMA AccountsPiece ==
    ASSUME TypeInv, Accounts, PieceStep
    PROVE  Accounts'
<1>1. PICK i \in DOMAIN dangBay : PushPiece(i) \/ FinishPiece(i)
  BY DEF PieceStep
<1>2. dangBay \in Seq(Piece) /\ Len(posted) \in Nat
  BY DEF TypeInv, TypeOK, FlightType, TgType
<1>3. dangBay[i].pc \in {"pushing", "finishing"} /\ dangBay[i].doc = 0
  BY <1>1 DEF PushPiece, FinishPiece, Accounts
<1>4. /\ DOMAIN dangBay' = DOMAIN dangBay
      /\ \A j \in DOMAIN dangBay : j # i => dangBay'[j] = dangBay[j]
  BY <1>1, <1>2 DEF PushPiece, FinishPiece, PieceEnds
<1>5. uploaded' = uploaded /\ rows' = rows
  BY <1>1 DEF PushPiece, FinishPiece, keptVars, dbVars
<1>6. ASSUME \E how \in {"finishing"} \cup Kinds : PieceEnds(i, how)
      PROVE  dangBay'[i].pc # "ok" /\ dangBay'[i].doc = 0
  <2>1. PICK how \in {"finishing"} \cup Kinds : PieceEnds(i, how)
    BY <1>6
  <2>2. dangBay'[i] = [dangBay[i] EXCEPT !.pc = how]
    BY <1>2, <2>1 DEF PieceEnds
  <2>3. dangBay[i] \in Piece /\ how # "ok"
    BY <1>2 DEF Kinds
  <2>4. QED
    BY <1>3, <2>2, <2>3 DEF Piece
<1>7. CASE /\ dangBay'[i].pc # "ok" /\ dangBay'[i].doc = 0
           /\ UNCHANGED tgVars
  <2>1. FlightDocs' = FlightDocs
    BY <1>3, <1>4, <1>7 DEF FlightDocs
  <2>2. QED
    BY <1>4, <1>5, <1>7, <2>1 DEF Accounts, EveryDocumentAccounted, tgVars
<1>8. CASE /\ posted' = Append(posted, dangBay[i].data)
           /\ live' = live \cup {Len(posted) + 1}
           /\ \/ /\ dangBay'[i].pc # "ok" /\ dangBay'[i].doc = 0
                 /\ lost' = lost \cup {Len(posted) + 1}
              \/ /\ dangBay'[i].pc = "ok" /\ dangBay'[i].doc = Len(posted) + 1
                 /\ lost' = lost
  <2>1. Len(posted') = Len(posted) + 1
    BY <1>2, <1>8 DEF TypeInv, TypeOK, TgType
  <2>2. FlightDocs \subseteq FlightDocs' \cup {0}
    BY <1>3, <1>4 DEF FlightDocs
  <2>3. 0 \notin live /\ (dangBay'[i].pc = "ok" => Len(posted) + 1 \in FlightDocs')
    BY <1>4, <1>8 DEF Accounts, FlightDocs
  <2>4. EveryDocumentAccounted'
    BY <1>5, <1>8, <2>2, <2>3 DEF Accounts, EveryDocumentAccounted
  <2>5. \A j \in DOMAIN dangBay' :
           IF dangBay'[j].pc = "ok" THEN dangBay'[j].doc \in 3..Len(posted')
                                    ELSE dangBay'[j].doc = 0
    BY <1>2, <1>4, <1>8, <2>1 DEF Accounts
  <2>6. live' \subseteq 1..Len(posted') /\ uploaded' \subseteq 3..Len(posted')
    <3>1. Len(posted) >= 2 /\ live \subseteq 1..Len(posted) /\ uploaded \subseteq 3..Len(posted)
      BY DEF Accounts
    <3>2. live' = live \cup {Len(posted')} /\ uploaded' = uploaded
      BY <1>5, <1>8, <2>1
    <3>3. /\ 1..Len(posted) \subseteq 1..Len(posted') /\ 3..Len(posted) \subseteq 3..Len(posted')
          /\ Len(posted') \in 1..Len(posted')
      BY <1>2, <2>1, <3>1, RangeGrows
    <3>4. live \cup {Len(posted')} \subseteq 1..Len(posted')
      BY <3>1, <3>3
    <3>5. uploaded \subseteq 3..Len(posted')
      BY <3>1, <3>3
    <3>6. QED
      BY <3>2, <3>4, <3>5
  <2>7. QED
    BY <1>2, <1>8, <2>1, <2>4, <2>5, <2>6 DEF Accounts
<1>9. CASE PushPiece(i)
  <2>1. \E how \in {"finishing"} \cup Kinds : PieceEnds(i, how)
    BY <1>9 DEF PushPiece, Kinds
  <2>2. QED
    BY <1>6, <1>7, <1>9, <2>1 DEF PushPiece
<1>10. CASE FinishPiece(i)
  <2>1. CASE /\ dangBay' = [dangBay EXCEPT ![i].pc = "ok", ![i].doc = Len(posted) + 1]
             /\ posted' = Append(posted, dangBay[i].data)
             /\ live' = live \cup {Len(posted) + 1}
             /\ UNCHANGED lost
    <3>1. dangBay'[i] = [dangBay[i] EXCEPT !.pc = "ok", !.doc = Len(posted) + 1]
      BY <1>2, <2>1
    <3>2. dangBay[i] \in Piece
      BY <1>2
    <3>3. dangBay'[i].pc = "ok" /\ dangBay'[i].doc = Len(posted) + 1
      BY <3>1, <3>2 DEF Piece
    <3>4. QED
      BY <1>8, <2>1, <3>3
  <2>2. CASE (\E kind \in Kinds : PieceEnds(i, kind)) /\ UNCHANGED tgVars
    BY <1>6, <1>7, <2>2
  <2>3. CASE /\ \E kind \in Kinds : PieceEnds(i, kind)
             /\ posted' = Append(posted, dangBay[i].data)
             /\ live' = live \cup {Len(posted) + 1}
             /\ lost' = lost \cup {Len(posted) + 1}
    BY <1>6, <1>8, <2>3
  <2>4. QED
    BY <1>10, <2>1, <2>2, <2>3 DEF FinishPiece
<1>11. QED
  BY <1>1, <1>9, <1>10

\* Every step keeps every document accounted for.
LEMMA AccountsStep ==
    ASSUME TypeInv, Rows, Accounts, [Next]_vars
    PROVE  Accounts'
<1> USE DEF flagVars, callVars, chunkVars, markVars, flightVars, keptVars, tgVars, dbVars
<1>1. CASE ClientSends
  BY <1>1, AccountsFrame DEF ClientSends, ReceiveCall
<1>2. CASE ClientCompletes
  <2>1. UNCHANGED <<uploaded, tgVars, rows>>
    BY <1>2 DEF ClientCompletes, CompleteCall
  <2>2. GiaoManhChoNen \/ dangBay' = dangBay
    BY <1>2 DEF ClientCompletes, CompleteCall
  <2>3. QED
    BY <2>1, <2>2, AccountsFrame, AccountsHandOff
<1>3. CASE ChotSo
  BY <1>3, AccountsFrame DEF ChotSo
<1>4. CASE CancelRequest
  BY <1>4, AccountsFrame DEF CancelRequest
<1>5. CASE Cancel
  BY <1>5, AccountsFrame DEF Cancel
<1>6. CASE HandlerStep
  <2>1. CASE ReceiveStopped
    BY <2>1, AccountsFrame DEF ReceiveStopped
  <2>2. CASE OpenChunk
    BY <2>2, AccountsFrame DEF OpenChunk
  <2>3. CASE OpenChunkFails
    BY <2>3, AccountsFrame DEF OpenChunkFails
  <2>4. CASE AppendBytes
    BY <2>4, AccountsFrame DEF AppendBytes
  <2>5. CASE SpoolFails
    BY <2>5, AccountsFrame DEF SpoolFails
  <2>6. CASE StreamFails
    BY <2>6, AccountsFrame DEF StreamFails
  <2>7. CASE HandOff
    BY <2>7, AccountsHandOff DEF HandOff
  <2>8. CASE ChunkClosed
    BY <2>8, AccountsPost DEF ChunkClosed, KeepRecord
  <2>9. CASE CloseChunkFails
    <3>1. CASE UNCHANGED tgVars
      BY <2>9, <3>1, AccountsFrame DEF CloseChunkFails
    <3>2. CASE /\ posted' = Append(posted, buffer)
               /\ live' = live \cup {Len(posted) + 1}
               /\ lost' = lost \cup {Len(posted) + 1}
      BY <2>9, <3>2, AccountsPost DEF CloseChunkFails
    <3>3. QED
      BY <2>9, <3>1, <3>2 DEF CloseChunkFails
  <2>10. CASE Harvest
    BY <2>10, ThuMotManhKeeps, AccountsTakeBack DEF Harvest
  <2>11. CASE Drain
    BY <2>11, ThuMotManhKeeps, AccountsTakeBack DEF Drain
  <2>12. CASE ReceiveDrained
    BY <2>12, ThuHetManhLength, AccountsFrame DEF ReceiveDrained
  <2>13. CASE ChotSoDrained
    BY <2>13, ThuHetManhLength, AccountsFrame DEF ChotSoDrained
  <2>14. CASE CompleteDrained
    BY <2>14, ThuHetManhLength, AccountsFrame DEF CompleteDrained
  <2>15. CASE NoTwin
    BY <2>15, AccountsFrame DEF NoTwin
  <2>16. CASE TakeTwin
    BY <2>16, AccountsRemove DEF TakeTwin
  <2>17. CASE CopyTwinRows
    BY <2>17, AccountsFrame DEF CopyTwinRows
  <2>18. CASE KeepOthers
    BY <2>18, AccountsFrame DEF KeepOthers
  <2>19. CASE PurgeOld
    BY <2>19, AccountsRemove DEF PurgeOld
  <2>20. CASE WriteEntry
    BY <2>20, AccountsFrame DEF WriteEntry
  <2>21. CASE AddChunk
    <3>1. rows \in Seq(Record) /\ rows' = Append(rows, chunkRecords[Len(rows) + 1])
      BY <2>21 DEF AddChunk, TypeInv, TypeOK, DbType
    <3>2. Docs(rows) \subseteq Docs(rows)'
      BY <3>1 DEF Docs
    <3>3. UNCHANGED <<dangBay, uploaded, tgVars>>
      BY <2>21 DEF AddChunk
    <3>4. QED
      BY <3>2, <3>3 DEF Accounts, EveryDocumentAccounted, FlightDocs
  <2>22. CASE DatabaseFails
    BY <2>22, AccountsFrame DEF DatabaseFails
  <2>23. CASE Finish
    <3>1. chunkRecords = rows
      BY <2>23 DEF Finish, Rows, TypeInv, TypeOK, DbType, KeptType
    <3>2. uploaded \ {} \subseteq Orphans \cup Docs(rows)
      BY <3>1 DEF Orphans
    <3>3. Orphans \in SUBSET (uploaded \cup {Old})
      BY DEF Orphans
    <3>4. QED
      BY <2>23, <3>2, <3>3, AccountsRemove DEF Finish
  <2>24. CASE CancelDrained
    BY <2>24, AccountsRemove DEF CancelDrained, Rollback
  <2>25. QED
    BY <1>6, <2>1, <2>2, <2>3, <2>4, <2>5, <2>6, <2>7, <2>8, <2>9, <2>10, <2>11, <2>12,
       <2>13, <2>14, <2>15, <2>16, <2>17, <2>18, <2>19, <2>20, <2>21, <2>22, <2>23, <2>24
    DEF HandlerStep
<1>7. CASE PieceStep
  BY <1>7, AccountsPiece DEF PieceStep
<1>8. CASE UNCHANGED vars
  BY <1>8, AccountsFrame DEF vars
<1>9. QED
  BY <1>1, <1>2, <1>3, <1>4, <1>5, <1>6, <1>7, <1>8 DEF Next, Ended

\* The invariant holds at the start.
LEMMA InvInit == Init => Inv
<1> SUFFICES ASSUME Init PROVE Inv
  OBVIOUS
<1>1. Control /\ Slots /\ Rows
  BY SessionAssumption DEF Init, Control, Slots, Rows, SavePhase
<1>2. Accounts
  BY DEF Init, Accounts, EveryDocumentAccounted, Foreign, Twin, Old
<1>3. QED
  BY <1>1, <1>2, TypeInit DEF Inv

\* The invariant is inductive.
THEOREM Invariance == Spec => []Inv
<1>1. Inv /\ [Next]_vars => Inv'
  BY TypeStep, ControlStep, SlotsStep, RowsStep, AccountsStep DEF Inv
<1>2. QED
  BY InvInit, <1>1, PTL DEF Spec

\* No document on Telegram is ever forgotten by complete(), cancel() or a failed
\* receive(), whatever the number of chunks in flight.
THEOREM DocumentsAccounted == Spec => []EveryDocumentAccounted
<1>1. Inv => EveryDocumentAccounted
  BY DEF Inv, Accounts
<1>2. QED
  BY <1>1, Invariance, PTL

\* rollback() and the deduplication never remove the chunk of another file.
THEOREM OthersUntouched == Spec => []OtherFilesUntouched
<1>1. Inv => OtherFilesUntouched
  BY DEF Inv, Accounts, OtherFilesUntouched
<1>2. QED
  BY <1>1, Invariance, PTL

\* receive() never holds more buffers than chonCachDay() allowed.
THEOREM BufferBound == Spec => []BuffersBounded
<1>1. Inv => BuffersBounded
  BY DEF Inv, Slots, BuffersBounded
<1>2. QED
  BY <1>1, Invariance, PTL

\* cancel() leaves nothing of the session on Telegram.
THEOREM CancelIsClean == Spec => []CancelledLeavesNothing
<1>1. Inv => CancelledLeavesNothing
  <2> SUFFICES ASSUME Inv, state = "Cancelled", caller = "none"
               PROVE  live \subseteq Foreign \cup lost \cup Docs(rows)
    BY DEF CancelledLeavesNothing
  <2>1. uploaded = {} /\ dangBay = <<>>
    BY DEF Inv, Slots
  <2>2. FlightDocs = {}
    BY <2>1 DEF FlightDocs
  <2>3. QED
    BY <2>1, <2>2 DEF Inv, Accounts, EveryDocumentAccounted
<1>2. QED
  BY <1>1, Invariance, PTL

\* Several chunks in flight, and a database that can be read while one is saved.
ParallelSession == Parallel > 1 /\ "list" \notin DbFaults

\* A step for which the bytes are accounted for: of such a session, or of any before a
\* call has failed.
Trusted == ParallelSession \/ faults' = 0

\* Then only such a session lives through a failure.
LEMMA Unfailing ==
    ASSUME TypeInv, Trusted, Fault
    PROVE  ParallelSession
BY DEF TypeInv, TypeOK, Trusted, Fault

-----------------------------------------------------------------------------
(* Spans and chunk lists *)

\* A span of no bytes is empty.
LEMMA SpanEmpty ==
    ASSUME NEW a \in Nat
    PROVE  Span(a, 0) = <<>>
BY DEF Span

\* Two spans that meet are one.
LEMMA SpanConcat ==
    ASSUME NEW a \in Nat, NEW n \in Nat, NEW k \in Nat
    PROVE  Span(a, n) \o Span(a + n, k) = Span(a, n + k)
<1>0. a + n \in Nat /\ n + k \in Nat
  OBVIOUS
<1>1. /\ Span(a, n) \in Seq(Nat) /\ Len(Span(a, n)) = n
      /\ Span(a + n, k) \in Seq(Nat) /\ Len(Span(a + n, k)) = k
      /\ Span(a, n + k) \in Seq(Nat) /\ Len(Span(a, n + k)) = n + k
  BY <1>0, SpanType
<1>2. \A i \in 1..n : Span(a, n)[i] = a + i - 1
  BY DEF Span
<1>3. \A i \in 1..k : Span(a + n, k)[i] = a + n + i - 1
  BY DEF Span
<1>4. \A i \in 1..(n + k) : Span(a, n + k)[i] = a + i - 1
  BY DEF Span
<1> DEFINE s == Span(a, n)
           t == Span(a + n, k)
           u == Span(a, n + k)
<1> HIDE DEF s, t, u
<1>5. /\ s \in Seq(Nat) /\ Len(s) = n /\ t \in Seq(Nat) /\ Len(t) = k
      /\ u \in Seq(Nat) /\ Len(u) = n + k
  BY <1>1 DEF s, t, u
<1>6. /\ s \o t \in Seq(Nat) /\ Len(s \o t) = n + k
      /\ \A i \in 1..(n + k) : (s \o t)[i] = IF i <= n THEN s[i] ELSE t[i - n]
  BY <1>5, ConcatProperties
<1>7. ASSUME NEW i \in 1..(n + k)
      PROVE  (s \o t)[i] = u[i]
  <2>1. u[i] = a + i - 1
    BY <1>4 DEF u
  <2>2. CASE i <= n
    <3>1. (s \o t)[i] = s[i]
      BY <1>6, <2>2
    <3>2. s[i] = a + i - 1
      BY <1>2, <2>2 DEF s
    <3>3. QED
      BY <2>1, <3>1, <3>2
  <2>3. CASE i > n
    <3>1. (s \o t)[i] = t[i - n]
      BY <1>6, <2>3
    <3>2. t[i - n] = a + n + (i - n) - 1
      BY <1>3, <2>3 DEF t
    <3>3. QED
      BY <2>1, <3>1, <3>2
  <2>4. i <= n \/ i > n
    OBVIOUS
  <2>5. QED
    BY <2>2, <2>3, <2>4
<1>8. s \o t = u
  BY <1>5, <1>6, <1>7, SeqEqual
<1>9. QED
  BY <1>8 DEF s, t, u

\* A chunk list stays right while documents are only added, or others removed.
LEMMA ChainedStable ==
    ASSUME NEW records, Chained(records),
           Docs(records) \subseteq live',
           DOMAIN posted \subseteq DOMAIN posted',
           \A d \in DOMAIN posted : posted'[d] = posted[d]
    PROVE  Chained(records)'
BY DEF Chained, Docs

\* A chunk list right for the documents in L, whose contents P gives.
Chaining(records, L, P) ==
    \A j \in DOMAIN records :
        /\ records[j].index = j - 1
        /\ records[j].offset = IF j = 1 THEN 0
                               ELSE records[j - 1].offset + records[j - 1].size
        /\ records[j].doc \in L \cap DOMAIN P
        /\ P[records[j].doc] = Span(records[j].offset, records[j].size)

\* A record that begins where the list ends extends the list.
LEMMA AppendChaining ==
    ASSUME NEW records \in Seq(Record), NEW r \in Record, NEW L, NEW P, Chaining(records, L, P),
           r.index = Len(records), r.offset = Covers(records),
           r.doc \in L \cap DOMAIN P,
           P[r.doc] = Span(r.offset, r.size)
    PROVE  /\ Chaining(Append(records, r), L, P)
           /\ Covers(Append(records, r)) = r.offset + r.size
           /\ Docs(Append(records, r)) = Docs(records) \cup {r.doc}
<1> DEFINE a == Append(records, r)
           n == Len(records)
<1>1. n \in Nat /\ DOMAIN records = 1..n /\ DOMAIN a = 1..(n + 1)
  OBVIOUS
<1>2. \A j \in 1..n : a[j] = records[j]
  OBVIOUS
<1>3. a[n + 1] = r /\ Len(a) = n + 1 /\ a # <<>>
  OBVIOUS
<1>4. Covers(a) = r.offset + r.size
  BY <1>3 DEF Covers
<1>5. Docs(a) = Docs(records) \cup {r.doc}
  BY <1>1, <1>2, <1>3 DEF Docs
<1> HIDE DEF a, n
<1>6. ASSUME NEW j \in DOMAIN a
      PROVE  /\ a[j].index = j - 1
             /\ a[j].offset = IF j = 1 THEN 0 ELSE a[j - 1].offset + a[j - 1].size
             /\ a[j].doc \in L \cap DOMAIN P
             /\ P[a[j].doc] = Span(a[j].offset, a[j].size)
  <2>1. CASE j \in 1..n
    <3>1. a[j] = records[j] /\ (j # 1 => a[j - 1] = records[j - 1])
      BY <1>1, <1>2, <2>1
    <3>2. QED
      BY <1>1, <2>1, <3>1 DEF Chaining
  <2>2. CASE j = n + 1
    <3>0. n = 0 <=> records = <<>>
      BY LengthZero DEF n
    <3>1. n = 0 => r.offset = 0
      BY <3>0 DEF Covers
    <3>2. n # 0 => r.offset = a[n].offset + a[n].size
      <4> HAVE n # 0
      <4>1. n \in 1..n /\ records # <<>>
        BY <1>1, <3>0
      <4>2. r.offset = records[n].offset + records[n].size
        BY <4>1 DEF Covers, n
      <4>3. QED
        BY <1>2, <4>1, <4>2
    <3>3. a[j].offset = IF j = 1 THEN 0 ELSE a[j - 1].offset + a[j - 1].size
      BY <1>1, <1>3, <2>2, <3>1, <3>2
    <3>4. a[j].index = j - 1
      BY <1>3, <1>1, <2>2 DEF n
    <3>5. QED
      BY <1>1, <1>3, <2>2, <3>3, <3>4
  <2>3. QED
    BY <1>1, <2>1, <2>2
<1>7. QED
  BY <1>4, <1>5, <1>6 DEF Chaining, a

LEMMA AppendChained ==
    ASSUME NEW records \in Seq(Record), NEW r \in Record, Chained(records),
           r.index = Len(records), r.offset = Covers(records),
           r.doc \in live \cap DOMAIN posted,
           posted[r.doc] = Span(r.offset, r.size)
    PROVE  /\ Chained(Append(records, r))
           /\ Covers(Append(records, r)) = r.offset + r.size
           /\ Docs(Append(records, r)) = Docs(records) \cup {r.doc}
<1>1. Chaining(records, live, posted)
  BY DEF Chained, Chaining
<1>2. /\ Chaining(Append(records, r), live, posted)
      /\ Covers(Append(records, r)) = r.offset + r.size
      /\ Docs(Append(records, r)) = Docs(records) \cup {r.doc}
  BY <1>1, AppendChaining
<1> QED BY <1>2 DEF Chained, Chaining

-----------------------------------------------------------------------------
(* The marks *)

\* What the types say of the numbers, in one place.
LEMMA Naturals ==
    ASSUME TypeInv
    PROVE  /\ receivedBytes \in Nat /\ committedBytes \in Nat
           /\ chunkOffset \in Nat /\ chunkWritten \in Nat /\ chunkIndex \in Nat
           /\ cursor \in Nat /\ todo \in Nat /\ Total \in Nat
           /\ Len(posted) \in Nat /\ DOMAIN posted = 1..Len(posted)
           /\ opened \in BOOLEAN /\ manhHong \in BOOLEAN /\ state \in States
BY SessionAssumption DEF TypeInv, TypeOK, FlagType, CallType, ChunkType, MarkType, TgType,
                         FlightType

\* A session that has ended does not take bytes again.
LEMMA StaysActive ==
    ASSUME Inv, [Next]_vars, Active'
    PROVE  Active
<1>1. state = "Completed" => receivedBytes = Total /\ receivedBytes \in Nat
  BY DEF Inv, Rows, TypeInv, TypeOK, MarkType
<1>2. state \in States
  BY DEF Inv, TypeInv, TypeOK, FlagType
<1>3. CASE HandlerStep
  BY <1>2, <1>3
  DEF Inv, Control, SavePhase, Active, States, HandlerStep, ReceiveStopped, OpenChunk,
      OpenChunkFails, AppendBytes, SpoolFails, StreamFails, HandOff, ChunkClosed,
      CloseChunkFails, Harvest, Drain, ReceiveDrained, ChotSoDrained, CompleteDrained,
      NoTwin, TakeTwin, CopyTwinRows, KeepOthers, PurgeOld, WriteEntry, AddChunk,
      DatabaseFails, Finish, CancelDrained, ReportError, flagVars
<1>4. CASE PieceStep
  BY <1>4 DEF PieceStep, PushPiece, FinishPiece, flagVars, Active
<1>5. CASE ClientSends
  BY <1>1, <1>2, <1>5, SessionAssumption DEF ClientSends, ReceiveCall, Active, States
<1>6. CASE ~(HandlerStep \/ PieceStep \/ ClientSends)
  BY <1>2, <1>6 DEF Next, ClientCompletes, ChotSo, CancelRequest, Cancel, Ended, Active, vars,
                    flagVars
<1>7. QED
  BY <1>3, <1>4, <1>5, <1>6

\* The oldest piece knows the hash of the file up to its end.
LEMMA HeadPiece ==
    ASSUME TypeInv, Pieces, HeadLanded
    PROVE  /\ dangBay[1] \in Piece /\ 1 \in DOMAIN dangBay
           /\ dangBay[1].hash = Span(0, dangBay[1].offset + dangBay[1].size)
BY HeadType DEF TypeInv, TypeOK, FlightType, HeadLanded, Pieces

\* After a hand-off the empty chunk begins at receivedBytes.
LEMMA GiaoManhMarks ==
    ASSUME TypeInv, Marks, GiaoManhChoNen
    PROVE  /\ chunkOffset' = receivedBytes /\ chunkWritten' = 0
           /\ ~opened' /\ buffer' = Span(receivedBytes, 0)
BY Naturals, SpanEmpty DEF GiaoManhChoNen, DropBuffer, ChunkEnd, Marks

\* A piece taken back leaves the committed hash that of the committed prefix.
LEMMA ThuMotManhMarks ==
    ASSUME TypeInv, Pieces, Marks, ThuMotManh
    PROVE  hasherCommitted' = Span(0, committedBytes')
BY HeadPiece DEF ThuMotManh, Marks

\* After a step back marks, chunk and hashes agree on committedBytes.
LEMMA LuiMocMarks ==
    ASSUME TypeInv, Marks, LuiMoc
    PROVE  /\ receivedBytes' = committedBytes /\ chunkOffset' = committedBytes
           /\ chunkWritten' = 0 /\ ~opened' /\ buffer' = Span(committedBytes, 0)
           /\ hasher' = Span(0, committedBytes)
           /\ hasherCommitted' = Span(0, committedBytes)
           /\ committedBytes' = committedBytes
BY Naturals, SpanEmpty DEF LuiMoc, StepBackTo, DropBuffer, Marks

\* A sequential session that fails without a call failing has ended.
LEMMA StreamFailsEnds ==
    ASSUME TypeInv, Trusted, StreamFails
    PROVE  state' = "Failed"
<1>1. Parallel = 1
  BY SessionAssumption DEF StreamFails
<1>2. ~Fault
  BY <1>1, Unfailing DEF ParallelSession
<1> QED BY <1>2 DEF StreamFails, AfterError

LEMMA CloseFailsEnds ==
    ASSUME TypeInv, Trusted, CloseChunkFails
    PROVE  state' = "Failed" /\ UNCHANGED <<posted, live>>
<1>1. Parallel = 1
  BY DEF CloseChunkFails
<1>2. ~Fault
  BY <1>1, Unfailing DEF ParallelSession
<1> QED BY <1>2 DEF CloseChunkFails, AfterError, tgVars

\* A chunk closed on the spot is committed with all before it.
LEMMA ClosedMarks ==
    ASSUME TypeInv, Marks, ChunkClosed, pc = "close" => caller \in {"receive", "complete"}
    PROVE  /\ chunkOffset' = receivedBytes /\ committedBytes' = receivedBytes
           /\ receivedBytes' = receivedBytes /\ chunkWritten' = 0 /\ Marks'
<1>1. /\ chunkOffset' = receivedBytes /\ committedBytes' = receivedBytes
      /\ receivedBytes' = receivedBytes /\ chunkWritten' = 0 /\ ~opened' /\ buffer' = <<>>
      /\ hasherCommitted' = hasher /\ hasher' = hasher /\ hasher = Span(0, receivedBytes)
  BY DEF ChunkClosed, ChunkEnd, DropBuffer, Marks
<1>2. buffer' = Span(receivedBytes, 0) /\ receivedBytes + 0 = receivedBytes /\ receivedBytes <= Total
  BY <1>1, SpanEmpty, Naturals DEF Marks
<1>3. /\ caller \in {"receive", "complete"}
      /\ caller = "complete" => caller' = "complete"
      /\ caller = "receive" => (caller' = "receive" => cursor' = cursor /\ todo' = todo)
      /\ caller = "receive" => caller' # "complete"
      /\ caller = "receive" => cursor = receivedBytes /\ receivedBytes + todo <= Total
  BY DEF ChunkClosed, Continue, Return, Goto, Marks
<1> QED BY <1>1, <1>2, <1>3 DEF Marks

\* The bytes taken go to the end of the chunk and of the hash.
LEMMA AppendMarks ==
    ASSUME TypeInv, Marks, AppendBytes, caller = "receive"
    PROVE  /\ buffer' = Span(chunkOffset, chunkWritten')
           /\ hasher' = Span(0, receivedBytes')
           /\ receivedBytes' = receivedBytes + Take
           /\ chunkWritten' = chunkWritten + Take
<1>1. cursor = receivedBytes /\ receivedBytes = chunkOffset + chunkWritten
  BY DEF AppendBytes, Marks
<1>2. Take \in Nat /\ chunkOffset \in Nat /\ chunkWritten \in Nat /\ receivedBytes \in Nat
  BY TakeType, Naturals
<1>3. buffer' = Span(chunkOffset, chunkWritten) \o Span(chunkOffset + chunkWritten, Take)
  BY <1>1 DEF AppendBytes, Marks
<1>4. hasher' = Span(0, receivedBytes) \o Span(0 + receivedBytes, Take)
  BY <1>1, <1>2 DEF AppendBytes, Marks
<1>5. receivedBytes' = receivedBytes + Take /\ chunkWritten' = chunkWritten + Take
  BY DEF AppendBytes
<1>6. QED
  BY <1>2, <1>3, <1>4, <1>5, SpanConcat

\* The chunk still ends where the bytes received do, and within the file.
LEMMA AppendSums ==
    ASSUME TypeInv, Marks, AppendBytes, caller = "receive"
    PROVE  receivedBytes' = chunkOffset' + chunkWritten' /\ receivedBytes' <= Total
<1>1. receivedBytes = chunkOffset + chunkWritten
  BY DEF Marks
<1>2. receivedBytes + todo <= Total
  BY DEF AppendBytes, Marks
<1>3. /\ chunkOffset \in Nat /\ chunkWritten \in Nat /\ receivedBytes \in Nat
      /\ todo \in Nat /\ Total \in Nat
  BY Naturals
<1>4. Take \in Nat /\ Take <= todo
  BY TakeType
<1>5. receivedBytes' = receivedBytes + Take /\ chunkWritten' = chunkWritten + Take
  BY AppendMarks
<1>6. chunkOffset' = chunkOffset
  BY DEF AppendBytes
<1>7. receivedBytes + Take = chunkOffset + (chunkWritten + Take)
  BY <1>1, <1>3, <1>4
<1>8. receivedBytes + Take <= Total
  BY <1>2, <1>3, <1>4
<1>9. QED
  BY <1>5, <1>6, <1>7, <1>8

\* Every step keeps the marks, the chunk and the hashes in agreement.
LEMMA MarksStep ==
    ASSUME Trusted, Inv, Content, Active', [Next]_vars
    PROVE  Marks'
<1> USE SessionAssumption, Naturals, Unfailing
    DEF Return, Goto, flagVars, callVars, chunkVars, markVars, flightVars, Trusted, ParallelSession,
        Inv, Control, SavePhase
<1>0. Active /\ Marks /\ Pieces /\ Chain
  BY StaysActive DEF Content
<1>1. CASE ClientSends
  BY <1>1, <1>0 DEF ClientSends, ReceiveCall, Marks
<1>2. CASE ClientCompletes
  <2>1. CASE GiaoManhChoNen
    BY <1>2, <1>0, <2>1, GiaoManhMarks DEF ClientCompletes, CompleteCall, Marks
  <2>2. CASE ~GiaoManhChoNen
    BY <1>2, <1>0, <2>2, SpanEmpty DEF ClientCompletes, CompleteCall, DropBuffer, Marks
  <2>3. QED
    BY <2>1, <2>2
<1>3. CASE ChotSo
  BY <1>3, <1>0 DEF ChotSo, Marks
<1>4. CASE CancelRequest
  BY <1>4, <1>0 DEF CancelRequest, Marks
<1>5. CASE Cancel
  BY <1>5 DEF Cancel, Active
<1>6. CASE HandlerStep
  <2>1. CASE ReceiveStopped
    BY <2>1, <1>0 DEF ReceiveStopped, Marks
  <2>2. CASE OpenChunk
    BY <2>2, <1>0, SpanEmpty DEF OpenChunk, Marks
  <2>3. CASE OpenChunkFails
    BY <2>3, <1>0 DEF OpenChunkFails, Marks
  <2>4. CASE AppendBytes
    <3>1. /\ buffer' = Span(chunkOffset, chunkWritten') /\ hasher' = Span(0, receivedBytes')
          /\ receivedBytes' = receivedBytes + Take /\ chunkWritten' = chunkWritten + Take
          /\ UNCHANGED <<chunkOffset, committedBytes, hasherCommitted, opened>> /\ opened
          /\ cursor = receivedBytes /\ receivedBytes + todo <= Total
          /\ caller = "receive"
      BY <2>4, <1>0, AppendMarks DEF AppendBytes, Marks
    <3>2. Take \in Nat /\ Take <= todo
      BY TakeType
    <3>3. \/ pc' = "close" /\ cursor' = cursor + Take /\ todo' = todo - Take
             /\ caller' = caller
          \/ pc' = "idle" /\ caller' = "none"
      BY <2>4 DEF AppendBytes
    <3>4. receivedBytes' = chunkOffset' + chunkWritten' /\ receivedBytes' <= Total
      BY <2>4, <1>0, <3>1, AppendSums
    <3>5. buffer' = Span(chunkOffset', chunkWritten')
      BY <3>1
    <3>6. hasherCommitted' = Span(0, committedBytes')
      BY <1>0, <3>1 DEF Marks
    <3>7. pc' \in {"receive", "close", "harvest"} =>
             cursor' = receivedBytes' /\ receivedBytes' + todo' <= Total
      BY <3>1, <3>2, <3>3
    <3>8. caller' # "complete" /\ opened'
      BY <3>1, <3>3
    <3>9. QED
      BY <3>1, <3>4, <3>5, <3>6, <3>7, <3>8 DEF Marks
  <2>5. CASE SpoolFails
    BY <2>5, <1>0 DEF SpoolFails, ReportError, Marks
  <2>6. CASE StreamFails
    BY <2>6, StreamFailsEnds DEF Active
  <2>7. CASE HandOff
    BY <2>7, <1>0, GiaoManhMarks DEF HandOff, Continue, Marks
  <2>8. CASE ChunkClosed
    BY <2>8, <1>0, ClosedMarks DEF Marks
  <2>9. CASE CloseChunkFails
    BY <2>9, CloseFailsEnds DEF Active
  <2>10. CASE Harvest
    BY <2>10, <1>0, ThuMotManhMarks DEF Harvest, Continue, Marks
  <2>11. CASE Drain
    BY <2>11, <1>0, ThuMotManhMarks DEF Drain, Marks, Active
  <2>12. CASE ReceiveDrained
    <3>1. CASE manhHong
      BY <2>12, <1>0, <3>1, LuiMocMarks DEF ReceiveDrained, ThuHetManh, Content, Marks
    <3>2. CASE ~manhHong
      BY <2>12, <1>0, <3>2 DEF ReceiveDrained, ThuHetManh, Marks
    <3>3. QED
      BY <3>1, <3>2
  <2>13. CASE ChotSoDrained
    <3>1. CASE manhHong
      BY <2>13, <1>0, <3>1, LuiMocMarks DEF ChotSoDrained, ThuHetManh, Content, Marks
    <3>2. CASE ~manhHong
      BY <2>13, <1>0, <3>2 DEF ChotSoDrained, ThuHetManh, Marks
    <3>3. QED
      BY <3>1, <3>2
  <2>14. CASE CompleteDrained
    <3>1. CASE manhHong
      BY <2>14, <1>0, <3>1, LuiMocMarks DEF CompleteDrained, ThuHetManh, Content, Marks
    <3>2. CASE ~manhHong
      BY <2>14, <1>0, <3>2 DEF CompleteDrained, ThuHetManh, Marks
    <3>3. QED
      BY <3>1, <3>2
  <2>15. CASE NoTwin
    BY <2>15, <1>0 DEF NoTwin, Marks
  <2>16. CASE TakeTwin
    BY <2>16, <1>0 DEF TakeTwin, Marks
  <2>17. CASE CopyTwinRows
    BY <2>17, <1>0 DEF CopyTwinRows, Marks
  <2>18. CASE KeepOthers
    BY <2>18, <1>0 DEF KeepOthers, Marks
  <2>19. CASE PurgeOld
    BY <2>19, <1>0 DEF PurgeOld, Marks
  <2>20. CASE WriteEntry
    BY <2>20, <1>0 DEF WriteEntry, Marks
  <2>21. CASE AddChunk
    BY <2>21, <1>0 DEF AddChunk, Marks
  <2>22. CASE DatabaseFails
    BY <2>22, <1>0 DEF DatabaseFails, Marks
  <2>23. CASE Finish
    BY <2>23, <1>0 DEF Finish, Marks
  <2>24. CASE CancelDrained
    BY <2>24 DEF CancelDrained, Active
  <2>25. QED
    BY <1>6, <2>1, <2>2, <2>3, <2>4, <2>5, <2>6, <2>7, <2>8, <2>9, <2>10, <2>11, <2>12,
       <2>13, <2>14, <2>15, <2>16, <2>17, <2>18, <2>19, <2>20, <2>21, <2>22, <2>23, <2>24
    DEF HandlerStep
<1>7. CASE PieceStep
  BY <1>7, <1>0 DEF PieceStep, PushPiece, FinishPiece, Marks
<1>8. CASE UNCHANGED vars
  BY <1>0, <1>8 DEF vars, Marks
<1>9. QED
  BY <1>1, <1>2, <1>3, <1>4, <1>5, <1>6, <1>7, <1>8 DEF Next, Ended

-----------------------------------------------------------------------------
(* The pieces in flight *)

\* Pieces keep their bytes while they and Telegram stand still.
LEMMA PiecesFrame ==
    ASSUME Pieces, UNCHANGED <<dangBay, live, posted>>
    PROVE  Pieces'
BY DEF Pieces

\* No piece, nothing to keep.
LEMMA PiecesNone ==
    ASSUME dangBay' = <<>>
    PROVE  Pieces'
BY DEF Pieces

\* A piece handed off carries the bytes of its chunk.
LEMMA HandOffPieces ==
    ASSUME TypeInv, Marks, Pieces, GiaoManhChoNen, UNCHANGED <<live, posted>>
    PROVE  Pieces'
<1> DEFINE m == [index |-> chunkIndex, offset |-> chunkOffset, size |-> chunkWritten,
                 data |-> buffer, hash |-> hasher, pc |-> "pushing", doc |-> 0]
<1>1. dangBay \in Seq(Piece) /\ dangBay' = Append(dangBay, m)
  BY DEF TypeInv, TypeOK, FlightType, GiaoManhChoNen
<1>2. \A i \in DOMAIN dangBay' :
         IF i \in DOMAIN dangBay THEN dangBay'[i] = dangBay[i] ELSE dangBay'[i] = m
  BY <1>1
<1>3. /\ m.data = Span(m.offset, m.size) /\ m.hash = Span(0, m.offset + m.size)
      /\ m.pc # "ok"
  BY DEF Marks
<1>4. QED
  BY <1>2, <1>3 DEF Pieces

\* The pieces behind the one taken back keep their bytes.
LEMMA TakeBackPieces ==
    ASSUME TypeInv, Pieces, HeadLanded, dangBay' = Tail(dangBay), UNCHANGED <<live, posted>>
    PROVE  Pieces'
<1>1. dangBay \in Seq(Piece) /\ dangBay # <<>>
  BY DEF TypeInv, TypeOK, FlightType, HeadLanded
<1>2. \A i \in DOMAIN dangBay' : i + 1 \in DOMAIN dangBay /\ dangBay'[i] = dangBay[i + 1]
  BY <1>1
<1>3. QED
  BY <1>2 DEF Pieces

\* What a step of a background thread changes: its own piece, and perhaps one more
\* document, which the piece names if it knows of it.
LEMMA PieceStepEffect ==
    ASSUME TypeInv, PieceStep
    PROVE  /\ dangBay # <<>> /\ DOMAIN dangBay' = DOMAIN dangBay /\ Len(dangBay') = Len(dangBay)
           /\ \A j \in DOMAIN dangBay : /\ dangBay'[j].index = dangBay[j].index
                                        /\ dangBay'[j].offset = dangBay[j].offset
                                        /\ dangBay'[j].size = dangBay[j].size
                                        /\ dangBay'[j].data = dangBay[j].data
                                        /\ dangBay'[j].hash = dangBay[j].hash
                                        /\ \/ dangBay'[j].pc # "ok"
                                           \/ /\ dangBay'[j].pc = dangBay[j].pc
                                              /\ dangBay'[j].doc = dangBay[j].doc
                                           \/ /\ dangBay'[j].doc = Len(posted) + 1
                                              /\ Len(posted) + 1 \in live'
                                              /\ posted' = Append(posted, dangBay[j].data)
           /\ live \subseteq live'
           /\ posted' = posted \/ \E data \in Seq(Nat) : posted' = Append(posted, data)
           /\ UNCHANGED <<flagVars, callVars, chunkVars, markVars, manhHong, loiManhDau,
                          keptVars, dbVars>>
<1>1. PICK i \in DOMAIN dangBay : PushPiece(i) \/ FinishPiece(i)
  BY DEF PieceStep
<1>2. dangBay \in Seq(Piece) /\ Len(posted) \in Nat /\ dangBay[i] \in Piece
  BY DEF TypeInv, TypeOK, FlightType, TgType
<1>3. /\ dangBay # <<>> /\ DOMAIN dangBay' = DOMAIN dangBay /\ Len(dangBay') = Len(dangBay)
      /\ \A j \in DOMAIN dangBay : j # i => dangBay'[j] = dangBay[j]
  BY <1>1, <1>2 DEF PushPiece, FinishPiece, PieceEnds
<1>4. UNCHANGED <<flagVars, callVars, chunkVars, markVars, manhHong, loiManhDau,
                  keptVars, dbVars>>
  BY <1>1 DEF PushPiece, FinishPiece
<1>5. live \subseteq live' /\ (posted' = posted \/ \E data \in Seq(Nat) : posted' = Append(posted, data))
  BY <1>1, <1>2 DEF PushPiece, FinishPiece, tgVars, Piece
<1>6. ASSUME \E how \in {"finishing"} \cup Kinds : PieceEnds(i, how)
      PROVE  /\ dangBay'[i].index = dangBay[i].index /\ dangBay'[i].offset = dangBay[i].offset
             /\ dangBay'[i].size = dangBay[i].size /\ dangBay'[i].data = dangBay[i].data
             /\ dangBay'[i].hash = dangBay[i].hash /\ dangBay'[i].pc # "ok"
  <2>1. PICK how \in {"finishing"} \cup Kinds : PieceEnds(i, how)
    BY <1>6
  <2>2. dangBay'[i] = [dangBay[i] EXCEPT !.pc = how]
    BY <1>2, <2>1 DEF PieceEnds
  <2>3. how # "ok"
    BY DEF Kinds
  <2>4. QED
    BY <1>2, <2>2, <2>3 DEF Piece
<1>7. CASE /\ dangBay' = [dangBay EXCEPT ![i].pc = "ok", ![i].doc = Len(posted) + 1]
           /\ posted' = Append(posted, dangBay[i].data)
           /\ live' = live \cup {Len(posted) + 1}
  <2>1. dangBay'[i] = [dangBay[i] EXCEPT !.pc = "ok", !.doc = Len(posted) + 1]
    BY <1>2, <1>7
  <2>2. /\ dangBay'[i].index = dangBay[i].index /\ dangBay'[i].offset = dangBay[i].offset
        /\ dangBay'[i].size = dangBay[i].size /\ dangBay'[i].data = dangBay[i].data
        /\ dangBay'[i].hash = dangBay[i].hash /\ dangBay'[i].doc = Len(posted) + 1
    BY <1>2, <2>1 DEF Piece
  <2>3. Len(posted) + 1 \in live'
    BY <1>7
  <2>4. QED
    BY <1>3, <1>4, <1>5, <1>7, <2>2, <2>3
<1>8. CASE \E how \in {"finishing"} \cup Kinds : PieceEnds(i, how)
  BY <1>3, <1>4, <1>5, <1>6, <1>8
<1>9. QED
  <2>1. CASE PushPiece(i)
    BY <1>8, <2>1 DEF PushPiece, Kinds
  <2>2. CASE FinishPiece(i)
    BY <1>7, <1>8, <2>2 DEF FinishPiece
  <2>3. QED
    BY <1>1, <2>1, <2>2

\* Documents once posted keep their place and content.
LEMMA PostedGrows ==
    ASSUME TypeInv, posted' = posted \/ \E data \in Seq(Nat) : posted' = Append(posted, data)
    PROVE  /\ DOMAIN posted \subseteq DOMAIN posted'
           /\ \A d \in DOMAIN posted : posted'[d] = posted[d]
<1>1. posted \in Seq(Seq(Nat))
  BY DEF TypeInv, TypeOK, TgType
<1>2. ASSUME NEW data \in Seq(Nat), posted' = Append(posted, data)
      PROVE  /\ DOMAIN posted \subseteq DOMAIN posted'
             /\ \A d \in DOMAIN posted : posted'[d] = posted[d]
  BY <1>1, <1>2
<1>3. QED
  BY <1>2

\* A document a thread posts holds the bytes of its piece.
LEMMA ThreadPieces ==
    ASSUME TypeInv, Accounts, Pieces, PieceStep
    PROVE  Pieces'
<1>1. Len(posted) \in Nat /\ DOMAIN posted = 1..Len(posted)
  BY Naturals
<1>2. /\ DOMAIN posted \subseteq DOMAIN posted'
      /\ \A d \in DOMAIN posted : posted'[d] = posted[d]
  BY PieceStepEffect, PostedGrows
<1>3. SUFFICES ASSUME NEW j \in DOMAIN dangBay
               PROVE  /\ dangBay'[j].data = Span(dangBay'[j].offset, dangBay'[j].size)
                      /\ dangBay'[j].hash = Span(0, dangBay'[j].offset + dangBay'[j].size)
                      /\ dangBay'[j].pc = "ok" => /\ dangBay'[j].doc \in live'
                                                  /\ posted'[dangBay'[j].doc] = dangBay'[j].data
  BY PieceStepEffect DEF Pieces
<1>4. /\ dangBay'[j].data = Span(dangBay'[j].offset, dangBay'[j].size)
      /\ dangBay'[j].hash = Span(0, dangBay'[j].offset + dangBay'[j].size)
      /\ dangBay'[j].data = dangBay[j].data
  BY PieceStepEffect DEF Pieces
<1>5. CASE dangBay'[j].pc # "ok"
  BY <1>4, <1>5
<1>6. CASE /\ dangBay'[j].pc = "ok" /\ dangBay'[j].pc = dangBay[j].pc
           /\ dangBay'[j].doc = dangBay[j].doc
  <2>1. dangBay[j].doc \in live /\ posted[dangBay[j].doc] = dangBay[j].data
    BY <1>6 DEF Pieces
  <2>2. dangBay[j].doc \in DOMAIN posted /\ live \subseteq live'
    BY <1>1, <2>1, PieceStepEffect DEF Accounts
  <2>3. QED
    BY <1>2, <1>4, <1>6, <2>1, <2>2
<1>7. CASE /\ dangBay'[j].doc = Len(posted) + 1 /\ Len(posted) + 1 \in live'
           /\ posted' = Append(posted, dangBay[j].data)
  <2>1. posted \in Seq(Seq(Nat))
    BY DEF TypeInv, TypeOK, TgType
  <2>2. posted'[Len(posted) + 1] = dangBay[j].data
    BY <1>7, <2>1
  <2>3. QED
    BY <1>4, <1>7, <2>2
<1>8. QED
  BY <1>5, <1>6, <1>7, PieceStepEffect

\* Every step keeps each piece with its own bytes.
LEMMA PiecesStep ==
    ASSUME Trusted, Inv, Content, Active', [Next]_vars
    PROVE  Pieces'
<1> USE SessionAssumption
    DEF flightVars, tgVars, Trusted, ParallelSession, Inv, Control, Slots, SavePhase
<1>0. Active /\ Marks /\ Pieces
  BY StaysActive DEF Content
<1>1. CASE ClientSends
  BY <1>1, <1>0, PiecesFrame DEF ClientSends, ReceiveCall
<1>2. CASE ClientCompletes
  <2>1. UNCHANGED <<live, posted>>
    BY <1>2 DEF ClientCompletes, CompleteCall
  <2>2. GiaoManhChoNen \/ dangBay' = dangBay
    BY <1>2 DEF ClientCompletes, CompleteCall
  <2>3. QED
    BY <1>0, <2>1, <2>2, HandOffPieces, PiecesFrame
<1>3. CASE ChotSo
  BY <1>3, <1>0, PiecesFrame DEF ChotSo
<1>4. CASE CancelRequest
  BY <1>4, <1>0, PiecesFrame DEF CancelRequest
<1>5. CASE Cancel
  BY <1>5, <1>0, PiecesFrame DEF Cancel
<1>6. CASE HandlerStep
  <2>1. CASE ReceiveStopped
    BY <2>1, <1>0, PiecesFrame DEF ReceiveStopped
  <2>2. CASE OpenChunk
    BY <2>2, <1>0, PiecesFrame DEF OpenChunk
  <2>3. CASE OpenChunkFails
    BY <2>3, <1>0, PiecesFrame DEF OpenChunkFails
  <2>4. CASE AppendBytes
    BY <2>4, <1>0, PiecesFrame DEF AppendBytes
  <2>5. CASE SpoolFails
    BY <2>5, <1>0, PiecesFrame DEF SpoolFails
  <2>6. CASE StreamFails
    BY <2>6, <1>0, PiecesFrame DEF StreamFails
  <2>7. CASE HandOff
    BY <2>7, <1>0, HandOffPieces DEF HandOff
  <2>8. CASE ChunkClosed
    BY <2>8, PiecesNone DEF ChunkClosed
  <2>9. CASE CloseChunkFails
    BY <2>9, PiecesNone DEF CloseChunkFails
  <2>10. CASE Harvest
    BY <2>10, <1>0, ThuMotManhKeeps, TakeBackPieces DEF Harvest
  <2>11. CASE Drain
    BY <2>11, <1>0, ThuMotManhKeeps, TakeBackPieces DEF Drain
  <2>12. CASE ReceiveDrained
    BY <2>12, <1>0, PiecesNone, ThuHetManhLength DEF ReceiveDrained
  <2>13. CASE ChotSoDrained
    BY <2>13, <1>0, PiecesNone, ThuHetManhLength DEF ChotSoDrained
  <2>14. CASE CompleteDrained
    BY <2>14, <1>0, PiecesNone, ThuHetManhLength DEF CompleteDrained
  <2>15. CASE NoTwin
    BY <2>15, <1>0, PiecesFrame DEF NoTwin
  <2>16. CASE TakeTwin
    BY <2>16, PiecesNone DEF TakeTwin
  <2>17. CASE CopyTwinRows
    BY <2>17, <1>0, PiecesFrame DEF CopyTwinRows
  <2>18. CASE KeepOthers
    BY <2>18, <1>0, PiecesFrame DEF KeepOthers
  <2>19. CASE PurgeOld
    BY <2>19, PiecesNone DEF PurgeOld
  <2>20. CASE WriteEntry
    BY <2>20, <1>0, PiecesFrame DEF WriteEntry
  <2>21. CASE AddChunk
    BY <2>21, <1>0, PiecesFrame DEF AddChunk
  <2>22. CASE DatabaseFails
    BY <2>22, <1>0, PiecesFrame DEF DatabaseFails
  <2>23. CASE Finish
    BY <2>23, PiecesNone DEF Finish
  <2>24. CASE CancelDrained
    BY <2>24, PiecesNone DEF CancelDrained
  <2>25. QED
    BY <1>6, <2>1, <2>2, <2>3, <2>4, <2>5, <2>6, <2>7, <2>8, <2>9, <2>10, <2>11, <2>12,
       <2>13, <2>14, <2>15, <2>16, <2>17, <2>18, <2>19, <2>20, <2>21, <2>22, <2>23, <2>24
    DEF HandlerStep
<1>7. CASE PieceStep
  BY <1>7, <1>0, ThreadPieces
<1>8. CASE UNCHANGED vars
  BY <1>0, <1>8, PiecesFrame DEF vars
<1>9. QED
  BY <1>1, <1>2, <1>3, <1>4, <1>5, <1>6, <1>7, <1>8 DEF Next, Ended

-----------------------------------------------------------------------------
(* The pieces in flight follow each other *)

\* Indices and offsets of the pieces are numbers.
LEMMA PieceNumbers ==
    ASSUME TypeInv
    PROVE  /\ Len(dangBay) \in Nat /\ DOMAIN dangBay = 1..Len(dangBay)
           /\ dangBay = <<>> <=> Len(dangBay) = 0
           /\ \A i \in DOMAIN dangBay : /\ dangBay[i].index \in Nat /\ dangBay[i].offset \in Nat
                                        /\ dangBay[i].size \in Nat /\ dangBay[i].doc \in Nat
<1>1. dangBay \in Seq(Piece)
  BY DEF TypeInv, TypeOK, FlightType
<1>2. \A i \in DOMAIN dangBay : dangBay[i] \in Piece
  BY <1>1
<1>3. dangBay = <<>> <=> Len(dangBay) = 0
  BY <1>1, LengthZero
<1>4. \A x \in Piece : x.index \in Nat /\ x.offset \in Nat /\ x.size \in Nat /\ x.doc \in Nat
  BY DEF Piece
<1>5. QED
  BY <1>1, <1>2, <1>3, <1>4

\* The chain stays while pieces and marks stand still.
LEMMA ChainFrame ==
    ASSUME Chain, UNCHANGED <<dangBay, chunkOffset, chunkIndex, committedBytes, manhHong>>,
           manhHong => pc' = "drain"
    PROVE  Chain'
BY DEF Chain, HeadOffset, EndOf, IndexOf

\* A piece handed off extends the chain.
LEMMA HandOffChain ==
    ASSUME TypeInv, Chain, ~manhHong, GiaoManhChoNen, UNCHANGED committedBytes
    PROVE  Chain'
<1> DEFINE m == [index |-> chunkIndex, offset |-> chunkOffset, size |-> chunkWritten,
                 data |-> buffer, hash |-> hasher, pc |-> "pushing", doc |-> 0]
           n == Len(dangBay)
<1>1. dangBay \in Seq(Piece) /\ dangBay' = Append(dangBay, m)
  BY DEF TypeInv, TypeOK, FlightType, GiaoManhChoNen
<1>2. /\ n \in Nat /\ DOMAIN dangBay = 1..n /\ DOMAIN dangBay' = 1..(n + 1)
      /\ Len(dangBay') = n + 1 /\ dangBay' # <<>> /\ dangBay'[n + 1] = m
      /\ \A i \in 1..n : dangBay'[i] = dangBay[i]
  BY <1>1
<1>3. /\ m.index = chunkIndex /\ m.offset = chunkOffset /\ m.size = chunkWritten
      /\ chunkOffset' = chunkOffset + chunkWritten /\ chunkIndex' = chunkIndex + 1
      /\ ~manhHong'
  BY DEF GiaoManhChoNen, ChunkEnd
<1>4. /\ chunkOffset \in Nat /\ chunkWritten \in Nat /\ committedBytes \in Nat
      /\ chunkIndex \in Nat
  BY Naturals
<1>5. \A i \in 1..n : dangBay[i].offset \in Nat /\ dangBay[i].size \in Nat
  BY PieceNumbers
<1> HIDE DEF m, n
<1>6. /\ committedBytes <= chunkOffset
      /\ \A i \in 1..n : /\ committedBytes <= dangBay[i].offset
                         /\ dangBay[i].offset + dangBay[i].size <= chunkOffset
  BY <1>2 DEF Chain
<1>7. ASSUME NEW i \in 1..(n + 1)
      PROVE  /\ dangBay'[i].offset + dangBay'[i].size = EndOf(i)'
             /\ dangBay'[i].index + 1 = IndexOf(i)'
             /\ committedBytes <= dangBay'[i].offset
             /\ dangBay'[i].offset + dangBay'[i].size <= chunkOffset'
  <2>1. CASE i = n + 1
    BY <1>2, <1>3, <1>4, <1>6, <2>1 DEF EndOf, IndexOf
  <2>2. CASE i \in 1..n /\ i # n
    <3>1. i + 1 \in 1..n /\ i # n + 1
      BY <1>2, <2>2
    <3>2. /\ dangBay[i].offset + dangBay[i].size = dangBay[i + 1].offset
          /\ dangBay[i].index + 1 = dangBay[i + 1].index
      BY <1>2, <2>2 DEF Chain, EndOf, IndexOf, n
    <3>3. EndOf(i)' = dangBay'[i + 1].offset /\ IndexOf(i)' = dangBay'[i + 1].index
      BY <1>2, <3>1 DEF EndOf, IndexOf
    <3>4. dangBay'[i] = dangBay[i] /\ dangBay'[i + 1] = dangBay[i + 1]
      BY <1>2, <2>2, <3>1
    <3>5. QED
      BY <1>3, <1>4, <1>5, <1>6, <2>2, <3>2, <3>3, <3>4
  <2>3. CASE i = n /\ n # 0
    <3>1. /\ dangBay[i].offset + dangBay[i].size = chunkOffset
          /\ dangBay[i].index + 1 = chunkIndex
      BY <1>2, <2>3 DEF Chain, EndOf, IndexOf, n
    <3>2. EndOf(i)' = dangBay'[n + 1].offset /\ IndexOf(i)' = dangBay'[n + 1].index
      BY <1>2, <2>3 DEF EndOf, IndexOf
    <3>3. dangBay'[i] = dangBay[i] /\ i \in 1..n
      BY <1>2, <2>3
    <3>4. QED
      BY <1>2, <1>3, <1>4, <1>5, <1>6, <3>1, <3>2, <3>3
  <2>4. QED
    BY <1>2, <2>1, <2>2, <2>3
<1>8. ASSUME NEW i \in 1..(n + 1), NEW j \in 1..(n + 1), i < j
      PROVE  dangBay'[i].offset + dangBay'[i].size <= dangBay'[j].offset
  <2>1. i \in 1..n /\ (j \in 1..n \/ j = n + 1)
    BY <1>2, <1>8
  <2>2. CASE j \in 1..n
    BY <1>2, <1>8, <2>1, <2>2 DEF Chain
  <2>3. CASE j = n + 1
    BY <1>2, <1>3, <1>6, <2>1, <2>3
  <2>4. QED
    BY <2>1, <2>2, <2>3
<1>9. HeadOffset' = HeadOffset
  <2>1. CASE n = 0
    BY <1>2, <1>3, <2>1, PieceNumbers DEF HeadOffset, n
  <2>2. CASE n # 0
    <3>1. 1 \in 1..n /\ dangBay # <<>>
      BY <1>2, <2>2, PieceNumbers DEF n
    <3>2. QED
      BY <1>2, <3>1 DEF HeadOffset
  <2>3. QED
    BY <2>1, <2>2
<1>10. committedBytes' <= chunkOffset'
  BY <1>3, <1>4, <1>6
<1>11. QED
  BY <1>2, <1>3, <1>7, <1>8, <1>9, <1>10 DEF Chain

\* The head leaves the queue: what follows it becomes the head.
LEMMA TakeBackChain ==
    ASSUME TypeInv, Chain, ThuMotManh, pc' = "drain" \/ ~manhHong',
           UNCHANGED <<chunkOffset, chunkIndex>>
    PROVE  /\ Chain'
           /\ committedBytes <= committedBytes' /\ committedBytes' <= chunkOffset
<1> DEFINE n == Len(dangBay)
<1>1. HeadLanded /\ dangBay' = Tail(dangBay)
  BY DEF ThuMotManh
<1>2. dangBay \in Seq(Piece) /\ dangBay # <<>>
  BY <1>1 DEF TypeInv, TypeOK, FlightType, HeadLanded
<1>3. /\ n \in Nat /\ n >= 1 /\ DOMAIN dangBay = 1..n /\ DOMAIN dangBay' = 1..(n - 1)
      /\ Len(dangBay') = n - 1 /\ (dangBay' = <<>> <=> n = 1)
      /\ \A i \in 1..(n - 1) : i + 1 \in 1..n /\ dangBay'[i] = dangBay[i + 1]
  <2>1. n \in Nat /\ n # 0
    BY <1>2, LengthZero
  <2>2. Tail(dangBay) \in Seq(Piece) /\ Len(Tail(dangBay)) = n - 1
    BY <1>2
  <2>3. Tail(dangBay) = <<>> <=> n - 1 = 0
    BY <2>2, LengthZero
  <2>4. QED
    BY <1>1, <1>2, <2>1, <2>2, <2>3
<1> HIDE DEF n
<1>4. /\ chunkOffset \in Nat /\ committedBytes \in Nat
      /\ \A i \in 1..n : dangBay[i].offset \in Nat /\ dangBay[i].size \in Nat
  BY <1>3, Naturals, PieceNumbers
<1>5. \/ committedBytes' = committedBytes /\ manhHong'
      \/ /\ committedBytes' = dangBay[1].offset + dangBay[1].size
         /\ ~manhHong' /\ ~manhHong
  BY DEF ThuMotManh, TypeInv, TypeOK, FlightType
<1>6. /\ committedBytes <= dangBay[1].offset
      /\ dangBay[1].offset + dangBay[1].size <= chunkOffset
      /\ dangBay[1].offset + dangBay[1].size = EndOf(1)
  BY <1>3 DEF Chain
<1>7. committedBytes <= committedBytes' /\ committedBytes' <= chunkOffset
  BY <1>3, <1>4, <1>5, <1>6 DEF Chain
<1>8. ASSUME NEW i \in 1..(n - 1)
      PROVE  /\ dangBay'[i].offset + dangBay'[i].size = EndOf(i)'
             /\ dangBay'[i].index + 1 = IndexOf(i)'
             /\ committedBytes' <= dangBay'[i].offset
             /\ dangBay'[i].offset + dangBay'[i].size <= chunkOffset
  <2>1. i + 1 \in 1..n /\ dangBay'[i] = dangBay[i + 1] /\ 1 < i + 1 /\ 1 \in 1..n
    BY <1>3
  <2>2. EndOf(i)' = EndOf(i + 1) /\ IndexOf(i)' = IndexOf(i + 1)
    <3>1. CASE i = n - 1
      BY <1>3, <3>1 DEF EndOf, IndexOf, n
    <3>2. CASE i # n - 1
      <4>1. i + 1 \in 1..(n - 1)
        BY <1>3, <3>2
      <4>2. dangBay'[i + 1] = dangBay[(i + 1) + 1]
        BY <1>3, <4>1
      <4>3. i # n - 1 /\ i + 1 # n /\ i \in Nat
        BY <1>3, <3>2
      <4>4. /\ EndOf(i)' = dangBay'[i + 1].offset
            /\ IndexOf(i)' = dangBay'[i + 1].index
        BY <1>3, <4>3 DEF EndOf, IndexOf
      <4>5. /\ EndOf(i + 1) = dangBay[(i + 1) + 1].offset
            /\ IndexOf(i + 1) = dangBay[(i + 1) + 1].index
        BY <1>3, <4>3 DEF EndOf, IndexOf, n
      <4>6. QED
        BY <4>2, <4>4, <4>5
    <3>3. QED
      BY <3>1, <3>2
  <2>3. committedBytes' <= dangBay[i + 1].offset
    <3>1. /\ committedBytes <= dangBay[i + 1].offset
          /\ dangBay[1].offset + dangBay[1].size <= dangBay[i + 1].offset
      BY <1>3, <2>1 DEF Chain
    <3>2. QED
      BY <1>5, <3>1
  <2>4. /\ dangBay[i + 1].offset + dangBay[i + 1].size = EndOf(i + 1)
        /\ dangBay[i + 1].index + 1 = IndexOf(i + 1)
        /\ dangBay[i + 1].offset + dangBay[i + 1].size <= chunkOffset
    BY <1>3, <2>1 DEF Chain
  <2>5. QED
    BY <2>1, <2>2, <2>3, <2>4
<1>9. ASSUME NEW i \in 1..(n - 1), NEW j \in 1..(n - 1), i < j
      PROVE  dangBay'[i].offset + dangBay'[i].size <= dangBay'[j].offset
  <2>1. i + 1 \in 1..n /\ j + 1 \in 1..n /\ i + 1 < j + 1
    BY <1>3, <1>9
  <2>2. QED
    BY <1>3, <2>1 DEF Chain
<1>10. HeadOffset' = EndOf(1)
  <2>1. CASE n = 1
    BY <1>3, <2>1 DEF HeadOffset, EndOf, n
  <2>2. CASE n # 1
    <3>1. 1 \in 1..(n - 1)
      BY <1>3, <2>2
    <3>2. dangBay'[1] = dangBay[1 + 1] /\ dangBay' # <<>>
      BY <1>3, <2>2, <3>1
    <3>3. QED
      BY <1>3, <2>2, <3>2 DEF HeadOffset, EndOf, n
  <2>3. QED
    BY <2>1, <2>2
<1>11. Chain'
  BY <1>3, <1>5, <1>6, <1>7, <1>8, <1>9, <1>10 DEF Chain
<1>12. QED
  BY <1>7, <1>11

\* After a step back the chain is the empty one at committedBytes.
LEMMA LuiMocChain ==
    ASSUME TypeInv, LuiMoc, dangBay = <<>>
    PROVE  Chain'
BY Naturals DEF LuiMoc, StepBackTo, Chain, HeadOffset

\* A thread does not move its piece.
LEMMA ThreadChain ==
    ASSUME TypeInv, Chain, PieceStep
    PROVE  Chain'
<1>1. /\ dangBay # <<>> /\ DOMAIN dangBay' = DOMAIN dangBay /\ Len(dangBay') = Len(dangBay)
      /\ \A j \in DOMAIN dangBay : /\ dangBay'[j].index = dangBay[j].index
                                   /\ dangBay'[j].offset = dangBay[j].offset
                                   /\ dangBay'[j].size = dangBay[j].size
      /\ UNCHANGED <<callVars, chunkVars, markVars, manhHong>>
  BY PieceStepEffect
<1>2. Len(dangBay) \in Nat /\ DOMAIN dangBay = 1..Len(dangBay) /\ 1 \in DOMAIN dangBay
  BY <1>1, PieceNumbers
<1>3. dangBay' # <<>>
  BY <1>1, <1>2
<1>4. HeadOffset' = HeadOffset
  BY <1>1, <1>2, <1>3 DEF HeadOffset
<1>5. \A i \in DOMAIN dangBay : EndOf(i)' = EndOf(i) /\ IndexOf(i)' = IndexOf(i)
  BY <1>1, <1>2 DEF EndOf, IndexOf, chunkVars
<1>6. QED
  BY <1>1, <1>4, <1>5 DEF Chain, chunkVars, markVars, callVars

\* Every step keeps the pieces in a chain from committed prefix to open chunk.
\* Nothing flies, and the next chunk begins where the committed prefix ends.
LEMMA ClosedChain ==
    ASSUME TypeInv, Marks, ChunkClosed, dangBay = <<>>, ~manhHong,
           pc = "close" => caller \in {"receive", "complete"}
    PROVE  Chain'
<1>1. dangBay' = <<>> /\ manhHong' = FALSE
  BY DEF ChunkClosed, flightVars, TypeInv, TypeOK, FlightType
<1>2. chunkOffset' = receivedBytes /\ committedBytes' = receivedBytes /\ receivedBytes \in Nat
  BY ClosedMarks, Naturals
<1> QED BY <1>1, <1>2 DEF Chain, HeadOffset

LEMMA ChainStep ==
    ASSUME Trusted, Inv, Content, Active', [Next]_vars
    PROVE  Chain'
<1> USE SessionAssumption, Unfailing
    DEF Trusted, ParallelSession, Inv, Control, Slots, SavePhase, callVars, chunkVars, markVars,
        flightVars, Return, Goto
<1>0. Active /\ Marks /\ Chain
  BY StaysActive DEF Content
<1>00. manhHong => pc = "drain"
  BY <1>0 DEF Chain
<1>1. CASE ClientSends
  BY <1>1, <1>0, <1>00, ChainFrame DEF ClientSends, ReceiveCall
<1>2. CASE ClientCompletes
  <2>1. CASE GiaoManhChoNen
    BY <1>2, <1>0, <1>00, <2>1, HandOffChain DEF ClientCompletes, CompleteCall
  <2>2. CASE ~GiaoManhChoNen
    BY <1>2, <1>0, <1>00, <2>2, ChainFrame DEF ClientCompletes, CompleteCall
  <2>3. QED
    BY <2>1, <2>2
<1>3. CASE ChotSo
  BY <1>3, <1>0, <1>00, ChainFrame DEF ChotSo
<1>4. CASE CancelRequest
  BY <1>4, <1>0, <1>00, ChainFrame DEF CancelRequest
<1>5. CASE Cancel
  BY <1>5 DEF Cancel, Active
<1>6. CASE HandlerStep
  <2>1. CASE ReceiveStopped
    BY <2>1, <1>0, <1>00, ChainFrame DEF ReceiveStopped
  <2>2. CASE OpenChunk
    BY <2>2, <1>0, <1>00, ChainFrame DEF OpenChunk
  <2>3. CASE OpenChunkFails
    BY <2>3, <1>0, <1>00, ChainFrame DEF OpenChunkFails
  <2>4. CASE AppendBytes
    BY <2>4, <1>0, <1>00, ChainFrame DEF AppendBytes
  <2>5. CASE SpoolFails
    BY <2>5, <1>0, <1>00, ChainFrame DEF SpoolFails, ReportError
  <2>6. CASE StreamFails
    BY <2>6, <1>0, <1>00, ChainFrame DEF StreamFails
  <2>7. CASE HandOff
    BY <2>7, <1>0, <1>00, HandOffChain DEF HandOff
  <2>8. CASE ChunkClosed
    <3>1. pc = "close" /\ dangBay = <<>> /\ ~manhHong
      BY <2>8, <1>00 DEF ChunkClosed
    <3> QED BY <2>8, <1>0, <3>1, ClosedChain
  <2>9. CASE CloseChunkFails
    BY <2>9, <1>0, <1>00, ChainFrame DEF CloseChunkFails
  <2>10. CASE Harvest
    BY <2>10, <1>0, TakeBackChain DEF Harvest
  <2>11. CASE Drain
    BY <2>11, <1>0, TakeBackChain DEF Drain, Active
  <2>12. CASE ReceiveDrained
    <3>1. CASE manhHong
      BY <2>12, <3>1, LuiMocChain DEF ReceiveDrained, ThuHetManh
    <3>2. CASE ~manhHong
      BY <2>12, <1>0, <3>2, ChainFrame DEF ReceiveDrained, ThuHetManh
    <3>3. QED
      BY <3>1, <3>2
  <2>13. CASE ChotSoDrained
    <3>1. CASE manhHong
      BY <2>13, <3>1, LuiMocChain DEF ChotSoDrained, ThuHetManh
    <3>2. CASE ~manhHong
      BY <2>13, <1>0, <3>2, ChainFrame DEF ChotSoDrained, ThuHetManh
    <3>3. QED
      BY <3>1, <3>2
  <2>14. CASE CompleteDrained
    <3>1. CASE manhHong
      BY <2>14, <3>1, LuiMocChain DEF CompleteDrained, ThuHetManh
    <3>2. CASE ~manhHong
      BY <2>14, <1>0, <3>2, ChainFrame DEF CompleteDrained, ThuHetManh
    <3>3. QED
      BY <3>1, <3>2
  <2>15. CASE NoTwin
    BY <2>15, <1>0, <1>00, ChainFrame DEF NoTwin
  <2>16. CASE TakeTwin
    BY <2>16, <1>0, <1>00, ChainFrame DEF TakeTwin
  <2>17. CASE CopyTwinRows
    BY <2>17, <1>0, <1>00, ChainFrame DEF CopyTwinRows
  <2>18. CASE KeepOthers
    BY <2>18, <1>0, <1>00, ChainFrame DEF KeepOthers
  <2>19. CASE PurgeOld
    BY <2>19, <1>0, <1>00, ChainFrame DEF PurgeOld
  <2>20. CASE WriteEntry
    BY <2>20, <1>0, <1>00, ChainFrame DEF WriteEntry
  <2>21. CASE AddChunk
    BY <2>21, <1>0, <1>00, ChainFrame DEF AddChunk
  <2>22. CASE DatabaseFails
    BY <2>22, <1>0, <1>00, ChainFrame DEF DatabaseFails
  <2>23. CASE Finish
    BY <2>23, <1>0, <1>00, ChainFrame DEF Finish
  <2>24. CASE CancelDrained
    BY <2>24 DEF CancelDrained, Active, flagVars
  <2>25. QED
    BY <1>6, <2>1, <2>2, <2>3, <2>4, <2>5, <2>6, <2>7, <2>8, <2>9, <2>10, <2>11, <2>12,
       <2>13, <2>14, <2>15, <2>16, <2>17, <2>18, <2>19, <2>20, <2>21, <2>22, <2>23, <2>24
    DEF HandlerStep
<1>7. CASE PieceStep
  BY <1>7, <1>0, ThreadChain
<1>8. CASE UNCHANGED vars
  BY <1>0, <1>00, <1>8, ChainFrame DEF vars
<1>9. QED
  BY <1>1, <1>2, <1>3, <1>4, <1>5, <1>6, <1>7, <1>8 DEF Next, Ended

-----------------------------------------------------------------------------
(* The chunk list is the committed prefix *)

\* The chunk list stays the committed prefix while what it rests on stands still.
LEMMA OwnFrame ==
    ASSUME Own, UNCHANGED <<chunkRecords, committedBytes, uploaded, live, posted, dangBay,
                            chunkIndex, manhHong>>
    PROVE  Own'
BY DEF Own, Chained, Covers, Docs, HeadIndex

\* A piece handed off stands behind those in flight, so the head keeps its number.
LEMMA OwnHandOff ==
    ASSUME TypeInv, Own, GiaoManhChoNen,
           UNCHANGED <<chunkRecords, committedBytes, uploaded, live, posted>>
    PROVE  Own'
<1> DEFINE m == [index |-> chunkIndex, offset |-> chunkOffset, size |-> chunkWritten,
                 data |-> buffer, hash |-> hasher, pc |-> "pushing", doc |-> 0]
<1>1. /\ dangBay \in Seq(Piece) /\ dangBay' = Append(dangBay, m) /\ m.index = chunkIndex
      /\ manhHong' = manhHong
  BY DEF TypeInv, TypeOK, FlightType, GiaoManhChoNen
<1> HIDE DEF m
<1>2. dangBay' # <<>> /\ dangBay'[1] = IF dangBay = <<>> THEN m ELSE dangBay[1]
  BY <1>1
<1>3. HeadIndex' = HeadIndex
  BY <1>1, <1>2 DEF HeadIndex
<1>4. QED
  BY <1>1, <1>3 DEF Own, Chained, Covers, Docs

\* What a piece taken back does to the chunk list: it is the next record, or it only
\* stands in uploaded_.
LEMMA OwnTakeBack ==
    ASSUME TypeInv, Accounts, Pieces, Chain, Own, ThuMotManh,
           UNCHANGED <<live, posted, chunkIndex>>
    PROVE  Own'
<1> DEFINE m == dangBay[1]
           r == [index |-> m.index, offset |-> m.offset, size |-> m.size, doc |-> m.doc]
           n == Len(dangBay)
<1>1. HeadLanded /\ dangBay' = Tail(dangBay) /\ uploaded' = KeepForRollback(m)
  BY ThuMotManhKeeps
<1>2. dangBay \in Seq(Piece) /\ dangBay # <<>> /\ m \in Piece /\ 1 \in DOMAIN dangBay
  BY <1>1, HeadPiece DEF TypeInv, TypeOK, FlightType, HeadLanded
<1>3. CASE manhHong \/ m.pc # "ok"
  <2>1. manhHong' /\ UNCHANGED <<chunkRecords, committedBytes>>
    BY <1>3 DEF ThuMotManh
  <2>2. uploaded \subseteq uploaded'
    BY <1>1 DEF KeepForRollback
  <2>3. QED
    BY <2>1, <2>2 DEF Own, Chained, Covers, Docs
<1>4. CASE ~(manhHong \/ m.pc # "ok")
  <2>1. /\ chunkRecords' = Append(chunkRecords, r) /\ uploaded' = uploaded \cup {m.doc}
        /\ committedBytes' = m.offset + m.size /\ ~manhHong'
    BY <1>4 DEF ThuMotManh, KeepRecord
  <2>2. r \in Record /\ chunkRecords \in Seq(Record)
    BY <1>2 DEF Piece, Record, TypeInv, TypeOK, KeptType
  <2>3. /\ r.index = m.index /\ r.offset = m.offset /\ r.size = m.size /\ r.doc = m.doc
    OBVIOUS
  <2>4. m.index = Len(chunkRecords) /\ m.offset = Covers(chunkRecords)
    BY <1>2, <1>4 DEF Own, Chain, HeadIndex, HeadOffset
  <2>5. m.doc \in live /\ posted[m.doc] = Span(m.offset, m.size)
    BY <1>2, <1>4 DEF Pieces
  <2>6. m.doc \in DOMAIN posted
    BY <2>5, Naturals DEF Accounts
  <2> HIDE DEF m, r, n
  <2>7. /\ Chained(Append(chunkRecords, r)) /\ Covers(Append(chunkRecords, r)) = m.offset + m.size
        /\ Docs(Append(chunkRecords, r)) = Docs(chunkRecords) \cup {m.doc}
    <3>1. /\ Chained(chunkRecords) /\ r.index = Len(chunkRecords)
          /\ r.offset = Covers(chunkRecords) /\ r.doc \in live \cap DOMAIN posted
          /\ posted[r.doc] = Span(r.offset, r.size)
      BY <2>3, <2>4, <2>5, <2>6 DEF Own
    <3>2. QED
      BY <2>2, <2>3, <3>1, AppendChained
  <2>8. Chained(chunkRecords)' /\ Covers(chunkRecords)' = committedBytes'
    BY <2>1, <2>7 DEF Chained, Covers
  <2>9. Docs(chunkRecords)' \subseteq uploaded'
    BY <2>1, <2>7 DEF Docs, Own
  <2>10. Len(chunkRecords') = Len(chunkRecords) + 1
    BY <2>1, <2>2
  <2>11. HeadIndex' = m.index + 1
    <3>1. m.index + 1 = IndexOf(1)
      BY <1>2 DEF Chain, m
    <3>2. n \in Nat /\ n # 0
      BY <1>2, LengthZero DEF n
    <3>3. CASE n = 1
      <4>1. dangBay' = <<>>
        BY <1>1, <1>2, <3>3 DEF n
      <4>2. QED
        BY <3>1, <3>3, <4>1 DEF HeadIndex, IndexOf, n
    <3>4. CASE n # 1
      <4>0. Tail(dangBay) \in Seq(Piece) /\ Len(Tail(dangBay)) = n - 1
        BY <1>2 DEF n
      <4>01. n - 1 # 0 /\ n >= 2
        BY <3>2, <3>4
      <4>02. Tail(dangBay) # <<>>
        BY <4>0, <4>01, LengthZero
      <4>03. Tail(dangBay)[1] = dangBay[1 + 1]
        BY <1>2, <4>01 DEF n
      <4>1. dangBay' # <<>> /\ dangBay'[1] = dangBay[1 + 1]
        BY <1>1, <4>02, <4>03
      <4>2. QED
        BY <3>1, <3>4, <4>1 DEF HeadIndex, IndexOf, n
    <3>5. QED
      BY <3>3, <3>4
  <2>12. QED
    BY <2>4, <2>8, <2>9, <2>10, <2>11 DEF Own
<1>5. QED
  BY <1>3, <1>4

\* The step back numbers the next chunk after the last record.
LEMMA OwnLuiMoc ==
    ASSUME TypeInv, Own, LuiMoc, dangBay = <<>>,
           UNCHANGED <<chunkRecords, uploaded, live, posted>>
    PROVE  Own'
<1>1. chunkRecords \in Seq(Record)
  BY DEF TypeInv, TypeOK, KeptType
<1>2. NextIndex = Len(chunkRecords)
  <2>1. CASE chunkRecords = <<>>
    BY <2>1, <1>1, LengthZero DEF NextIndex
  <2>2. CASE chunkRecords # <<>>
    <3>1. Len(chunkRecords) \in Nat /\ Len(chunkRecords) \in DOMAIN chunkRecords
      BY <1>1, <2>2, LengthZero
    <3>2. chunkRecords[Len(chunkRecords)].index = Len(chunkRecords) - 1
      BY <3>1 DEF Own, Chained
    <3>3. QED
      BY <2>2, <3>1, <3>2 DEF NextIndex
  <2>3. QED
    BY <2>1, <2>2
<1>3. chunkIndex' = NextIndex /\ dangBay' = <<>> /\ committedBytes' = committedBytes
  BY DEF LuiMoc, StepBackTo
<1>4. HeadIndex' = Len(chunkRecords)
  BY <1>2, <1>3 DEF HeadIndex
<1>5. QED
  BY <1>3, <1>4 DEF Own, Chained, Covers, Docs

\* A new document leaves the chunk list right.
LEMMA OwnThread ==
    ASSUME TypeInv, Own, PieceStep
    PROVE  Own'
<1>1. /\ dangBay # <<>> /\ Len(dangBay') = Len(dangBay) /\ DOMAIN dangBay' = DOMAIN dangBay
      /\ \A j \in DOMAIN dangBay : dangBay'[j].index = dangBay[j].index
      /\ live \subseteq live'
      /\ UNCHANGED <<callVars, chunkVars, markVars, manhHong, loiManhDau, keptVars>>
  BY PieceStepEffect
<1>2. /\ DOMAIN posted \subseteq DOMAIN posted'
      /\ \A d \in DOMAIN posted : posted'[d] = posted[d]
  BY PieceStepEffect, PostedGrows
<1>3. Docs(chunkRecords) \subseteq live
  BY DEF Own, Chained, Docs
<1>4. Chained(chunkRecords)'
  <2>1. Chained(chunkRecords) /\ Docs(chunkRecords) \subseteq live'
    BY <1>1, <1>3 DEF Own
  <2>2. chunkRecords' = chunkRecords
    BY <1>1 DEF keptVars
  <2>3. QED
    BY <1>2, <2>1, <2>2, ChainedStable DEF Chained
<1>5. dangBay' # <<>> /\ HeadIndex' = HeadIndex
  BY <1>1, PieceNumbers DEF HeadIndex
<1>6. QED
  BY <1>1, <1>4, <1>5 DEF Own, Covers, Docs, keptVars, markVars

\* A chunk closed on the spot is the next record.
LEMMA OwnClosed ==
    ASSUME TypeInv, Accounts, Marks, Chain, Own, ChunkClosed, dangBay = <<>>, ~manhHong,
           pc = "close" => caller \in {"receive", "complete"}
    PROVE  Own'
<1> DEFINE doc == Len(posted) + 1
           r == [index |-> chunkIndex, offset |-> chunkOffset, size |-> chunkWritten, doc |-> doc]
<1>1. /\ chunkIndex \in Nat /\ chunkOffset \in Nat /\ chunkWritten \in Nat /\ doc \in Nat
      /\ DOMAIN posted = 1..Len(posted) /\ Len(posted) \in Nat /\ posted \in Seq(Seq(Nat)) /\ buffer \in Seq(Nat)
  BY Naturals DEF TypeInv, TypeOK, TgType, ChunkType
<1>2. /\ posted' = Append(posted, buffer) /\ live' = live \cup {doc}
      /\ chunkRecords' = Append(chunkRecords, r) /\ uploaded' = uploaded \cup {doc}
      /\ dangBay' = <<>> /\ manhHong' = FALSE /\ chunkIndex' = chunkIndex + 1
      /\ committedBytes' = chunkOffset + chunkWritten
  BY DEF ChunkClosed, KeepRecord, ChunkEnd, flightVars, TypeInv, TypeOK, FlightType
<1>3. /\ Chained(chunkRecords) /\ chunkIndex = Len(chunkRecords) /\ chunkOffset = Covers(chunkRecords)
      /\ Docs(chunkRecords) \subseteq uploaded /\ chunkRecords \in Seq(Record)
      /\ buffer = Span(chunkOffset, chunkWritten)
  BY DEF Own, Chain, Marks, HeadIndex, HeadOffset, TypeInv, TypeOK, KeptType
<1>4. /\ DOMAIN posted' = 1..doc /\ posted'[doc] = buffer /\ \A d \in DOMAIN posted : posted'[d] = posted[d]
  BY <1>1, <1>2
<1>5. /\ r \in Record /\ r.index = chunkIndex /\ r.offset = chunkOffset /\ r.size = chunkWritten /\ r.doc = doc
  BY <1>1 DEF Record
<1>6. \A d \in DOMAIN posted : d \in DOMAIN posted' /\ doc \in DOMAIN posted'
  BY <1>1, <1>4
<1>7. doc \in live' \cap DOMAIN posted'
  BY <1>1, <1>2, <1>4
<1> HIDE DEF doc, r
<1>8. Chaining(chunkRecords, live', posted')
  BY <1>2, <1>3, <1>4, <1>6 DEF Chained, Chaining
<1>9. r.doc \in live' \cap DOMAIN posted' /\ posted'[r.doc] = Span(r.offset, r.size)
  BY <1>3, <1>4, <1>5, <1>7
<1>10. /\ Chaining(Append(chunkRecords, r), live', posted')
       /\ Covers(Append(chunkRecords, r)) = r.offset + r.size
       /\ Docs(Append(chunkRecords, r)) = Docs(chunkRecords) \cup {r.doc}
  BY <1>3, <1>5, <1>8, <1>9, AppendChaining
<1>11. Chained(chunkRecords)'
  BY <1>2, <1>10 DEF Chained, Chaining
<1>12. Covers(chunkRecords)' = committedBytes'
  BY <1>2, <1>5, <1>10 DEF Covers
<1>13. Docs(chunkRecords)' \subseteq uploaded'
  BY <1>2, <1>3, <1>5, <1>10 DEF Docs
<1>14. HeadIndex' = Len(chunkRecords')
  BY <1>2, <1>3, <1>5 DEF HeadIndex
<1> QED BY <1>11, <1>12, <1>13, <1>14 DEF Own

\* Every step before the saving keeps the chunk list the committed prefix.
LEMMA OwnStep ==
    ASSUME Trusted, Inv, Content, Active', pc' \notin SavePhase, [Next]_vars
    PROVE  Own'
<1> USE SessionAssumption, Unfailing
    DEF Trusted, ParallelSession, Inv, Control, Slots, SavePhase, callVars, chunkVars, markVars,
        flightVars, keptVars, tgVars, Return, Goto
<1>0. Active /\ Pieces /\ Chain
  BY StaysActive DEF Content
<1>00. pc \notin SavePhase => Own
  BY <1>0 DEF Content
<1>1. CASE ClientSends
  BY <1>1, <1>0, <1>00, OwnFrame DEF ClientSends, ReceiveCall
<1>2. CASE ClientCompletes
  <2>1. CASE GiaoManhChoNen
    BY <1>2, <1>00, <2>1, OwnHandOff DEF ClientCompletes, CompleteCall
  <2>2. CASE ~GiaoManhChoNen
    BY <1>2, <1>00, <2>2, OwnFrame DEF ClientCompletes, CompleteCall
  <2>3. QED
    BY <2>1, <2>2
<1>3. CASE ChotSo
  BY <1>3, <1>0, <1>00, OwnFrame DEF ChotSo
<1>4. CASE CancelRequest
  BY <1>4, <1>0, <1>00, OwnFrame DEF CancelRequest
<1>5. CASE Cancel
  BY <1>5 DEF Cancel, Active
<1>6. CASE HandlerStep
  <2>1. CASE ReceiveStopped
    BY <2>1, <1>0, <1>00, OwnFrame DEF ReceiveStopped
  <2>2. CASE OpenChunk
    BY <2>2, <1>0, <1>00, OwnFrame DEF OpenChunk
  <2>3. CASE OpenChunkFails
    BY <2>3, <1>0, <1>00, OwnFrame DEF OpenChunkFails
  <2>4. CASE AppendBytes
    BY <2>4, <1>0, <1>00, OwnFrame DEF AppendBytes
  <2>5. CASE SpoolFails
    BY <2>5, <1>0, <1>00, OwnFrame DEF SpoolFails, ReportError
  <2>6. CASE StreamFails
    BY <2>6, <1>0, <1>00, OwnFrame DEF StreamFails
  <2>7. CASE HandOff
    BY <2>7, <1>0, <1>00, OwnHandOff DEF HandOff
  <2>8. CASE ChunkClosed
    <3>1. pc = "close" /\ dangBay = <<>> /\ Marks /\ ~manhHong
      BY <2>8, <1>0 DEF ChunkClosed, Content, Chain
    <3> QED BY <2>8, <1>0, <1>00, <3>1, OwnClosed
  <2>9. CASE CloseChunkFails
    BY <2>9, <1>0, <1>00, OwnFrame DEF CloseChunkFails
  <2>10. CASE Harvest
    BY <2>10, <1>0, <1>00, OwnTakeBack DEF Harvest
  <2>11. CASE Drain
    BY <2>11, <1>0, <1>00, OwnTakeBack DEF Drain, Active, flagVars
  <2>12. CASE ReceiveDrained
    <3>1. CASE manhHong
      BY <2>12, <1>00, <3>1, OwnLuiMoc DEF ReceiveDrained, ThuHetManh
    <3>2. CASE ~manhHong
      BY <2>12, <1>00, <3>2, OwnFrame DEF ReceiveDrained, ThuHetManh
    <3>3. QED
      BY <3>1, <3>2
  <2>13. CASE ChotSoDrained
    <3>1. CASE manhHong
      BY <2>13, <1>00, <3>1, OwnLuiMoc DEF ChotSoDrained, ThuHetManh
    <3>2. CASE ~manhHong
      BY <2>13, <1>00, <3>2, OwnFrame DEF ChotSoDrained, ThuHetManh
    <3>3. QED
      BY <3>1, <3>2
  <2>14. CASE CompleteDrained
    <3>1. CASE manhHong
      BY <2>14, <1>00, <3>1, OwnLuiMoc DEF CompleteDrained, ThuHetManh
    <3>2. CASE ~manhHong
      BY <2>14, <1>00, <3>2, OwnFrame DEF CompleteDrained, ThuHetManh
    <3>3. QED
      BY <3>1, <3>2
  <2>15. CASE NoTwin
    BY <2>15 DEF NoTwin
  <2>16. CASE TakeTwin
    BY <2>16 DEF TakeTwin
  <2>17. CASE CopyTwinRows
    BY <2>17 DEF CopyTwinRows
  <2>18. CASE KeepOthers
    BY <2>18 DEF KeepOthers
  <2>19. CASE PurgeOld
    BY <2>19 DEF PurgeOld
  <2>20. CASE WriteEntry
    BY <2>20 DEF WriteEntry
  <2>21. CASE AddChunk
    BY <2>21 DEF AddChunk
  <2>22. CASE DatabaseFails
    BY <2>22 DEF DatabaseFails, Active
  <2>23. CASE Finish
    BY <2>23 DEF Finish, Active
  <2>24. CASE CancelDrained
    BY <2>24 DEF CancelDrained, Active, flagVars
  <2>25. QED
    BY <1>6, <2>1, <2>2, <2>3, <2>4, <2>5, <2>6, <2>7, <2>8, <2>9, <2>10, <2>11, <2>12,
       <2>13, <2>14, <2>15, <2>16, <2>17, <2>18, <2>19, <2>20, <2>21, <2>22, <2>23, <2>24
    DEF HandlerStep
<1>7. CASE PieceStep
  BY <1>7, <1>0, <1>00, OwnThread, PieceStepEffect DEF PieceStep, flagVars
<1>8. CASE UNCHANGED vars
  BY <1>00, <1>8, OwnFrame DEF vars
<1>9. QED
  BY <1>1, <1>2, <1>3, <1>4, <1>5, <1>6, <1>7, <1>8 DEF Next, Ended

-----------------------------------------------------------------------------
(* What complete() is about to write is the whole file *)

\* A list of documents this session sent, or shares with the twin, stays right while
\* only other documents are removed.
LEMMA ChainedAfterRemove ==
    ASSUME NEW records, Chained(records), NEW docs, docs \cap Docs(records) = {},
           RemoveChunks(docs), UNCHANGED posted
    PROVE  \A j \in DOMAIN records :
              /\ records[j].index = j - 1
              /\ records[j].offset = IF j = 1 THEN 0
                                     ELSE records[j - 1].offset + records[j - 1].size
              /\ records[j].doc \in live' \cap DOMAIN posted'
              /\ posted'[records[j].doc] = Span(records[j].offset, records[j].size)
<1>1. live \ docs \subseteq live'
  BY RemoveChunksEffect
<1>2. \A j \in DOMAIN records : records[j].doc \in live /\ records[j].doc \notin docs
  BY DEF Chained, Docs
<1>3. QED
  BY <1>1, <1>2 DEF Chained

\* The chunk list stays the file while what it rests on stands still.
LEMMA WholeFrame ==
    ASSUME Whole, UNCHANGED <<chunkRecords, uploaded, live, posted>>
    PROVE  Whole'
BY DEF Whole, Chained, Covers, Docs

\* The twin's chunk list is one record that covers the file.
LEMMA TwinWhole ==
    ASSUME TypeInv, Accounts, posted[Twin] = Span(0, Total), chunkRecords' = TwinRows,
           UNCHANGED <<posted, live>>
    PROVE  Whole'
<1>1. Twin \in live /\ Twin \in DOMAIN posted
  BY Naturals DEF Accounts, Twin
<1>2. /\ DOMAIN TwinRows = {1} /\ Len(TwinRows) = 1 /\ TwinRows # <<>>
      /\ TwinRows[1] = [index |-> 0, offset |-> 0, size |-> Total, doc |-> Twin]
  BY DEF TwinRows
<1>3. Chained(chunkRecords)'
  BY <1>1, <1>2 DEF Chained
<1>4. Covers(chunkRecords)' = Total
  BY <1>2, SessionAssumption DEF Covers
<1>5. Docs(chunkRecords)' = {Twin}
  BY <1>2 DEF Docs
<1>6. QED
  BY <1>3, <1>4, <1>5 DEF Whole

\* Purging the replaced file takes nothing from the chunk list.
LEMMA PurgeWhole ==
    ASSUME Accounts, Whole, RemoveChunks({Old}), UNCHANGED <<chunkRecords, uploaded, posted>>
    PROVE  Whole'
<1>1. {Old} \cap Docs(chunkRecords) = {}
  BY DEF Whole, Accounts, Old, Twin
<1>2. Chained(chunkRecords)'
  BY <1>1, ChainedAfterRemove DEF Whole, Chained
<1>3. QED
  BY <1>2 DEF Whole, Covers, Docs

\* With every piece down and none missing, the committed prefix is the file.
LEMMA DrainedIsTotal ==
    ASSUME TypeInv, Rows, Marks, Chain, caller = "complete", pc # "close", dangBay = <<>>, ~manhHong
    PROVE  committedBytes = Total
<1>1. receivedBytes = Total /\ chunkWritten = 0 /\ receivedBytes = chunkOffset + chunkWritten
  BY DEF Rows, Marks
<1>2. committedBytes = chunkOffset
  BY DEF Chain, HeadOffset
<1>3. QED
  BY <1>1, <1>2, Naturals

\* From the deduplication on, the chunk list is the whole file, and so is the entry.
LEMMA WholeStep ==
    ASSUME Trusted, Inv, Content, [Next]_vars
    PROVE  /\ pc' \in SavePhase \ {"twin"} => Whole'
           /\ pc' \in SavePhase => committedBytes' = Total
           /\ pc' = "rows" => file'.listed /\ file'.size = Total /\ file'.hash = Span(0, Total)
<1> USE SessionAssumption, Unfailing
    DEF Trusted, ParallelSession, Inv, Control, Slots, SavePhase, callVars, chunkVars, markVars,
        flightVars, keptVars, tgVars, dbVars, Return, Goto, Continue
<1>0. /\ Active => Marks /\ Chain
      /\ Active /\ pc \notin SavePhase => Own
      /\ pc \in SavePhase \ {"twin"} => Whole
      /\ pc \in SavePhase => committedBytes = Total
      /\ pc = "rows" => file.listed /\ file.size = Total /\ file.hash = Span(0, Total)
      /\ posted[Twin] = Span(0, Total)
  BY DEF Content
<1>00. pc \in SavePhase \/ caller = "complete" => Active
  BY DEF Active
<1>1. CASE ClientSends
  BY <1>1 DEF ClientSends, ReceiveCall
<1>2. CASE ClientCompletes
  <2>1. pc = "idle" /\ pc \notin SavePhase /\ Active
    BY <1>2 DEF ClientCompletes, CompleteCall, Active
  <2>2. Marks /\ Chain /\ Own
    BY <1>0, <2>1
  <2>3. CASE pc' \in SavePhase
    <3>1. /\ pc' = "dedup" /\ Parallel = 1 /\ dangBay = <<>> /\ receivedBytes = Total
          /\ ~(opened /\ chunkWritten > 0)
          /\ UNCHANGED <<chunkRecords, uploaded, live, posted, committedBytes>>
      BY <1>2, <2>3 DEF ClientCompletes, CompleteCall
    <3>2. chunkWritten = 0
      BY <2>2, <3>1, Naturals DEF Marks
    <3>3. committedBytes = chunkOffset /\ receivedBytes = chunkOffset + 0
      BY <2>1, <2>2, <3>1, <3>2 DEF Chain, HeadOffset, Marks
    <3>4. committedBytes = Total
      BY <3>1, <3>3, Naturals
    <3>5. Whole
      BY <2>2, <3>4 DEF Own, Whole
    <3> QED BY <3>1, <3>4, <3>5, WholeFrame
  <2> QED BY <2>3
<1>3. CASE ChotSo
  BY <1>3 DEF ChotSo
<1>4. CASE CancelRequest
  BY <1>4, <1>0, WholeFrame DEF CancelRequest
<1>5. CASE Cancel
  BY <1>5 DEF Cancel
<1>6. CASE HandlerStep
  <2>1. CASE ReceiveStopped
    BY <2>1 DEF ReceiveStopped
  <2>2. CASE OpenChunk
    BY <2>2 DEF OpenChunk
  <2>3. CASE OpenChunkFails
    BY <2>3 DEF OpenChunkFails
  <2>4. CASE AppendBytes
    BY <2>4 DEF AppendBytes
  <2>5. CASE SpoolFails
    BY <2>5 DEF SpoolFails, ReportError
  <2>6. CASE StreamFails
    BY <2>6 DEF StreamFails
  <2>7. CASE HandOff
    BY <2>7 DEF HandOff
  <2>8. CASE ChunkClosed
    <3>1. /\ caller \in {"receive", "complete"} /\ dangBay = <<>> /\ pc \notin SavePhase /\ Active
          /\ pc = "close"
      BY <2>8 DEF ChunkClosed, Active
    <3>2. Marks /\ Chain /\ Own /\ ~manhHong
      BY <1>0, <3>1 DEF Chain
    <3>3. Own' /\ committedBytes' = receivedBytes
      BY <2>8, <3>1, <3>2, OwnClosed, ClosedMarks
    <3>4. CASE caller = "complete"
      <4>1. pc' = "dedup" /\ receivedBytes = Total
        BY <2>8, <3>4 DEF ChunkClosed, Rows
      <4> QED BY <3>3, <4>1 DEF Own, Whole
    <3>5. CASE caller = "receive"
      BY <2>8, <3>5 DEF ChunkClosed
    <3> QED BY <3>1, <3>4, <3>5
  <2>9. CASE CloseChunkFails
    BY <2>9 DEF CloseChunkFails
  <2>10. CASE Harvest
    BY <2>10 DEF Harvest
  <2>11. CASE Drain
    BY <2>11 DEF Drain
  <2>12. CASE ReceiveDrained
    BY <2>12 DEF ReceiveDrained
  <2>13. CASE ChotSoDrained
    BY <2>13 DEF ChotSoDrained
  <2>14. CASE CompleteDrained
    <3>1. CASE manhHong
      BY <2>14, <3>1 DEF CompleteDrained
    <3>2. CASE ~manhHong
      <4>1. committedBytes = Total /\ Own
        BY <2>14, <1>0, <1>00, <3>2, DrainedIsTotal DEF CompleteDrained
      <4>2. UNCHANGED <<chunkRecords, uploaded, live, posted, committedBytes>> /\ pc' = "dedup"
        BY <2>14, <3>2 DEF CompleteDrained, ThuHetManh
      <4>3. Whole
        BY <4>1 DEF Own, Whole
      <4>4. QED
        BY <4>1, <4>2, <4>3, WholeFrame
    <3>3. QED
      BY <3>1, <3>2
  <2>15. CASE NoTwin
    BY <2>15, <1>0, WholeFrame DEF NoTwin
  <2>16. CASE TakeTwin
    BY <2>16, <1>0 DEF TakeTwin
  <2>17. CASE CopyTwinRows
    BY <2>17, <1>0, TwinWhole DEF CopyTwinRows
  <2>18. CASE KeepOthers
    BY <2>18, <1>0, WholeFrame DEF KeepOthers
  <2>19. CASE PurgeOld
    BY <2>19, <1>0, PurgeWhole DEF PurgeOld
  <2>20. CASE WriteEntry
    <3>1. Whole'
      BY <2>20, <1>0, WholeFrame DEF WriteEntry
    <3>2. receivedBytes = Total /\ hasher = Span(0, receivedBytes)
      BY <2>20, <1>0, <1>00 DEF WriteEntry, Rows, Marks
    <3>3. QED
      BY <2>20, <1>0, <3>1, <3>2 DEF WriteEntry
  <2>21. CASE AddChunk
    BY <2>21, <1>0, WholeFrame DEF AddChunk
  <2>22. CASE DatabaseFails
    BY <2>22 DEF DatabaseFails
  <2>23. CASE Finish
    BY <2>23 DEF Finish
  <2>24. CASE CancelDrained
    BY <2>24 DEF CancelDrained
  <2>25. QED
    BY <1>6, <2>1, <2>2, <2>3, <2>4, <2>5, <2>6, <2>7, <2>8, <2>9, <2>10, <2>11, <2>12,
       <2>13, <2>14, <2>15, <2>16, <2>17, <2>18, <2>19, <2>20, <2>21, <2>22, <2>23, <2>24
    DEF HandlerStep
<1>7. CASE PieceStep
  BY <1>7, PieceStepEffect DEF PieceStep
<1>8. CASE UNCHANGED vars
  BY <1>0, <1>8, WholeFrame DEF vars
<1>9. QED
  BY <1>1, <1>2, <1>3, <1>4, <1>5, <1>6, <1>7, <1>8 DEF Next, Ended

-----------------------------------------------------------------------------
(* What has been saved stays saved *)

\* What holds of a session that has answered `saved'.
SavedFacts == SavedFileIsWhole /\ state \in {"Completed", "Cancelled"}
              /\ uploaded = {} /\ dangBay = <<>>

\* What is saved stays so while what it rests on stands still.
LEMMA SavedFrame ==
    ASSUME SavedFacts, UNCHANGED <<file, rows, posted, live, saved, uploaded, dangBay>>,
           state' \in {"Completed", "Cancelled"}
    PROVE  SavedFacts'
BY DEF SavedFacts, SavedFileIsWhole, Chained, Covers

\* The last step of complete(): every row is written, and the documents removed are
\* those no row names.
LEMMA FinishSaves ==
    ASSUME TypeInv, Control, Slots, Rows, Whole, Finish,
           file.listed /\ file.size = Total /\ file.hash = Span(0, Total)
    PROVE  SavedFacts'
<1>1. rows = chunkRecords
  BY DEF Finish, Rows, TypeInv, TypeOK, DbType, KeptType
<1>2. Orphans \cap Docs(rows) = {}
  BY <1>1 DEF Orphans
<1>3. Chained(rows) /\ Covers(rows) = Total
  BY <1>1 DEF Whole
<1>4. /\ RemoveChunks(Orphans) /\ UNCHANGED <<posted, file, rows, dangBay>>
      /\ state' = "Completed" /\ uploaded' = {} /\ dangBay = <<>>
  BY DEF Finish, Slots, SavePhase, flightVars
<1>5. Chained(rows)'
  BY <1>2, <1>3, <1>4, ChainedAfterRemove DEF Chained
<1>6. Covers(rows)' = Total
  BY <1>3, <1>4 DEF Covers
<1>7. QED
  BY <1>4, <1>5, <1>6 DEF SavedFacts, SavedFileIsWhole

\* Cancelling a saved session has nothing to remove.
LEMMA CancelKeepsSaved ==
    ASSUME SavedFacts, CancelDrained
    PROVE  SavedFacts'
<1>1. RemoveChunks({}) /\ uploaded' = {}
  BY DEF CancelDrained, Rollback, SavedFacts
<1>2. live' = live
  BY <1>1, RemoveChunksEffect
<1>3. QED
  BY <1>1, <1>2, SavedFrame DEF CancelDrained, SavedFacts, flagVars, flightVars, dbVars

\* Every step after the last of complete() leaves the saved file alone.
LEMMA SavedStep ==
    ASSUME Trusted, Inv, Content, [Next]_vars
    PROVE  saved' => SavedFacts'
<1> USE SessionAssumption, Unfailing
    DEF Trusted, ParallelSession, Inv, Control, Slots, SavePhase, flagVars, callVars, chunkVars,
        markVars, flightVars, keptVars, tgVars, dbVars, Return, Goto
<1>0. /\ saved => SavedFacts
      /\ pc = "rows" => /\ Whole
                        /\ file.listed /\ file.size = Total /\ file.hash = Span(0, Total)
  BY DEF Content, SavedFacts
<1>01. saved => state \in {"Completed", "Cancelled"} /\ dangBay = <<>> /\ uploaded = {}
  BY <1>0 DEF SavedFacts
<1>02. saved => caller \in {"none", "cancel"}
  BY <1>01 DEF TypeInv, TypeOK, CallType, Handlers
<1>1. CASE ClientSends
  <2>1. ~saved
    <3>1. PICK k \in 1..MaxBlock : receivedBytes + k <= Total /\ ReceiveCall(receivedBytes, k)
      BY <1>1 DEF ClientSends
    <3>2. state = "Completed" => receivedBytes = Total
      BY DEF Rows
    <3>3. receivedBytes \in Nat /\ Total \in Nat /\ k \in Nat /\ k >= 1
      BY <3>1, Naturals
    <3>4. state \notin {"Completed", "Cancelled"}
      BY <3>1, <3>2, <3>3 DEF ReceiveCall
    <3>5. QED
      BY <3>4, <1>01
  <2>2. QED
    BY <1>1, <2>1 DEF ClientSends, ReceiveCall
<1>2. CASE ClientCompletes
  BY <1>2, <1>01, <1>02 DEF ClientCompletes, CompleteCall
<1>3. CASE ChotSo
  BY <1>3, <1>01, <1>02 DEF ChotSo
<1>4. CASE CancelRequest
  BY <1>4, <1>0, <1>01, SavedFrame DEF CancelRequest
<1>5. CASE Cancel
  BY <1>5, <1>0, <1>01, SavedFrame DEF Cancel
<1>6. CASE HandlerStep
  <2>1. CASE ReceiveStopped
    BY <2>1, <1>01, <1>02 DEF ReceiveStopped
  <2>2. CASE OpenChunk
    BY <2>2, <1>01, <1>02 DEF OpenChunk
  <2>3. CASE OpenChunkFails
    BY <2>3, <1>01, <1>02 DEF OpenChunkFails
  <2>4. CASE AppendBytes
    BY <2>4, <1>01, <1>02 DEF AppendBytes
  <2>5. CASE SpoolFails
    BY <2>5, <1>01, <1>02 DEF SpoolFails, ReportError
  <2>6. CASE StreamFails
    BY <2>6, <1>01, <1>02 DEF StreamFails
  <2>7. CASE HandOff
    BY <2>7, <1>01, <1>02 DEF HandOff
  <2>8. CASE ChunkClosed
    BY <2>8, <1>01, <1>02 DEF ChunkClosed
  <2>9. CASE CloseChunkFails
    BY <2>9, <1>01, <1>02 DEF CloseChunkFails
  <2>10. CASE Harvest
    BY <2>10, <1>01, <1>02 DEF Harvest
  <2>11. CASE Drain
    BY <2>11, <1>01, <1>02, ThuMotManhKeeps DEF Drain, HeadLanded
  <2>12. CASE ReceiveDrained
    BY <2>12, <1>01, <1>02 DEF ReceiveDrained
  <2>13. CASE ChotSoDrained
    BY <2>13, <1>01, <1>02 DEF ChotSoDrained
  <2>14. CASE CompleteDrained
    BY <2>14, <1>01, <1>02 DEF CompleteDrained
  <2>15. CASE NoTwin
    BY <2>15, <1>01, <1>02 DEF NoTwin
  <2>16. CASE TakeTwin
    BY <2>16, <1>01, <1>02 DEF TakeTwin
  <2>17. CASE CopyTwinRows
    BY <2>17, <1>01, <1>02 DEF CopyTwinRows
  <2>18. CASE KeepOthers
    BY <2>18, <1>01, <1>02 DEF KeepOthers
  <2>19. CASE PurgeOld
    BY <2>19, <1>01, <1>02 DEF PurgeOld
  <2>20. CASE WriteEntry
    BY <2>20, <1>01, <1>02 DEF WriteEntry
  <2>21. CASE AddChunk
    BY <2>21, <1>01, <1>02 DEF AddChunk
  <2>22. CASE DatabaseFails
    BY <2>22, <1>01, <1>02 DEF DatabaseFails
  <2>23. CASE Finish
    BY <2>23, <1>0, FinishSaves DEF Finish
  <2>24. CASE CancelDrained
    BY <2>24, <1>0, CancelKeepsSaved DEF CancelDrained
  <2>25. QED
    BY <1>6, <2>1, <2>2, <2>3, <2>4, <2>5, <2>6, <2>7, <2>8, <2>9, <2>10, <2>11, <2>12,
       <2>13, <2>14, <2>15, <2>16, <2>17, <2>18, <2>19, <2>20, <2>21, <2>22, <2>23, <2>24
    DEF HandlerStep
<1>7. CASE PieceStep
  BY <1>7, <1>01, PieceStepEffect DEF PieceStep
<1>8. CASE UNCHANGED vars
  BY <1>0, <1>01, <1>8, SavedFrame DEF vars
<1>9. QED
  BY <1>1, <1>2, <1>3, <1>4, <1>5, <1>6, <1>7, <1>8 DEF Next, Ended

-----------------------------------------------------------------------------
(* How the two marks move *)

\* Bytes are accepted, a piece is committed, or the session steps back.
MarksMove ==
    /\ Active /\ state' # "Cancelled" /\ saved' = saved
    /\ \/ /\ committedBytes' = committedBytes
          /\ receivedBytes <= receivedBytes' /\ receivedBytes' <= Total
       \/ /\ receivedBytes' = receivedBytes
          /\ committedBytes <= committedBytes' /\ committedBytes' <= receivedBytes
       \/ /\ committedBytes' = committedBytes /\ receivedBytes' = committedBytes

MarksStay == UNCHANGED <<receivedBytes, committedBytes>>

\* Taking a piece back only moves the committed mark forward.
LEMMA TakeBackMoves ==
    ASSUME TypeInv, Marks, Chain, Active, ThuMotManh, UNCHANGED <<receivedBytes, state, saved>>
    PROVE  MarksMove
<1>1. /\ HeadLanded /\ 1 \in DOMAIN dangBay
      /\ \/ committedBytes' = committedBytes
         \/ committedBytes' = dangBay[1].offset + dangBay[1].size
  BY PieceNumbers DEF ThuMotManh, HeadLanded
<1>2. /\ committedBytes <= dangBay[1].offset
      /\ dangBay[1].offset + dangBay[1].size <= chunkOffset
      /\ dangBay[1].offset \in Nat /\ dangBay[1].size \in Nat
  BY <1>1, PieceNumbers DEF Chain
<1>3. committedBytes <= chunkOffset /\ chunkOffset <= receivedBytes
  BY Naturals DEF Chain, Marks
<1>4. state' # "Cancelled"
  BY DEF Active
<1>5. QED
  BY <1>1, <1>2, <1>3, <1>4, Naturals DEF MarksMove

\* Settling the pieces leaves the marks or steps back to the committed one.
LEMMA DrainedMoves ==
    ASSUME ThuHetManh, Active, state' # "Cancelled", saved' = saved
    PROVE  MarksStay \/ MarksMove
BY DEF ThuHetManh, LuiMoc, StepBackTo, MarksMove, MarksStay, markVars

\* There is no other way for a mark to move.
LEMMA MarksStepCases ==
    ASSUME Trusted, Inv, Content, [Next]_vars
    PROVE  MarksStay \/ MarksMove
<1> USE SessionAssumption, Unfailing
    DEF Trusted, ParallelSession, Inv, Control, Slots, SavePhase, flagVars, callVars, markVars, dbVars
<1>0. Active => Marks /\ Chain
  BY DEF Content
<1>00. caller \in {"receive", "settle", "complete"} => Active
  BY DEF Active
<1>1. CASE ClientSends
  BY <1>1 DEF ClientSends, ReceiveCall, MarksStay
<1>2. CASE ClientCompletes
  BY <1>2 DEF ClientCompletes, CompleteCall, MarksStay
<1>3. CASE ChotSo
  BY <1>3 DEF ChotSo, MarksStay
<1>4. CASE CancelRequest
  BY <1>4 DEF CancelRequest, MarksStay
<1>5. CASE Cancel
  BY <1>5 DEF Cancel, MarksStay
<1>6. CASE HandlerStep
  <2>1. CASE ReceiveStopped
    BY <2>1 DEF ReceiveStopped, MarksStay
  <2>2. CASE OpenChunk
    BY <2>2 DEF OpenChunk, MarksStay
  <2>3. CASE OpenChunkFails
    BY <2>3 DEF OpenChunkFails, MarksStay
  <2>4. CASE AppendBytes
    <3>1. /\ Marks /\ Active /\ receivedBytes' = receivedBytes + Take
          /\ UNCHANGED <<committedBytes, saved, state>>
      BY <2>4, <1>0, <1>00, AppendMarks DEF AppendBytes
    <3>2. Take \in Nat /\ Take <= todo /\ receivedBytes + todo <= Total
      BY <2>4, <3>1, TakeType DEF AppendBytes, Marks
    <3>3. QED
      BY <3>1, <3>2, Naturals DEF MarksMove, Active
  <2>5. CASE SpoolFails
    BY <2>5 DEF SpoolFails, MarksStay
  <2>6. CASE StreamFails
    BY <2>6 DEF StreamFails, MarksStay
  <2>7. CASE HandOff
    BY <2>7 DEF HandOff, MarksStay
  <2>8. CASE ChunkClosed
    <3>1. caller \in {"receive", "complete"} /\ Active /\ state # "Cancelled"
      BY <2>8, <1>00 DEF ChunkClosed
    <3>2. /\ Marks /\ Chain /\ committedBytes' = receivedBytes /\ receivedBytes' = receivedBytes
          /\ UNCHANGED <<state, saved>>
      BY <2>8, <1>0, <3>1, ClosedMarks DEF ChunkClosed
    <3>3. committedBytes <= receivedBytes /\ receivedBytes \in Nat
      BY Naturals DEF Content
    <3> QED BY <3>1, <3>2, <3>3 DEF MarksMove
  <2>9. CASE CloseChunkFails
    BY <2>9 DEF CloseChunkFails, MarksStay
  <2>10. CASE Harvest
    BY <2>10, <1>0, <1>00, TakeBackMoves DEF Harvest
  <2>11. CASE Drain
    <3>1. CASE caller = "cancel"
      BY <2>11, <3>1 DEF Drain, MarksStay
    <3>2. CASE caller # "cancel"
      <4>1. Active
        BY <2>11, <3>2, <1>00 DEF Drain, TypeInv, TypeOK, CallType, Handlers
      <4>2. QED
        BY <2>11, <3>2, <4>1, <1>0, TakeBackMoves DEF Drain
    <3>3. QED
      BY <3>1, <3>2
  <2>12. CASE ReceiveDrained
    BY <2>12, <1>00, DrainedMoves DEF ReceiveDrained, AfterError, Active
  <2>13. CASE ChotSoDrained
    BY <2>13, <1>00, DrainedMoves DEF ChotSoDrained, AfterError, Active
  <2>14. CASE CompleteDrained
    BY <2>14, <1>00, DrainedMoves DEF CompleteDrained, AfterError, Active
  <2>15. CASE NoTwin
    BY <2>15 DEF NoTwin, MarksStay
  <2>16. CASE TakeTwin
    BY <2>16 DEF TakeTwin, MarksStay
  <2>17. CASE CopyTwinRows
    BY <2>17 DEF CopyTwinRows, MarksStay
  <2>18. CASE KeepOthers
    BY <2>18 DEF KeepOthers, MarksStay
  <2>19. CASE PurgeOld
    BY <2>19 DEF PurgeOld, MarksStay
  <2>20. CASE WriteEntry
    BY <2>20 DEF WriteEntry, MarksStay
  <2>21. CASE AddChunk
    BY <2>21 DEF AddChunk, MarksStay
  <2>22. CASE DatabaseFails
    BY <2>22 DEF DatabaseFails, MarksStay
  <2>23. CASE Finish
    BY <2>23 DEF Finish, MarksStay
  <2>24. CASE CancelDrained
    BY <2>24 DEF CancelDrained, MarksStay
  <2>25. QED
    BY <1>6, <2>1, <2>2, <2>3, <2>4, <2>5, <2>6, <2>7, <2>8, <2>9, <2>10, <2>11, <2>12,
       <2>13, <2>14, <2>15, <2>16, <2>17, <2>18, <2>19, <2>20, <2>21, <2>22, <2>23, <2>24
    DEF HandlerStep
<1>7. CASE PieceStep
  BY <1>7, PieceStepEffect DEF PieceStep, MarksStay
<1>8. CASE UNCHANGED vars
  BY <1>8 DEF vars, MarksStay
<1>9. QED
  BY <1>1, <1>2, <1>3, <1>4, <1>5, <1>6, <1>7, <1>8 DEF Next, Ended

-----------------------------------------------------------------------------
(* The invariant and what follows from it *)

\* The invariant about content holds at the start.
LEMMA ContentInit == Init => Content
<1> SUFFICES ASSUME Init PROVE Content
  OBVIOUS
<1>1. Span(0, 0) = <<>>
  BY SpanEmpty
<1>2. posted[Twin] = Span(0, Total)
  BY DEF Init, Twin
<1>3. Marks /\ Pieces /\ Chain
  BY <1>1, SessionAssumption DEF Init, Marks, Pieces, Chain, HeadOffset
<1>4. Own
  BY DEF Init, Own, Chained, Covers, Docs, HeadIndex
<1>5. QED
  BY <1>2, <1>3, <1>4 DEF Init, Content, SavePhase

\* The twin's document keeps its content.
LEMMA TwinKept ==
    ASSUME Trusted, Inv, posted[Twin] = Span(0, Total), [Next]_vars
    PROVE  posted'[Twin] = Span(0, Total)
<1> USE DEF Trusted, ParallelSession, tgVars
<1>1. CASE PieceStep
  <2>1. Twin \in DOMAIN posted
    BY Naturals DEF Inv, Accounts, Twin
  <2>2. QED
    BY <1>1, <2>1, PieceStepEffect, PostedGrows DEF Inv
<1>2. CASE HandlerStep
  <2>0. Twin \in DOMAIN posted /\ buffer \in Seq(Nat)
    BY Naturals DEF Inv, Accounts, Twin, TypeInv, TypeOK, ChunkType
  <2>1. CASE ChunkClosed
    BY <2>0, <2>1, PostedGrows DEF Inv, ChunkClosed
  <2>2. CASE CloseChunkFails
    BY <2>2, CloseFailsEnds DEF Inv
  <2>3. CASE ~ChunkClosed /\ ~CloseChunkFails
    BY <1>2, <2>3 DEF HandlerStep, ReceiveStopped, OpenChunk, OpenChunkFails, AppendBytes,
      SpoolFails, StreamFails, HandOff, Harvest, Drain,
      ReceiveDrained, ChotSoDrained, CompleteDrained, NoTwin, TakeTwin, CopyTwinRows,
      KeepOthers, PurgeOld, WriteEntry, AddChunk, DatabaseFails, Finish, CancelDrained
  <2> QED BY <2>1, <2>2, <2>3
<1>3. CASE ~(PieceStep \/ HandlerStep)
  BY <1>3 DEF Next, ClientSends, ReceiveCall, ClientCompletes, CompleteCall, ChotSo,
      CancelRequest, Cancel, Ended, vars
<1>4. QED
  BY <1>1, <1>2, <1>3

\* The marks keep their order, and the committed one only grows.
LEMMA MarkValues ==
    ASSUME Trusted, Inv, Content, [Next]_vars
    PROVE  /\ committedBytes' <= receivedBytes'
           /\ committedBytes' >= committedBytes /\ receivedBytes' >= committedBytes
<1>1. /\ receivedBytes \in Nat /\ committedBytes \in Nat /\ committedBytes <= receivedBytes
      /\ receivedBytes' \in Nat /\ committedBytes' \in Nat
  BY Naturals, TypeStep DEF Inv, Content, TypeInv, TypeOK, MarkType
<1>2. CASE MarksStay
  BY <1>1, <1>2 DEF MarksStay
<1>3. CASE MarksMove
  BY <1>1, <1>3 DEF MarksMove
<1>4. QED
  BY <1>2, <1>3, MarksStepCases

\* The invariant about content is inductive, given Inv.
LEMMA ContentStep ==
    ASSUME Trusted, Inv, Content, [Next]_vars
    PROVE  Content'
<1>1. posted'[Twin] = Span(0, Total)
  BY TwinKept DEF Content
<1>2. committedBytes' <= receivedBytes'
  BY MarkValues
<1>3. Active' => Marks' /\ Pieces' /\ Chain'
  BY MarksStep, PiecesStep, ChainStep
<1>4. Active' /\ pc' \notin SavePhase => Own'
  BY OwnStep
<1>5. /\ pc' \in SavePhase \ {"twin"} => Whole'
      /\ pc' \in SavePhase => committedBytes' = Total
      /\ pc' = "rows" => file'.listed /\ file'.size = Total /\ file'.hash = Span(0, Total)
  BY WholeStep
<1>6. saved' => SavedFacts'
  BY SavedStep
<1>7. QED
  BY <1>1, <1>2, <1>3, <1>4, <1>5, <1>6 DEF Content, SavedFacts, SavePhase

\* Both invariants hold of a session with several chunks in flight.
THEOREM ContentInvariance ==
    ASSUME ParallelSession
    PROVE  Spec => [](Inv /\ Content)
<1>1. Inv /\ Content /\ [Next]_vars => Content'
  BY ContentStep DEF Trusted
<1>2. QED
  BY Invariance, ContentInit, <1>1, PTL DEF Spec

\* A session with several chunks in flight that has answered `saved' has saved the
\* whole file, whatever failed on the way, was sent again or cancelled afterwards.
THEOREM SavedIsWhole ==
    ASSUME ParallelSession
    PROVE  Spec => []SavedFileIsWhole
<1>1. Content => SavedFileIsWhole
  BY DEF Content, SavedFileIsWhole
<1>2. QED
  BY ContentInvariance, <1>1, PTL

\* Calls that failed are not forgotten.
LEMMA FaultsGrow ==
    ASSUME TypeInv, [Next]_vars, faults' = 0
    PROVE  faults = 0
<1>1. faults \in Nat
  BY DEF TypeInv, TypeOK
<1>2. ~Fault
  BY <1>1 DEF Fault
<1>3. ASSUME NEW docs, RemoveChunks(docs) PROVE faults' = faults
  BY <1>2, <1>3 DEF RemoveChunks
<1>4. CASE HandlerStep
  BY <1>2, <1>3, <1>4 DEF HandlerStep, ReceiveStopped, OpenChunk, OpenChunkFails, AppendBytes,
      SpoolFails, StreamFails, HandOff, ChunkClosed, CloseChunkFails, Harvest, Drain,
      ReceiveDrained, ChotSoDrained, CompleteDrained, NoTwin, TakeTwin, CopyTwinRows, KeepOthers,
      PurgeOld, WriteEntry, AddChunk, DatabaseFails, Finish, CancelDrained, Rollback
<1>5. CASE PieceStep
  BY <1>2, <1>5 DEF PieceStep, PushPiece, FinishPiece
<1>6. CASE ~(HandlerStep \/ PieceStep)
  BY <1>6 DEF Next, ClientSends, ReceiveCall, ClientCompletes, CompleteCall, ChotSo,
      CancelRequest, Cancel, Ended, vars
<1> QED BY <1>1, <1>2, <1>4, <1>5, <1>6

\* A session of either kind that has answered `saved' has saved the whole file, if no call
\* to Telegram, the spool or the database has failed on it: the chunks closed on the spot
\* by closeChunk() as those taken back from their threads, the twin's rows as its own.
THEOREM SavedWithoutFaults == Spec => []SavedUnlessSomethingFailed
<1>1. Init => UnfailedContent
  BY ContentInit DEF UnfailedContent
<1>2. Inv /\ UnfailedContent /\ [Next]_vars => UnfailedContent'
  <2> SUFFICES ASSUME Inv, UnfailedContent, [Next]_vars, faults' = 0 PROVE Content'
    BY DEF UnfailedContent
  <2>1. faults = 0
    BY FaultsGrow DEF Inv
  <2> QED BY <2>1, ContentStep DEF Trusted, UnfailedContent
<1>3. UnfailedContent => SavedUnlessSomethingFailed
  BY DEF UnfailedContent, Content, SavedUnlessSomethingFailed, SavedFileIsWhole
<1>4. QED
  BY Invariance, <1>1, <1>2, <1>3, PTL DEF Spec

\* The position receive() reports once the pieces in flight are settled is one from
\* which the client can go on without a hole.
THEOREM ResumeIsSound ==
    ASSUME ParallelSession
    PROVE  Spec => []ResumePointIsSound
<1>1. Inv /\ Content => ResumePointIsSound
  <2> SUFFICES ASSUME Inv, Content, caller = "none", dangBay = <<>>,
                      state \in {"Preparing", "Receiving"}
               PROVE  /\ Chained(chunkRecords) /\ Covers(chunkRecords) = committedBytes
                      /\ chunkOffset = committedBytes
                      /\ receivedBytes = committedBytes + Len(buffer)
                      /\ buffer = Span(committedBytes, Len(buffer))
                      /\ hasher = Span(0, receivedBytes)
    BY DEF ResumePointIsSound
  <2>1. pc = "idle"
    BY DEF Inv, Control
  <2>2. Marks /\ Chain /\ Own
    BY <2>1 DEF Content, Active, SavePhase
  <2>3. chunkOffset = committedBytes
    BY <2>1, <2>2 DEF Chain, HeadOffset
  <2>4. Len(buffer) = chunkWritten
    BY <2>2, Naturals, SpanType DEF Marks, Inv
  <2>5. QED
    BY <2>2, <2>3, <2>4 DEF Marks, Own
<1>2. QED
  BY ContentInvariance, <1>1, PTL

\* thuMotManh(), thuHetManh() and closeChunk() never give up a committed byte.
THEOREM CommittedGrows ==
    ASSUME ParallelSession
    PROVE  Spec => CommittedNeverShrinks
<1>1. Inv /\ Content /\ [Next]_vars =>
         [committedBytes' >= committedBytes /\ receivedBytes' >= committedBytes]_vars
  BY MarkValues DEF Trusted
<1>2. QED
  BY ContentInvariance, <1>1, PTL DEF Spec, CommittedNeverShrinks

-----------------------------------------------------------------------------
(* The session implements DurableUpload *)

\* What every step of a sequential session does to its two marks, failed calls included.
LEMMA SequentialStep ==
    ASSUME Parallel = 1, Inv, SequentialMarks, [Next]_vars
    PROVE  SequentialMarks' /\ committedBytes' >= committedBytes /\ receivedBytes' >= committedBytes
<1> USE DEF Inv
<1>1. /\ ~manhHong /\ committedBytes = chunkOffset /\ chunkOffset + chunkWritten <= receivedBytes
      /\ committedBytes \in Nat /\ chunkWritten \in Nat /\ receivedBytes \in Nat /\ dangBay = <<>>
  BY Naturals DEF SequentialMarks, Slots
<1>2. CASE UNCHANGED <<chunkOffset, chunkWritten, receivedBytes, committedBytes, manhHong>>
  BY <1>1, <1>2 DEF SequentialMarks
<1>3. CASE HandlerStep
  <2>1. CASE OpenChunk
    BY <1>1, <2>1 DEF OpenChunk, SequentialMarks, markVars, flightVars
  <2>2. CASE AppendBytes
    <3>1. Take \in Nat
      BY TakeType
    <3>2. /\ chunkWritten' = chunkWritten + Take /\ receivedBytes' = receivedBytes + Take
          /\ UNCHANGED <<chunkOffset, committedBytes, manhHong>>
      BY <2>2 DEF AppendBytes, flightVars
    <3> QED BY <1>1, <3>1, <3>2 DEF SequentialMarks
  <2>3. CASE ChunkClosed
    BY <1>1, <2>3 DEF ChunkClosed, ChunkEnd, SequentialMarks, flightVars
  <2>4. CASE ReceiveStopped \/ OpenChunkFails \/ SpoolFails \/ StreamFails \/ CloseChunkFails
             \/ HandOff \/ Harvest \/ Drain
    BY <1>1, <1>2, <2>4 DEF ReceiveStopped, OpenChunkFails, SpoolFails, StreamFails, CloseChunkFails,
       HandOff, Harvest, Drain, HeadLanded, Control, markVars, flightVars, chunkVars
  <2>5. CASE ReceiveDrained \/ ChotSoDrained \/ CompleteDrained \/ CancelDrained
    BY <1>1, <1>2, <2>5 DEF ReceiveDrained, ChotSoDrained, CompleteDrained, CancelDrained, ThuHetManh,
       markVars, flightVars, chunkVars
  <2>6. CASE NoTwin \/ TakeTwin \/ CopyTwinRows \/ KeepOthers \/ PurgeOld \/ WriteEntry \/ AddChunk
             \/ DatabaseFails \/ Finish
    BY <1>2, <2>6 DEF NoTwin, TakeTwin, CopyTwinRows, KeepOthers, PurgeOld, WriteEntry, AddChunk,
       DatabaseFails, Finish, markVars, flightVars, chunkVars
  <2> QED BY <1>3, <2>1, <2>2, <2>3, <2>4, <2>5, <2>6 DEF HandlerStep
<1>4. CASE PieceStep
  BY <1>1, <1>4 DEF PieceStep
<1>5. CASE ~(HandlerStep \/ PieceStep)
  BY <1>1, <1>2, <1>5 DEF Next, ClientSends, ReceiveCall, ClientCompletes, CompleteCall, ChotSo,
      CancelRequest, Cancel, Ended, vars, markVars, flightVars, chunkVars
<1> QED BY <1>3, <1>4, <1>5

\* Nor does a sequential session, in which closeChunk() commits on the spot and nothing
\* steps back, whatever fails: the first byte of the chunk being filled stays committed.
THEOREM SequentialCommitted ==
    ASSUME Parallel = 1
    PROVE  Spec => CommittedNeverShrinks
<1>1. Init => SequentialMarks
  BY DEF Init, SequentialMarks
<1>2. Inv /\ SequentialMarks /\ [Next]_vars => SequentialMarks'
  BY SequentialStep
<1>3. Inv /\ SequentialMarks /\ [Next]_vars =>
         [committedBytes' >= committedBytes /\ receivedBytes' >= committedBytes]_vars
  BY SequentialStep
<1>4. QED
  BY Invariance, <1>1, <1>2, <1>3, PTL DEF Spec, CommittedNeverShrinks

\* The outcome is settled once, by cancel() or by the end of complete().
LEMMA OutcomeSteps ==
    ASSUME Trusted, Inv, Content, [Next]_vars
    PROVE  \/ Outcome' = Outcome
           \/ MarksStay /\ Outcome = "open" /\ Outcome' = "discarded"
           \/ /\ MarksStay /\ Outcome = "open" /\ Outcome' = "saved"
              /\ receivedBytes = Total /\ committedBytes = Total
<1> USE SessionAssumption, Unfailing
    DEF Trusted, ParallelSession, Inv, Control, Slots, SavePhase, flagVars, callVars, dbVars, markVars
<1>0. pc = "rows" => committedBytes = Total /\ receivedBytes = Total
  BY DEF Content, Rows
<1>01. saved => state \in {"Completed", "Cancelled"}
  BY DEF Content
<1>02. saved \in BOOLEAN
  BY DEF TypeInv, TypeOK, DbType
<1>1. CASE ClientSends
  BY <1>1, <1>01, <1>02 DEF ClientSends, ReceiveCall, Outcome
<1>2. CASE ClientCompletes
  BY <1>2, <1>01, <1>02 DEF ClientCompletes, CompleteCall, Outcome
<1>3. CASE ChotSo
  BY <1>3, <1>01, <1>02 DEF ChotSo, Outcome
<1>4. CASE CancelRequest
  BY <1>4, <1>01, <1>02 DEF CancelRequest, Outcome
<1>5. CASE Cancel
  BY <1>5, <1>01, <1>02 DEF Cancel, Outcome, MarksStay
<1>6. CASE HandlerStep
  <2>1. CASE ReceiveStopped
    BY <2>1, <1>01, <1>02 DEF ReceiveStopped, AfterError, Outcome
  <2>2. CASE OpenChunk
    BY <2>2, <1>01, <1>02 DEF OpenChunk, Outcome
  <2>3. CASE OpenChunkFails
    BY <2>3, <1>01, <1>02 DEF OpenChunkFails, AfterError, Outcome
  <2>4. CASE AppendBytes
    BY <2>4, <1>01, <1>02 DEF AppendBytes, Outcome
  <2>5. CASE SpoolFails
    BY <2>5, <1>01, <1>02 DEF SpoolFails, ReportError, AfterError, Outcome
  <2>6. CASE StreamFails
    BY <2>6, <1>01, <1>02 DEF StreamFails, AfterError, Outcome
  <2>7. CASE HandOff
    BY <2>7, <1>01, <1>02 DEF HandOff, Outcome
  <2>8. CASE ChunkClosed
    BY <2>8, <1>01, <1>02 DEF ChunkClosed, Outcome
  <2>9. CASE CloseChunkFails
    BY <2>9, <1>01, <1>02 DEF CloseChunkFails, AfterError, Outcome
  <2>10. CASE Harvest
    BY <2>10, <1>01, <1>02 DEF Harvest, Outcome
  <2>11. CASE Drain
    BY <2>11, <1>01, <1>02 DEF Drain, Outcome
  <2>12. CASE ReceiveDrained
    BY <2>12, <1>01, <1>02 DEF ReceiveDrained, AfterError, Outcome
  <2>13. CASE ChotSoDrained
    BY <2>13, <1>01, <1>02 DEF ChotSoDrained, AfterError, Outcome
  <2>14. CASE CompleteDrained
    BY <2>14, <1>01, <1>02 DEF CompleteDrained, AfterError, Outcome
  <2>15. CASE NoTwin
    BY <2>15, <1>01, <1>02 DEF NoTwin, Outcome
  <2>16. CASE TakeTwin
    BY <2>16, <1>01, <1>02 DEF TakeTwin, Outcome
  <2>17. CASE CopyTwinRows
    BY <2>17, <1>01, <1>02 DEF CopyTwinRows, Outcome
  <2>18. CASE KeepOthers
    BY <2>18, <1>01, <1>02 DEF KeepOthers, Outcome
  <2>19. CASE PurgeOld
    BY <2>19, <1>01, <1>02 DEF PurgeOld, Outcome
  <2>20. CASE WriteEntry
    BY <2>20, <1>01, <1>02 DEF WriteEntry, Outcome
  <2>21. CASE AddChunk
    BY <2>21, <1>01, <1>02 DEF AddChunk, Outcome
  <2>22. CASE DatabaseFails
    BY <2>22, <1>01, <1>02 DEF DatabaseFails, Outcome
  <2>23. CASE Finish
    BY <2>23, <1>0, <1>01, <1>02 DEF Finish, Outcome, MarksStay
  <2>24. CASE CancelDrained
    BY <2>24, <1>01, <1>02 DEF CancelDrained, Outcome
  <2>25. QED
    BY <1>6, <2>1, <2>2, <2>3, <2>4, <2>5, <2>6, <2>7, <2>8, <2>9, <2>10, <2>11, <2>12,
       <2>13, <2>14, <2>15, <2>16, <2>17, <2>18, <2>19, <2>20, <2>21, <2>22, <2>23, <2>24
    DEF HandlerStep
<1>7. CASE PieceStep
  BY <1>7, PieceStepEffect DEF PieceStep, Outcome
<1>8. CASE UNCHANGED vars
  BY <1>8 DEF vars, Outcome
<1>9. QED
  BY <1>1, <1>2, <1>3, <1>4, <1>5, <1>6, <1>7, <1>8 DEF Next, Ended

\* Every step maps to a step of DurableUpload or to a stutter.
LEMMA DurableStep ==
    ASSUME Trusted, Inv, Content, [Next]_vars
    PROVE  [Durable!Next]_(Durable!vars)
<1> USE DEF Durable!Next, Durable!vars
<1>1. /\ receivedBytes \in Nat /\ committedBytes \in Nat /\ Total \in Nat
      /\ committedBytes <= receivedBytes
      /\ receivedBytes' \in Nat /\ committedBytes' \in Nat
  BY Naturals, TypeStep DEF Inv, Content, TypeInv, TypeOK, MarkType
<1>2. CASE MarksStay /\ Outcome' = Outcome
  BY <1>2 DEF MarksStay
<1>3. CASE MarksStay /\ Outcome = "open" /\ Outcome' = "discarded"
  BY <1>3 DEF MarksStay, Durable!Discard
<1>4. CASE MarksStay /\ Outcome = "open" /\ Outcome' = "saved"
           /\ receivedBytes = Total /\ committedBytes = Total
  BY <1>4 DEF MarksStay, Durable!Save
<1>5. CASE MarksMove /\ ~MarksStay
  <2>1. Outcome = "open" /\ Outcome' = "open"
    BY <1>5 DEF MarksMove, Active, Outcome, Content
  <2>2. CASE /\ committedBytes' = committedBytes
             /\ receivedBytes <= receivedBytes' /\ receivedBytes' <= Total
    BY <1>1, <1>5, <2>1, <2>2 DEF MarksStay, Durable!Accept
  <2>3. CASE /\ receivedBytes' = receivedBytes
             /\ committedBytes <= committedBytes' /\ committedBytes' <= receivedBytes
    BY <1>1, <1>5, <2>1, <2>3 DEF MarksStay, Durable!Store
  <2>4. CASE committedBytes' = committedBytes /\ receivedBytes' = committedBytes
    BY <1>1, <1>5, <2>1, <2>4 DEF MarksStay, Durable!StepBack
  <2>5. QED
    BY <1>5, <2>2, <2>3, <2>4 DEF MarksMove
<1>6. QED
  BY <1>2, <1>3, <1>4, <1>5, MarksStepCases, OutcomeSteps

\* Every behaviour of a session with several chunks in flight is one of DurableUpload:
\* nothing is saved that is not accepted and durable to the last byte.
THEOREM ImplementsDurable ==
    ASSUME ParallelSession
    PROVE  Spec => KeepsPromise
<1>1. Init => Durable!Init
  BY DEF Init, Durable!Init, Outcome
<1>2. Inv /\ Content /\ [Next]_vars => [Durable!Next]_(Durable!vars)
  BY DurableStep DEF Trusted
<1>3. QED
  BY ContentInvariance, <1>1, <1>2, PTL DEF Spec, KeepsPromise, Durable!Spec
=============================================================================
