--------------------------- MODULE UploadSession ---------------------------
(***************************************************************************)
(* One storage::UploadSession (src/storage/upload_manager.cpp): the object *)
(* that cuts the byte stream of one file into chunks, pushes every chunk   *)
(* to Telegram as a document, and turns the documents into a file entry.   *)
(*                                                                         *)
(* receive(), complete(), cancel() and chotSoTruocKhiNoi() all run under   *)
(* the session's mutex mu_, but they block while they hold it, so each is  *)
(* a sequence of steps here: `caller' says who holds mu_ and `pc' where it *)
(* stands.  What runs beside them are the background threads, one for each *)
(* piece in dangBay, and the flag cancelled_, which cancel() raises before *)
(* it asks for the mutex.                                                  *)
(*                                                                         *)
(* Data.  A byte is its position in the client's file, counted in units    *)
(* (a unit is whatever the sizes below are counted in).  The content of a  *)
(* buffer, of a Telegram document or of a running SHA-256 is the sequence  *)
(* of positions that went into it, so a hole, a repetition or a shift is   *)
(* visible, and two hashes are equal iff the sequences are.                *)
(*                                                                         *)
(* Not represented: speed and progress figures (storedBytes_, the display  *)
(* snapshot), names, per-chunk SHA-256 (always that of the buffer).        *)
(***************************************************************************)
EXTENDS Integers, Sequences, FiniteSets

CONSTANTS
    Total,      \* totalSize_: the size announced when the session began
    ChunkSize,  \* chunkSize_
    Parallel,   \* soManhSongSong_: chunks that may fly at once
    Buffering,  \* cheDoDem_: "stream", "memory" or "disk"
    PartSize,   \* size of one upload.saveBigFilePart of a stream upload
    MaxBlock,   \* BOUND: largest block one receive() carries
    MaxFaults,  \* BOUND: failing calls (Telegram, spool, database) in a run
    DbFaults    \* database calls that may fail: subset of {"list", "entry", "row"}

\* chonCachDay() never leaves a stream session with more than one chunk in flight.
ASSUME SessionAssumption ==
    /\ Total \in Nat
    /\ ChunkSize \in Nat \ {0}
    /\ Parallel \in Nat \ {0}
    /\ PartSize \in Nat \ {0}
    /\ MaxBlock \in Nat
    /\ MaxFaults \in Nat
    /\ Buffering \in {"stream", "memory", "disk"}
    /\ Buffering = "stream" => Parallel = 1
    /\ DbFaults \subseteq {"list", "entry", "row"}

VARIABLES
    \* the session's flags
    cancelled,        \* cancelled_
    state,            \* state_
    \* the call that holds mu_
    caller,           \* which handler, "none" when mu_ is free
    pc,               \* where that handler stands
    cursor,           \* file position of the next byte of the caller's block
    todo,             \* bytes of the block not consumed yet
    error,            \* kind of the error the call is about to report
    \* the chunk being filled
    chunkIndex, chunkOffset, chunkWritten,
    opened,           \* buffer_ (and, when sequential, writer_) exists
    buffer,           \* bytes put into it
    fullPart,         \* stream only: a full part waits to be sent again
    \* the marks
    receivedBytes, committedBytes, hasher, hasherCommitted,
    \* pieces in flight
    dangBay, manhHong, loiManhDau,
    \* what the session believes is on Telegram
    chunkRecords, uploaded,
    \* Telegram: every document ever posted, those still there, and those
    \* the session cannot know of because Telegram failed a call
    posted, live, lost,
    \* the database, as far as this file goes
    file, rows, saved,
    faults

flagVars   == <<cancelled, state>>
callVars   == <<caller, pc, cursor, todo, error>>
chunkVars  == <<chunkIndex, chunkOffset, chunkWritten, opened, buffer, fullPart>>
markVars   == <<receivedBytes, committedBytes, hasher, hasherCommitted>>
flightVars == <<dangBay, manhHong, loiManhDau>>
keptVars   == <<chunkRecords, uploaded>>
tgVars     == <<posted, live, lost>>
dbVars     == <<file, rows, saved>>
vars == <<flagVars, callVars, chunkVars, markVars, flightVars, keptVars,
          tgVars, dbVars, faults>>

-----------------------------------------------------------------------------
(* Values *)

States  == {"Preparing", "Receiving", "Flushing", "Completed", "Cancelled", "Failed"}
Kinds   == {"transient", "fatal"}   \* what laLoiTamThoi() tells apart
Settled == {"ok"} \cup Kinds        \* a piece whose thread has ended

Least(a, b) == IF a <= b THEN a ELSE b

\* n consecutive bytes of the file, the first at position a
Span(a, n) == [i \in 1..n |-> a + i - 1]

Piece  == [index : Nat, offset : Nat, size : Nat, data : Seq(Nat), hash : Seq(Nat),
           pc : {"pushing", "finishing"} \cup Settled, doc : Nat]
Record == [index : Nat, offset : Nat, size : Nat, doc : Nat]

\* Documents that belong to other files: Twin is the one chunk of a file with
\* the same content (deduplication finds it), Old that of the file to replace.
Twin    == 1
Old     == 2
Foreign == {Twin, Old}
TwinRows == <<[index |-> 0, offset |-> 0, size |-> Total, doc |-> Twin]>>

NoFile == [listed |-> FALSE, size |-> 0, hash |-> <<>>]

Docs(records) == {records[j].doc : j \in DOMAIN records}

FlightDocs == {dangBay[i].doc : i \in DOMAIN dangBay}

Handlers == {"receive", "complete", "settle", "cancel"}
Places   == {"receive", "close", "harvest", "drain", "dedup", "twin", "replace",
             "entry", "rows"}

FlagType   == cancelled \in BOOLEAN /\ state \in States
CallType   == /\ caller \in Handlers \cup {"none"} /\ pc \in Places \cup {"idle"}
              /\ cursor \in Nat /\ todo \in Nat /\ error \in Kinds \cup {"none"}
ChunkType  == /\ chunkIndex \in Nat /\ chunkOffset \in Nat /\ chunkWritten \in Nat
              /\ opened \in BOOLEAN /\ buffer \in Seq(Nat) /\ fullPart \in BOOLEAN
MarkType   == /\ receivedBytes \in Nat /\ committedBytes \in Nat
              /\ hasher \in Seq(Nat) /\ hasherCommitted \in Seq(Nat)
FlightType == /\ dangBay \in Seq(Piece) /\ manhHong \in BOOLEAN
              /\ loiManhDau \in Kinds \cup {"none"}
KeptType   == chunkRecords \in Seq(Record) /\ uploaded \in SUBSET Nat
TgType     == posted \in Seq(Seq(Nat)) /\ live \in SUBSET Nat /\ lost \in SUBSET Nat
DbType     == /\ file \in [listed : BOOLEAN, size : Nat, hash : Seq(Nat)]
              /\ rows \in Seq(Record) /\ saved \in BOOLEAN

TypeOK ==
    /\ FlagType /\ CallType /\ ChunkType /\ MarkType /\ FlightType /\ KeptType
    /\ TgType /\ DbType /\ faults \in Nat

-----------------------------------------------------------------------------
(* Helpers of the handlers *)

\* A call to Telegram, the spool or the database fails.
Fault == faults < MaxFaults /\ faults' = faults + 1

\* The handler lets go of mu_ and answers its caller.
Return ==
    /\ caller' = "none" /\ pc' = "idle" /\ cursor' = 0 /\ todo' = 0
    /\ error' = "none"

Goto(where) == pc' = where /\ UNCHANGED <<caller, cursor, todo, error>>

\* ghiNhanLoi(): only a transient error leaves the session open for a retry.
AfterError(kind) == IF kind = "transient" THEN "Receiving" ELSE "Failed"

\* The storage backend's removeChunks(): what Telegram refuses to delete is only
\* logged, and nobody remembers it.
RemoveChunks(docs) ==
    \E kept \in SUBSET (docs \cap live) :
        /\ live' = live \ (docs \ kept)
        /\ lost' = lost \cup kept
        /\ IF kept = {} THEN UNCHANGED faults ELSE Fault

DropBuffer ==
    /\ opened' = FALSE /\ buffer' = <<>> /\ fullPart' = FALSE

\* A chunk is on Telegram: it enters the chunk list and the list rollback() removes.
KeepRecord(index, offset, size, doc) ==
    /\ chunkRecords' = Append(chunkRecords,
           [index |-> index, offset |-> offset, size |-> size, doc |-> doc])
    /\ uploaded' = uploaded \cup {doc}

-----------------------------------------------------------------------------
(* Background threads: piece i of dangBay flies on its own *)

PieceEnds(i, how) == dangBay' = [dangBay EXCEPT ![i].pc = how]

\* beginChunk() and the flush of the buffer, which looks at cancelled_ before
\* every block.
PushPiece(i) ==
    /\ dangBay[i].pc = "pushing"
    /\ \/ PieceEnds(i, IF cancelled THEN "fatal" ELSE "finishing") /\ UNCHANGED faults
       \/ Fault /\ \E kind \in Kinds : PieceEnds(i, kind)
    /\ UNCHANGED <<flagVars, callVars, chunkVars, markVars, manhHong, loiManhDau,
                   keptVars, tgVars, dbVars>>

\* ChunkWriter::finish() posts the document.  It never looks at cancelled_.  When
\* the answer to the post is lost the document is there and nobody knows.
FinishPiece(i) ==
    /\ dangBay[i].pc = "finishing"
    /\ LET doc == Len(posted) + 1 IN
       \/ /\ dangBay' = [dangBay EXCEPT ![i].pc = "ok", ![i].doc = doc]
          /\ posted' = Append(posted, dangBay[i].data)
          /\ live' = live \cup {doc}
          /\ UNCHANGED <<lost, faults>>
       \/ /\ Fault /\ \E kind \in Kinds : PieceEnds(i, kind)
          /\ UNCHANGED tgVars
       \/ /\ Fault /\ \E kind \in Kinds : PieceEnds(i, kind)
          /\ posted' = Append(posted, dangBay[i].data)
          /\ live' = live \cup {doc}
          /\ lost' = lost \cup {doc}
    /\ UNCHANGED <<flagVars, callVars, chunkVars, markVars, manhHong, loiManhDau,
                   keptVars, dbVars>>

-----------------------------------------------------------------------------
(* receive() *)

\* The block holds the k bytes of the file from position `from' on.  The early
\* test of cancelled_ is made before mu_ is taken and again for every turn of the
\* loop, so what it saw is forgotten by the time the call gets mu_.
ReceiveCall(from, k) ==
    /\ caller = "none" /\ state \notin {"Failed", "Cancelled"}
    /\ state' = "Receiving"
    /\ caller' = "receive" /\ pc' = "receive" /\ cursor' = from /\ todo' = k
    /\ UNCHANGED <<cancelled, error, chunkVars, markVars, flightVars, keptVars,
                   tgVars, dbVars, faults>>

\* The loop looks at cancelled_, and so does the sink of a stream chunk, whose refusal
\* is reported like any error that is not transient.
ReceiveStopped ==
    /\ pc = "receive" /\ cancelled
    /\ \/ UNCHANGED state
       \/ Buffering = "stream" /\ opened /\ state' = AfterError("fatal")
    /\ Return
    /\ UNCHANGED <<cancelled, chunkVars, markVars, flightVars, keptVars, tgVars,
                   dbVars, faults>>

\* openChunk(): in parallel only a buffer is opened, the account is chosen later by
\* the thread; in sequence beginChunk() may fail.
OpenChunk ==
    /\ pc = "receive" /\ ~cancelled /\ ~opened
    /\ opened' = TRUE /\ buffer' = <<>> /\ fullPart' = FALSE /\ chunkWritten' = 0
    /\ UNCHANGED <<chunkIndex, chunkOffset, flagVars, callVars, markVars, flightVars,
                   keptVars, tgVars, dbVars, faults>>

OpenChunkFails ==
    /\ pc = "receive" /\ ~cancelled /\ ~opened /\ Parallel = 1
    /\ Fault /\ \E kind \in Kinds : state' = AfterError(kind)
    /\ Return
    /\ UNCHANGED <<cancelled, chunkVars, markVars, flightVars, keptVars, tgVars, dbVars>>

\* Parts announced when the stream upload of this chunk began.
TotalParts ==
    LET left == IF Total > chunkOffset THEN Total - chunkOffset ELSE ChunkSize
    IN  (Least(ChunkSize, left) + PartSize - 1) \div PartSize

\* Bytes the loop takes in one turn.
Take == Least(ChunkSize - chunkWritten, todo)

\* Where the handler goes when a turn of the loop is over.
Continue(left) ==
    IF left = 0 THEN Return
    ELSE pc' = "receive" /\ UNCHANGED <<caller, cursor, todo, error>>

AppendBytes ==
    /\ pc = "receive" /\ ~cancelled /\ opened /\ todo > 0
    /\ Buffering = "stream" => (Len(buffer) + Take) \div PartSize <= TotalParts
    /\ buffer' = buffer \o Span(cursor, Take) /\ fullPart' = FALSE
    /\ hasher' = hasher \o Span(cursor, Take)
    /\ chunkWritten' = chunkWritten + Take
    /\ receivedBytes' = receivedBytes + Take
    /\ IF chunkWritten + Take >= ChunkSize
       THEN /\ pc' = "close" /\ cursor' = cursor + Take /\ todo' = todo - Take
            /\ UNCHANGED <<caller, error>>
       ELSE Return
    /\ UNCHANGED <<flagVars, chunkIndex, chunkOffset, opened, committedBytes,
                   hasherCommitted, flightVars, keptVars, tgVars, dbVars, faults>>

\* Where receive() goes with an error that did not come from a piece in flight:
\* only a parallel session with pieces in flight settles them first.
ReportError(kind) ==
    IF Parallel > 1 /\ dangBay # <<>>
    THEN /\ pc' = "drain" /\ error' = kind
         /\ UNCHANGED <<caller, cursor, todo, state>>
    ELSE Return /\ state' = AfterError(kind)

\* The spool file takes no more bytes; Telegram has no part in it.
SpoolFails ==
    /\ pc = "receive" /\ ~cancelled /\ opened /\ todo > 0 /\ Buffering = "disk"
    /\ Fault /\ ReportError("fatal")
    /\ UNCHANGED <<cancelled, chunkVars, markVars, flightVars, keptVars, tgVars, dbVars>>

\* StreamUpload::feed() stops at the part that could not be sent and keeps what it
\* had put into it, while receive() takes none of the bytes as received.
StreamFails ==
    /\ pc = "receive" /\ ~cancelled /\ opened /\ todo > 0 /\ Buffering = "stream"
    /\ \E r \in 0..Take :
          LET fed == Len(buffer) + r IN
          /\ fed % PartSize = 0 /\ (r > 0 \/ fullPart)
          /\ buffer' = buffer \o Span(cursor, r) /\ fullPart' = TRUE
          /\ \/ Fault /\ \E kind \in Kinds : state' = AfterError(kind)
             \/ /\ fed \div PartSize = TotalParts + 1
                /\ state' = AfterError("fatal") /\ UNCHANGED faults
    /\ Return
    /\ UNCHANGED <<cancelled, chunkIndex, chunkOffset, chunkWritten, opened, markVars,
                   flightVars, keptVars, tgVars, dbVars>>

-----------------------------------------------------------------------------
(* Closing a chunk *)

\* WRONG ON PURPOSE: the length of the chunk.
ChunkLength == chunkWritten

ChunkEnd == chunkOffset + chunkWritten

\* giaoManhChoNen(): the buffer moves to a new piece with a thread of its own, and
\* with it a copy of the whole-file hash at the chunk's end.
GiaoManhChoNen ==
    /\ dangBay' = Append(dangBay,
                    [index |-> chunkIndex, offset |-> chunkOffset, size |-> chunkWritten,
                     data |-> buffer, hash |-> hasher, pc |-> "pushing", doc |-> 0])
    /\ DropBuffer
    /\ chunkOffset' = ChunkEnd
    /\ chunkWritten' = 0
    /\ chunkIndex' = chunkIndex + 1
    /\ UNCHANGED <<manhHong, loiManhDau>>

\* WRONG ON PURPOSE: off by one.
InFlightOver(n) == n > Parallel

\* receive() takes no more bytes while so many pieces fly.
InFlightFull(n) == n >= Parallel

HandOff ==
    /\ pc = "close" /\ Parallel > 1
    /\ GiaoManhChoNen
    /\ IF InFlightFull(Len(dangBay) + 1) THEN Goto("harvest") ELSE Continue(todo)
    /\ UNCHANGED <<flagVars, markVars, keptVars, tgVars, dbVars, faults>>

\* closeChunk(), the sequential way: flush and finish on the spot.
ChunkClosed ==
    /\ pc = "close" /\ Parallel = 1
    /\ (cancelled => Buffering = "stream")
    /\ Buffering = "stream" =>
          (Len(buffer) + PartSize - 1) \div PartSize <= TotalParts
    /\ LET doc == Len(posted) + 1 IN
       /\ posted' = Append(posted, buffer)
       /\ live' = live \cup {doc}
       /\ KeepRecord(chunkIndex, chunkOffset, chunkWritten, doc)
    /\ DropBuffer
    /\ chunkOffset' = ChunkEnd
    /\ committedBytes' = ChunkEnd
    /\ chunkWritten' = 0
    /\ chunkIndex' = chunkIndex + 1
    /\ hasherCommitted' = hasher
    /\ IF caller = "complete" THEN Goto("dedup") ELSE Continue(todo)
    /\ UNCHANGED <<flagVars, receivedBytes, hasher, flightVars, lost, dbVars, faults>>

\* The chunk is dropped, the marks stay where they are.
CloseChunkFails ==
    /\ pc = "close" /\ Parallel = 1
    /\ \/ /\ \/ cancelled /\ Buffering # "stream"
             \/ Buffering = "stream"
                /\ (Len(buffer) + PartSize - 1) \div PartSize > TotalParts
          /\ state' = AfterError("fatal")
          /\ UNCHANGED <<tgVars, faults>>
       \/ /\ Fault /\ \E kind \in Kinds : state' = AfterError(kind)
          /\ UNCHANGED tgVars
       \/ /\ Fault /\ \E kind \in Kinds : state' = AfterError(kind)
          /\ posted' = Append(posted, buffer)
          /\ live' = live \cup {Len(posted) + 1}
          /\ lost' = lost \cup {Len(posted) + 1}
    /\ DropBuffer
    /\ Return
    /\ UNCHANGED <<cancelled, chunkIndex, chunkOffset, chunkWritten, markVars,
                   flightVars, keptVars, dbVars>>

-----------------------------------------------------------------------------
(* Taking pieces back *)

\* WRONG ON PURPOSE: only a piece that arrived is ever taken back.
HeadArrived == dangBay # <<>> /\ dangBay[1].pc = "ok"

HeadLanded == dangBay # <<>> /\ dangBay[1].pc \in Settled

\* WRONG ON PURPOSE: what landed while the session was being cancelled is forgotten.
ForgetPiece(m) == uploaded

\* A document that will not enter the chunk list still has to be removed one day.
KeepForRollback(m) == IF m.pc = "ok" THEN uploaded \cup {m.doc} ELSE uploaded

\* WRONG ON PURPOSE: a piece that landed behind a failed one is committed like any
\* other.
ThuMotManhAcrossHole ==
    LET m == dangBay[1] IN
    /\ HeadLanded
    /\ dangBay' = Tail(dangBay)
    /\ IF m.pc # "ok"
       THEN /\ manhHong' = TRUE /\ loiManhDau' = m.pc
            /\ UNCHANGED <<uploaded, chunkRecords, committedBytes, hasherCommitted>>
       ELSE /\ KeepRecord(m.index, m.offset, m.size, m.doc)
            /\ committedBytes' = m.offset + m.size
            /\ hasherCommitted' = m.hash
            /\ UNCHANGED <<manhHong, loiManhDau>>

\* thuMotManh(): join the thread of the oldest piece.  Once a piece has failed, no
\* later one is contiguous with what is committed: its document is only kept for
\* the clean-up.
ThuMotManh ==
    LET m == dangBay[1] IN
    /\ HeadLanded
    /\ dangBay' = Tail(dangBay)
    /\ IF manhHong \/ m.pc # "ok"
       THEN /\ uploaded' = KeepForRollback(m)
            /\ manhHong' = TRUE
            /\ loiManhDau' = IF manhHong THEN loiManhDau ELSE m.pc
            /\ UNCHANGED <<chunkRecords, committedBytes, hasherCommitted>>
       ELSE /\ KeepRecord(m.index, m.offset, m.size, m.doc)
            /\ committedBytes' = m.offset + m.size
            /\ hasherCommitted' = m.hash
            /\ UNCHANGED <<manhHong, loiManhDau>>

\* receive() waits for the oldest piece while Parallel pieces are in flight.
Harvest ==
    /\ pc = "harvest"
    /\ ThuMotManh
    /\ IF manhHong'
       THEN /\ pc' = "drain" /\ error' = loiManhDau'
            /\ UNCHANGED <<caller, cursor, todo>>
       ELSE IF InFlightFull(Len(dangBay) - 1)
       THEN UNCHANGED callVars
       ELSE Continue(todo)
    /\ UNCHANGED <<flagVars, chunkVars, receivedBytes, hasher, tgVars, dbVars, faults>>

\* One turn of the loop of thuHetManh(), or of the one in cancel(), which keeps
\* every document for the rollback whatever happened to the others.
Drain ==
    /\ pc = "drain" /\ HeadLanded
    /\ IF caller = "cancel"
       THEN /\ dangBay' = Tail(dangBay)
            /\ uploaded' = KeepForRollback(dangBay[1])
            /\ UNCHANGED <<manhHong, loiManhDau, chunkRecords, committedBytes,
                           hasherCommitted>>
       ELSE ThuMotManh
    /\ UNCHANGED <<flagVars, callVars, chunkVars, receivedBytes, hasher, tgVars,
                   dbVars, faults>>

\* WRONG ON PURPOSE: the index of the last chunk, and -1 before the first.
LastIndex == Len(chunkRecords) - 1

NextIndex == IF chunkRecords = <<>> THEN 0
             ELSE chunkRecords[Len(chunkRecords)].index + 1

\* The chunk that begins at `mark' has to be filled again.
StepBackTo(mark, hash) ==
    /\ receivedBytes' = mark
    /\ hasher' = hash
    /\ chunkOffset' = mark
    /\ chunkIndex' = NextIndex
    /\ chunkWritten' = 0
    /\ DropBuffer
    /\ manhHong' = FALSE /\ loiManhDau' = "none"
    /\ UNCHANGED <<committedBytes, hasherCommitted, dangBay>>

\* WRONG ON PURPOSE: the hash keeps what the step back gives up.
LuiMocKeepsHash == StepBackTo(committedBytes, hasher)

\* WRONG ON PURPOSE: back to the start of the file.
LuiMocToStart == StepBackTo(0, <<>>)

\* The end of thuHetManh() when a piece has failed: back to the contiguous prefix
\* that is on Telegram.
LuiMoc == StepBackTo(committedBytes, hasherCommitted)

ThuHetManh ==
    IF manhHong THEN LuiMoc ELSE UNCHANGED <<chunkVars, markVars, flightVars>>

\* receive() gives up, after a failed piece or another error.
ReceiveDrained ==
    /\ pc = "drain" /\ caller = "receive" /\ dangBay = <<>>
    /\ ThuHetManh
    /\ state' = AfterError(error)
    /\ Return
    /\ UNCHANGED <<cancelled, keptVars, tgVars, dbVars, faults>>

\* chotSoTruocKhiNoi(): whoever wants to resume settles the pieces in flight first.
ChotSo ==
    /\ caller = "none" /\ dangBay # <<>>
    /\ caller' = "settle" /\ pc' = "drain"
    /\ UNCHANGED <<cursor, todo, error, flagVars, chunkVars, markVars, flightVars,
                   keptVars, tgVars, dbVars, faults>>

ChotSoDrained ==
    /\ pc = "drain" /\ caller = "settle" /\ dangBay = <<>>
    /\ ThuHetManh
    /\ Return
    /\ UNCHANGED <<flagVars, keptVars, tgVars, dbVars, faults>>

-----------------------------------------------------------------------------
(* complete() *)

\* The last, partial chunk leaves first; an open buffer with nothing in it is
\* thrown away.
CompleteCall ==
    /\ caller = "none" /\ ~cancelled
    /\ state' = "Flushing"
    /\ caller' = "complete"
    /\ \/ /\ opened /\ chunkWritten > 0 /\ Parallel > 1
          /\ GiaoManhChoNen /\ pc' = "drain"
       \/ /\ opened /\ chunkWritten > 0 /\ Parallel = 1
          /\ pc' = "close" /\ UNCHANGED <<chunkVars, flightVars>>
       \/ /\ ~(opened /\ chunkWritten > 0)
          /\ DropBuffer
          /\ pc' = IF Parallel > 1 THEN "drain" ELSE "dedup"
          /\ UNCHANGED <<chunkIndex, chunkOffset, chunkWritten, flightVars>>
    /\ UNCHANGED <<cancelled, cursor, todo, error, markVars, keptVars, tgVars, dbVars,
                   faults>>

\* WRONG ON PURPOSE: complete() does not look at what thuHetManh() says.
CompleteDrainedBlindly ==
    /\ pc = "drain" /\ caller = "complete" /\ dangBay = <<>>
    /\ ThuHetManh
    /\ Goto("dedup")
    /\ UNCHANGED <<flagVars, keptVars, tgVars, dbVars, faults>>

\* All pieces are down: with one missing the session steps back and answers with an
\* error, else the chunk list is complete.
CompleteDrained ==
    /\ pc = "drain" /\ caller = "complete" /\ dangBay = <<>>
    /\ ThuHetManh
    /\ IF manhHong
       THEN state' = AfterError(loiManhDau) /\ Return
       ELSE Goto("dedup") /\ UNCHANGED state
    /\ UNCHANGED <<cancelled, keptVars, tgVars, dbVars, faults>>

\* No other file has this content (or storage.deduplicate is off).
NoTwin ==
    /\ pc = "dedup"
    /\ Goto("replace")
    /\ UNCHANGED <<flagVars, chunkVars, markVars, flightVars, keptVars, tgVars, dbVars,
                   faults>>

\* findByHash() found one: what was just sent is removed first ...
TakeTwin ==
    /\ pc = "dedup" /\ receivedBytes > 0 /\ hasher = Span(0, Total)
    /\ RemoveChunks(uploaded)
    /\ uploaded' = {}
    /\ Goto("twin")
    /\ UNCHANGED <<flagVars, chunkVars, markVars, flightVars, chunkRecords, posted, dbVars>>

\* ... and the twin's chunk list taken over, if listChunks() can still read it.
CopyTwinRows ==
    /\ pc = "twin"
    /\ \/ chunkRecords' = TwinRows /\ UNCHANGED faults
       \/ "list" \in DbFaults /\ Fault /\ UNCHANGED chunkRecords
    /\ Goto("replace")
    /\ UNCHANGED <<flagVars, chunkVars, markVars, flightVars, uploaded, tgVars, dbVars>>

\* ConflictPolicy::Replace: purgeFileData() takes the old file's data away before
\* its entry is overwritten.  Any other policy touches no other file.
KeepOthers ==
    /\ pc = "replace"
    /\ Goto("entry")
    /\ UNCHANGED <<flagVars, chunkVars, markVars, flightVars, keptVars, tgVars, dbVars,
                   faults>>

PurgeOld ==
    /\ pc = "replace"
    /\ RemoveChunks({Old})
    /\ Goto("entry")
    /\ UNCHANGED <<flagVars, chunkVars, markVars, flightVars, keptVars, posted, dbVars>>

\* createEntry() or updateEntry(): from here on the file can be listed and read.
WriteEntry ==
    /\ pc = "entry"
    /\ file' = [listed |-> TRUE, size |-> receivedBytes, hash |-> hasher]
    /\ Goto("rows")
    /\ UNCHANGED <<flagVars, chunkVars, markVars, flightVars, keptVars, tgVars, rows,
                   saved, faults>>

\* addChunk(), one row at a time, with no transaction around them.
AddChunk ==
    /\ pc = "rows" /\ Len(rows) < Len(chunkRecords)
    /\ rows' = Append(rows, chunkRecords[Len(rows) + 1])
    /\ Goto("rows")
    /\ UNCHANGED <<flagVars, chunkVars, markVars, flightVars, keptVars, tgVars, file,
                   saved, faults>>

\* The database refuses: the session is Failed, what is on Telegram stays listed in
\* uploaded_ for whoever cancels it.
DatabaseFails ==
    /\ \/ pc = "entry" /\ "entry" \in DbFaults
       \/ pc = "rows" /\ Len(rows) < Len(chunkRecords) /\ "row" \in DbFaults
    /\ Fault
    /\ state' = "Failed"
    /\ Return
    /\ UNCHANGED <<cancelled, chunkVars, markVars, flightVars, keptVars, tgVars, dbVars>>

\* WRONG ON PURPOSE: the list is let go as it is.
NoOrphans == {}

\* Documents that landed behind a failed piece belong to no row: they go before the
\* list is let go.
Orphans == uploaded \ Docs(chunkRecords)

Finish ==
    /\ pc = "rows" /\ Len(rows) = Len(chunkRecords)
    /\ RemoveChunks(Orphans)
    /\ uploaded' = {}
    /\ state' = "Completed"
    /\ saved' = TRUE
    /\ Return
    /\ UNCHANGED <<cancelled, chunkVars, markVars, flightVars, chunkRecords, posted, file,
                   rows>>

-----------------------------------------------------------------------------
(* cancel(): by the user, or by reapStale() for a session nobody feeds *)

\* Only the caller that turns the flag goes on.
CancelRequest ==
    /\ ~cancelled
    /\ cancelled' = TRUE
    /\ UNCHANGED <<state, callVars, chunkVars, markVars, flightVars, keptVars, tgVars,
                   dbVars, faults>>

\* WRONG ON PURPOSE: a session that has failed is taken for one already cleaned up.
CancelUnlessFailed ==
    /\ cancelled /\ state \notin {"Cancelled", "Failed"} /\ caller = "none"
    /\ state' = "Cancelled"
    /\ caller' = "cancel" /\ pc' = "drain"
    /\ UNCHANGED <<cancelled, cursor, todo, error, chunkVars, markVars, flightVars,
                   keptVars, tgVars, dbVars, faults>>

Cancel ==
    /\ cancelled /\ state # "Cancelled" /\ caller = "none"
    /\ state' = "Cancelled"
    /\ caller' = "cancel" /\ pc' = "drain"
    /\ UNCHANGED <<cancelled, cursor, todo, error, chunkVars, markVars, flightVars,
                   keptVars, tgVars, dbVars, faults>>

\* WRONG ON PURPOSE: the chunk list is removed, whoever the documents belong to.
RollbackRecords ==
    /\ RemoveChunks(uploaded \cup Docs(chunkRecords))
    /\ uploaded' = {} /\ chunkRecords' = <<>>

\* The writer is aborted, the buffer dropped, and rollback() removes what was sent.
Rollback ==
    /\ RemoveChunks(uploaded)
    /\ uploaded' = {}
    /\ chunkRecords' = IF uploaded = {} THEN chunkRecords ELSE <<>>

CancelDrained ==
    /\ pc = "drain" /\ caller = "cancel" /\ dangBay = <<>>
    /\ DropBuffer
    /\ Rollback
    /\ Return
    /\ UNCHANGED <<flagVars, chunkIndex, chunkOffset, chunkWritten, markVars, flightVars,
                   posted, dbVars>>

-----------------------------------------------------------------------------
(* The specification *)

\* Twin and Old are there already; Old is not a span of this file's bytes.
Init ==
    /\ cancelled = FALSE /\ state = "Preparing"
    /\ caller = "none" /\ pc = "idle" /\ cursor = 0 /\ todo = 0 /\ error = "none"
    /\ chunkIndex = 0 /\ chunkOffset = 0 /\ chunkWritten = 0
    /\ opened = FALSE /\ buffer = <<>> /\ fullPart = FALSE
    /\ receivedBytes = 0 /\ committedBytes = 0 /\ hasher = <<>> /\ hasherCommitted = <<>>
    /\ dangBay = <<>> /\ manhHong = FALSE /\ loiManhDau = "none"
    /\ chunkRecords = <<>> /\ uploaded = {}
    /\ posted = <<Span(0, Total), <<Total>>>> /\ live = Foreign /\ lost = {}
    /\ file = NoFile /\ rows = <<>> /\ saved = FALSE
    /\ faults = 0

\* What the HTTP handlers make of the session: a block is taken from where the
\* session says it stands, and complete() is asked for once all bytes were taken.
ClientSends == \E k \in 1..MaxBlock :
    receivedBytes + k <= Total /\ ReceiveCall(receivedBytes, k)

\* WRONG ON PURPOSE: the client asks whenever it likes; complete() itself does not
\* compare what it received with the announced size.
ClientCompletesEarly ==
    /\ state \in {"Preparing", "Receiving"}
    /\ CompleteCall

ClientCompletes ==
    /\ state \in {"Preparing", "Receiving"} /\ receivedBytes = Total
    /\ CompleteCall

\* The steps of the call that holds mu_.
HandlerStep ==
    \/ ReceiveStopped \/ OpenChunk \/ OpenChunkFails \/ AppendBytes \/ SpoolFails
    \/ StreamFails \/ HandOff \/ ChunkClosed \/ CloseChunkFails \/ Harvest \/ Drain
    \/ ReceiveDrained \/ ChotSoDrained \/ CompleteDrained \/ NoTwin \/ TakeTwin
    \/ CopyTwinRows \/ KeepOthers \/ PurgeOld \/ WriteEntry \/ AddChunk \/ DatabaseFails \/ Finish
    \/ CancelDrained

PieceStep == \E i \in DOMAIN dangBay : PushPiece(i) \/ FinishPiece(i)

\* A session that is saved or cleaned up has nothing left to do.
Ended ==
    /\ state \in {"Completed", "Cancelled"} /\ caller = "none"
    /\ UNCHANGED vars

Next ==
    \/ ClientSends \/ ClientCompletes \/ ChotSo \/ CancelRequest \/ Cancel
    \/ HandlerStep \/ PieceStep \/ Ended

Spec == Init /\ [][Next]_vars

\* The operating system schedules the thread that holds mu_ and every background
\* thread, and Telegram's calls end, if only in an error.  The strong fairness of
\* Cancel says that whoever turned the flag gets the mutex in the end: a call that
\* comes after the flag leaves receive() before it asks for mu_, so only the few
\* that were waiting already can be served first.
FairSpec ==
    /\ Spec
    /\ WF_vars(HandlerStep) /\ WF_vars(PieceStep) /\ SF_vars(Cancel)

-----------------------------------------------------------------------------
(* Properties *)

\* Chunk records that follow each other from byte 0, each naming a document that
\* is still on Telegram and holds exactly the bytes the record stands for.
Chained(records) ==
    \A j \in DOMAIN records :
        /\ records[j].index = j - 1
        /\ records[j].offset = IF j = 1 THEN 0
                               ELSE records[j - 1].offset + records[j - 1].size
        /\ records[j].doc \in live \cap DOMAIN posted
        /\ posted[records[j].doc] = Span(records[j].offset, records[j].size)

\* How many bytes they cover.
Covers(records) == IF records = <<>> THEN 0
    ELSE records[Len(records)].offset + records[Len(records)].size

\* When complete() has answered that the file is saved, its entry has the announced
\* size and the hash of the whole file, and its rows cover every byte with
\* documents that exist and hold the right bytes, whatever failed, was sent again
\* or was cancelled afterwards.
SavedFileIsWhole ==
    saved => /\ file.listed /\ file.size = Total /\ file.hash = Span(0, Total)
             /\ Chained(rows) /\ Covers(rows) = Total

\* The default configuration (sequential) keeps that promise as long as no call
\* to Telegram or the database has failed.
SavedUnlessSomethingFailed == faults = 0 => SavedFileIsWhole

\* Whenever the mutex is free and nothing is in flight, the position a client is
\* told to resume from is right: up to committedBytes the chunk list covers the
\* file, from there to receivedBytes the open buffer holds it, and the running hash
\* is that of what has been received.
ResumePointIsSound ==
    (caller = "none" /\ dangBay = <<>> /\ state \in {"Preparing", "Receiving"}) =>
        /\ Chained(chunkRecords) /\ Covers(chunkRecords) = committedBytes
        /\ chunkOffset = committedBytes
        /\ receivedBytes = committedBytes + Len(buffer)
        /\ buffer = Span(committedBytes, Len(buffer))
        /\ hasher = Span(0, receivedBytes)

\* No document is forgotten: each one on Telegram belongs to another file, to a row
\* of this file, to the list the session would remove, or to a piece not yet taken
\* back, unless a call to Telegram itself failed on it.
EveryDocumentAccounted ==
    live \subseteq Foreign \cup uploaded \cup Docs(rows) \cup lost \cup FlightDocs

\* A session cleans up only what it sent: the chunk of another file survives, also
\* when this session shares it after deduplication and then fails or is cancelled.
OtherFilesUntouched == Twin \in live

\* The buffers a session holds, filling and in flight, never exceed the number
\* chonCachDay() sized the memory or disk budget for.
BuffersBounded == Len(dangBay) + (IF opened THEN 1 ELSE 0) <= Parallel

\* After a cancelled session has been cleaned up, nothing it sent is left but what
\* Telegram refused to delete or never admitted to have, and a file saved before.
CancelledLeavesNothing ==
    (state = "Cancelled" /\ caller = "none") =>
        live \subseteq Foreign \cup lost \cup Docs(rows)

\* What is committed stays committed: no failure, retry or step back loses a byte
\* of the prefix that is on Telegram, and the resume position never falls below it.
CommittedNeverShrinks ==
    [][committedBytes' >= committedBytes /\ receivedBytes' >= committedBytes]_vars

\* Whoever calls into the session gets an answer: no handler waits for ever for a
\* piece, and the mutex is released.
EveryCallReturns == (caller # "none") ~> (caller = "none")

\* A cancelled session is cleaned up, however many of its pieces are still on their
\* way to Telegram and whatever handler holds the mutex at that moment.
CancelTakesEffect == cancelled ~> (state = "Cancelled" /\ caller = "none")

-----------------------------------------------------------------------------
(* Refinement *)

Outcome == IF saved THEN "saved" ELSE IF state = "Cancelled" THEN "discarded" ELSE "open"

Durable == INSTANCE DurableUpload WITH
    accepted <- receivedBytes, durable <- committedBytes, outcome <- Outcome

\* Seen through its two marks, the session keeps the promise of DurableUpload.
KeepsPromise == Durable!Spec

=============================================================================
