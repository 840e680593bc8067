-------------------------- MODULE UploadSessionInv --------------------------
(***************************************************************************)
(* The strengthening of UploadSession's properties that is inductive: what *)
(* the proofs carry through every step, in named parts.                    *)
(***************************************************************************)
EXTENDS UploadSession

\* No call fills a chunk beyond its size.
TypeInv == TypeOK /\ chunkWritten <= ChunkSize

SavePhase == {"dedup", "twin", "replace", "entry", "rows"}

\* Which handler stands where, and the state it works in.
Control ==
    /\ caller = "none" <=> pc = "idle"
    /\ pc \in {"receive", "harvest"} => caller = "receive"
    /\ pc = "close" => caller \in {"receive", "complete"}
    /\ pc \in SavePhase => caller = "complete"
    /\ pc = "harvest" => Parallel > 1
    /\ (pc = "close" /\ caller = "complete") => Parallel = 1
    /\ caller = "receive" => state = "Receiving"
    /\ caller = "complete" => state = "Flushing"
    /\ caller = "cancel" => state = "Cancelled"
    /\ caller = "settle" => state \in {"Preparing", "Receiving"}
    /\ state = "Flushing" => caller = "complete"
    /\ (state = "Cancelled" /\ caller # "none") => caller = "cancel"

\* Pieces fly only for a session that is alive or being wound up.
Slots ==
    /\ Parallel = 1 => dangBay = <<>>
    /\ Len(dangBay) + (IF opened THEN 1 ELSE 0) <= Parallel
    /\ pc \notin {"harvest", "drain"} => Len(dangBay) < Parallel
    /\ pc = "harvest" => ~opened
    /\ pc \in SavePhase => dangBay = <<>>
    /\ state \in {"Failed", "Completed"} => dangBay = <<>>
    /\ (state = "Cancelled" /\ caller = "none") => dangBay = <<>> /\ uploaded = {}

\* Where every document came from.
Accounts ==
    /\ Len(posted) >= 2
    /\ live \subseteq 1..Len(posted)
    /\ uploaded \subseteq 3..Len(posted)
    /\ \A i \in DOMAIN dangBay :
          IF dangBay[i].pc = "ok" THEN dangBay[i].doc \in 3..Len(posted)
                                  ELSE dangBay[i].doc = 0
    /\ Twin \in live
    /\ EveryDocumentAccounted

\* Rows are written once, in the order of the chunk list, by the call that saves.
Rows ==
    /\ caller = "complete" \/ state = "Completed" => receivedBytes = Total
    /\ pc = "rows" => /\ Len(rows) <= Len(chunkRecords)
                      /\ \A j \in DOMAIN rows : rows[j] = chunkRecords[j]
    /\ (pc # "rows" /\ state \notin {"Failed", "Completed", "Cancelled"}) => rows = <<>>

Inv == TypeInv /\ Control /\ Slots /\ Accounts /\ Rows

-----------------------------------------------------------------------------
(* What the bytes are: always for a session with several chunks in flight, until a *)
(* call fails for a sequential one                                                 *)

\* The session still takes bytes or is being saved.
Active == state \in {"Preparing", "Receiving", "Flushing"}

\* The open buffer begins where the last chunk handed off ends, and the running
\* hashes are those of the two marks.
Marks ==
    /\ receivedBytes = chunkOffset + chunkWritten /\ receivedBytes <= Total
    /\ ~opened => chunkWritten = 0
    /\ (caller = "complete" /\ pc # "close") => chunkWritten = 0
    /\ buffer = Span(chunkOffset, chunkWritten)
    /\ hasher = Span(0, receivedBytes)
    /\ hasherCommitted = Span(0, committedBytes)
    /\ (caller = "receive" /\ pc \in {"receive", "close", "harvest"}) =>
          cursor = receivedBytes /\ receivedBytes + todo <= Total

\* Each piece carries its own bytes and the hash of the file up to its end.
Pieces ==
    \A i \in DOMAIN dangBay :
        /\ dangBay[i].data = Span(dangBay[i].offset, dangBay[i].size)
        /\ dangBay[i].hash = Span(0, dangBay[i].offset + dangBay[i].size)
        /\ dangBay[i].pc = "ok" => /\ dangBay[i].doc \in live
                                   /\ posted[dangBay[i].doc] = dangBay[i].data

\* Where the pieces in flight begin and what follows piece i.
HeadOffset == IF dangBay = <<>> THEN chunkOffset ELSE dangBay[1].offset
HeadIndex  == IF dangBay = <<>> THEN chunkIndex ELSE dangBay[1].index
EndOf(i)   == IF i = Len(dangBay) THEN chunkOffset ELSE dangBay[i + 1].offset
IndexOf(i) == IF i = Len(dangBay) THEN chunkIndex ELSE dangBay[i + 1].index

\* The pieces follow each other without a hole, from the committed prefix (unless
\* one is known to have failed) to the open buffer.
Chain ==
    /\ \A i \in DOMAIN dangBay : /\ dangBay[i].offset + dangBay[i].size = EndOf(i)
                                 /\ dangBay[i].index + 1 = IndexOf(i)
                                 /\ committedBytes <= dangBay[i].offset
                                 /\ dangBay[i].offset + dangBay[i].size <= chunkOffset
    /\ \A i, j \in DOMAIN dangBay :
          i < j => dangBay[i].offset + dangBay[i].size <= dangBay[j].offset
    /\ committedBytes <= chunkOffset
    /\ manhHong => pc = "drain"
    /\ ~manhHong => HeadOffset = committedBytes

\* The chunk list is the committed prefix.
Own ==
    /\ Chained(chunkRecords) /\ Covers(chunkRecords) = committedBytes
    /\ Docs(chunkRecords) \subseteq uploaded
    /\ ~manhHong => HeadIndex = Len(chunkRecords)

\* The chunk list, sent by this session or taken from the twin, is the file.
Whole ==
    /\ Chained(chunkRecords) /\ Covers(chunkRecords) = Total
    /\ Docs(chunkRecords) \subseteq uploaded \cup {Twin}

Content ==
    /\ posted[Twin] = Span(0, Total)
    /\ committedBytes <= receivedBytes
    /\ Active => Marks /\ Pieces /\ Chain
    /\ (Active /\ pc \notin SavePhase) => Own
    /\ pc \in SavePhase \ {"twin"} => Whole
    /\ pc \in SavePhase => committedBytes = Total
    /\ pc = "rows" => file.listed /\ file.size = Total /\ file.hash = Span(0, Total)
    /\ saved => /\ SavedFileIsWhole
                /\ state \in {"Completed", "Cancelled"}
                /\ uploaded = {} /\ dangBay = <<>>

UnfailedContent == faults = 0 => Content

\* A sequential session has no piece to take back: whatever fails, the chunk being
\* filled begins at the committed mark and its bytes are among those received.
SequentialMarks ==
    Parallel = 1 => /\ ~manhHong /\ committedBytes = chunkOffset
                    /\ chunkOffset + chunkWritten <= receivedBytes

=============================================================================
