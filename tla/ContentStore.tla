---------------------------- MODULE ContentStore ----------------------------
(***************************************************************************)
(* Files that share documents: the deduplication at the end of an upload   *)
(* (UploadSession::complete), linking (UploadManager::begin), copying,     *)
(* trashing, restoring and purging (app::Vfs), and StorageEngine's         *)
(* purgeFileData, which decides whether a file's documents may leave       *)
(* Telegram.                                                               *)
(*                                                                         *)
(* Nothing holds a lock over one of these operations: the database locks   *)
(* itself for one call, so each call is a step, and the requests of        *)
(* different connections interleave.  A job is one request being served;   *)
(* what it has read stays in the job while others go on.                   *)
(*                                                                         *)
(* A content is what a SHA-256 tells apart.  A document holds one part of  *)
(* one content.  Names, paths, folders and owners are not represented: a   *)
(* file is its id.                                                         *)
(***************************************************************************)
EXTENDS Naturals, Sequences, FiniteSets

CONSTANTS
    Files,        \* ids of ttd_entries, handed out once
    Contents,
    Parts,        \* chunks of a file
    Actors,       \* threads that serve requests
    Deduplicate,  \* config.storage.deduplicate
    None,         \* no file
    MaxUploads,   \* BOUND: files sent to Telegram in a run
    MaxFaults     \* BOUND: deletions Telegram refuses in a run

ASSUME StoreAssumption ==
    /\ None \notin Files \cup Contents
    /\ IsFiniteSet(Files)
    /\ Parts \in Nat \ {0}
    /\ Deduplicate \in BOOLEAN
    /\ MaxUploads \in Nat /\ MaxFaults \in Nat

VARIABLES
    entries,   \* ttd_entries: what a row says of its file
    rows,      \* ttd_chunks: the documents named for each file
    posted,    \* the documents ever put on Telegram
    live,      \* those still there
    lost,      \* those Telegram refused to delete
    givenUp,   \* those a purge left behind as shared, and nobody shares
    jobs,      \* what each actor is doing
    faults

storeVars == <<entries, rows>>
tgVars    == <<posted, live, lost, givenUp, faults>>
vars      == <<storeVars, tgVars, jobs>>

-----------------------------------------------------------------------------
(* Values *)

Status   == {"unused", "listed", "trashed", "deleted"}
Entry    == [status : Status, content : Contents \cup {None}]
Document == [content : Contents, part : 1..Parts]
DocIds   == 1..(MaxUploads * Parts)

Places == {"idle",
           "dedup", "twin", "replace", "overwrite",      \* complete()
           "link", "linkCreate", "copy", "copyList",     \* begin(), copy()
           "rows",                                       \* the end of all three
           "count", "dropShared", "list", "remove", "drop",   \* purgeFileData()
           "delete", "trash", "restore"}

Job == [pc : Places,
        then : {"idle", "overwrite", "delete"},   \* where purgeFileData() returns to
        file : Files \cup {None},                 \* the file getEntry() was asked for
        hash : Contents \cup {None},              \* its content when it was read
        target : Files \cup {None},               \* the file being written
        content : Contents \cup {None},           \* and its content
        old : Files \cup {None},                  \* replaceFileId_
        sent : SUBSET DocIds,                     \* uploaded_
        todo : SUBSET DocIds,                     \* chunkRecords_: rows to be written
        doomed : SUBSET DocIds]                   \* the list purgeFileData() works from

NoJob == [pc |-> "idle", then |-> "idle", file |-> None, hash |-> None, target |-> None,
          content |-> None, old |-> None, sent |-> {}, todo |-> {}, doomed |-> {}]

TypeOK ==
    /\ entries \in [Files -> Entry]
    /\ rows \in [Files -> SUBSET DocIds]
    /\ posted \in Seq(Document)
    /\ live \subseteq DOMAIN posted
    /\ lost \subseteq DOMAIN posted
    /\ givenUp \subseteq DOMAIN posted
    /\ jobs \in [Actors -> Job]
    /\ \A a \in Actors : jobs[a].sent \subseteq DOMAIN posted
    /\ faults \in Nat

Exists(f) == entries[f].status \in {"listed", "trashed"}
Listed    == {f \in Files : entries[f].status = "listed"}

\* findByHash(): the trash is not searched.
SameContent(c) == {f \in Listed : entries[f].content = c}

\* WRONG ON PURPOSE: the trash is not counted either.
CountFilesListed(c) == Cardinality(SameContent(c))

\* countFilesWithHash(): the trash is counted.
CountFilesWithHash(c) == Cardinality({f \in Files : Exists(f) /\ entries[f].content = c})

-----------------------------------------------------------------------------
(* Helpers *)

Idle(a)       == jobs[a].pc = "idle"
At(a, where)  == jobs[a].pc = where
Become(a, job) == jobs' = [jobs EXCEPT ![a] = job]
Goto(a, where) == jobs' = [jobs EXCEPT ![a].pc = where]
Return(a)      == Become(a, NoJob)

\* The storage backend's removeChunks(): what Telegram refuses is only logged.
RemoveChunks(docs) ==
    \E kept \in SUBSET (docs \cap live) :
        /\ kept # {} => faults < MaxFaults
        /\ faults' = faults + (IF kept = {} THEN 0 ELSE 1)
        /\ live' = live \ (docs \ kept)
        /\ lost' = lost \cup kept

\* BOUND: a job that will need an id can have one.
IdsLeft == Cardinality({f \in Files : entries[f].status = "unused"})
           > Cardinality({b \in Actors : ~Idle(b)})

\* createEntry() gives the file an id of its own.
CreateEntry(f, c) ==
    /\ entries[f].status = "unused"
    /\ entries' = [entries EXCEPT ![f] = [status |-> "listed", content |-> c]]

\* updateEntry() writes every column, whatever they became since they were read; it
\* is no error when the row is gone.
UpdateEntry(f, status, c) ==
    entries' = IF Exists(f)
               THEN [entries EXCEPT ![f] = [status |-> status, content |-> c]]
               ELSE entries

-----------------------------------------------------------------------------
(* Upload: from the last chunk to the answer of complete() *)

\* WRONG ON PURPOSE: off by one.
NewDocsOffByOne == Len(posted)..(Len(posted) + Parts - 1)

\* The documents of an upload, one for each chunk.
NewDocs == (Len(posted) + 1)..(Len(posted) + Parts)

\* The chunks of a file of content c are on Telegram.  replaceFileId_ was chosen when
\* the upload began, so it may be in the trash by now, or deleted.
Send(a, c, old) ==
    /\ Idle(a) /\ Len(posted) < MaxUploads * Parts /\ IdsLeft
    /\ old \in {f \in Files : entries[f].status # "unused"} \cup {None}
    /\ posted' = posted \o [p \in 1..Parts |-> [content |-> c, part |-> p]]
    /\ live' = live \cup NewDocs
    /\ Become(a, [NoJob EXCEPT !.pc = "dedup", !.content = c, !.old = old,
                               !.sent = NewDocs, !.todo = NewDocs])
    /\ UNCHANGED <<storeVars, lost, givenUp, faults>>

\* The session is cancelled instead of completed: rollback() removes what it sent.
CancelUpload(a) ==
    /\ At(a, "dedup")
    /\ RemoveChunks(jobs[a].sent)
    /\ Return(a)
    /\ UNCHANGED <<storeVars, posted, givenUp>>

\* The files findByHash() offers, replaceFileId_ left aside.
Twins(a) == SameContent(jobs[a].content) \ {jobs[a].old}

NoTwin(a) ==
    /\ At(a, "dedup")
    /\ ~Deduplicate \/ Twins(a) = {}
    /\ Goto(a, "replace")
    /\ UNCHANGED <<storeVars, tgVars>>

\* WRONG ON PURPOSE: what was just sent is not removed.
TakeTwinKeepSent(a) ==
    /\ At(a, "dedup") /\ Deduplicate
    /\ \E f \in Twins(a) :
          jobs' = [jobs EXCEPT ![a].pc = "twin", ![a].file = f, ![a].sent = {}]
    /\ UNCHANGED <<storeVars, tgVars>>

\* A file with this content is listed: what was just sent goes first ...
TakeTwin(a) ==
    /\ At(a, "dedup") /\ Deduplicate
    /\ RemoveChunks(jobs[a].sent)
    /\ \E f \in Twins(a) :
          jobs' = [jobs EXCEPT ![a].pc = "twin", ![a].file = f, ![a].sent = {}]
    /\ UNCHANGED <<storeVars, posted, givenUp>>

\* ... and the chunks of that file take its place.
ListTwin(a) ==
    /\ At(a, "twin")
    /\ jobs' = [jobs EXCEPT ![a].pc = "replace", ![a].todo = rows[jobs[a].file]]
    /\ UNCHANGED <<storeVars, tgVars>>

\* purgeFileData(), asked for file f as its entry reads now.
Purge(a, f, then) ==
    jobs' = [jobs EXCEPT ![a].pc = "count", ![a].then = then,
                         ![a].file = f, ![a].hash = entries[f].content]

\* ConflictPolicy::Replace, and the old file still has an entry: its data is purged,
\* then the entry overwritten.  Otherwise the upload gets an entry of its own.
ReplaceOld(a) ==
    LET old == jobs[a].old IN
    /\ At(a, "replace") /\ old # None /\ Exists(old)
    /\ Purge(a, old, "overwrite")
    /\ UNCHANGED <<storeVars, tgVars>>

OverwriteEntry(a) ==
    LET old == jobs[a].old IN
    /\ At(a, "overwrite")
    /\ UpdateEntry(old, "listed", jobs[a].content)
    /\ jobs' = [jobs EXCEPT ![a].pc = "rows", ![a].target = old]
    /\ UNCHANGED <<rows, tgVars>>

NewEntry(a, f) ==
    /\ At(a, "replace") /\ jobs[a].old \notin {g \in Files : Exists(g)}
    /\ CreateEntry(f, jobs[a].content)
    /\ jobs' = [jobs EXCEPT ![a].pc = "rows", ![a].target = f]
    /\ UNCHANGED <<rows, tgVars>>

\* addChunk(), one call for each chunk of the list.
AddChunk(a, d) ==
    /\ At(a, "rows") /\ d \in jobs[a].todo
    /\ rows' = [rows EXCEPT ![jobs[a].target] = @ \cup {d}]
    /\ jobs' = [jobs EXCEPT ![a].todo = @ \ {d}]
    /\ UNCHANGED <<entries, tgVars>>

\* What was sent now belongs to the file.
RowsWritten(a) ==
    /\ At(a, "rows") /\ jobs[a].todo = {}
    /\ Return(a)
    /\ UNCHANGED <<storeVars, tgVars>>

-----------------------------------------------------------------------------
(* StorageEngine::purgeFileData() *)

\* Some other file has this hash.
Shared(a) == Deduplicate /\ CountFilesWithHash(jobs[a].hash) > 1

Count(a) ==
    /\ At(a, "count")
    /\ Goto(a, IF Shared(a) THEN "dropShared" ELSE "list")
    /\ UNCHANGED <<storeVars, tgVars>>

\* listChunks(); a file without chunks is done.
ListChunks(a) ==
    LET found == rows[jobs[a].file] IN
    /\ At(a, "list")
    /\ jobs' = [jobs EXCEPT ![a].pc = IF found = {} THEN jobs[a].then ELSE "remove",
                            ![a].doomed = found]
    /\ UNCHANGED <<storeVars, tgVars>>

RemoveListed(a) ==
    /\ At(a, "remove")
    /\ RemoveChunks(jobs[a].doomed)
    /\ Goto(a, "drop")
    /\ UNCHANGED <<storeVars, posted, givenUp>>

\* deleteChunks(), whatever Telegram answered.
DropRows(a) ==
    /\ At(a, "drop")
    /\ rows' = [rows EXCEPT ![jobs[a].file] = {}]
    /\ jobs' = [jobs EXCEPT ![a].pc = jobs[a].then, ![a].doomed = {}]
    /\ UNCHANGED <<entries, tgVars>>

\* The documents only file f names.
OnlyOf(f) == {d \in rows[f] \cap live : \A g \in Files \ {f} : d \notin rows[g]}

\* WRONG ON PURPOSE: the rows of a shared file stay.
DropSharedKeepRows(a) ==
    /\ At(a, "dropShared")
    /\ Goto(a, jobs[a].then)
    /\ UNCHANGED <<storeVars, tgVars>>

\* deleteChunks() when the content is shared.  The hash was counted, not the documents:
\* those no other file names are given up.
DropShared(a) ==
    /\ At(a, "dropShared")
    /\ rows' = [rows EXCEPT ![jobs[a].file] = {}]
    /\ givenUp' = givenUp \cup OnlyOf(jobs[a].file)
    /\ Goto(a, jobs[a].then)
    /\ UNCHANGED <<entries, posted, live, lost, faults>>

-----------------------------------------------------------------------------
(* app::Vfs on one file *)

PurgeFile(a, f) ==
    /\ Idle(a) /\ Exists(f)
    /\ Purge(a, f, "delete")
    /\ UNCHANGED <<storeVars, tgVars>>

DeleteEntry(a) ==
    /\ At(a, "delete")
    /\ entries' = [entries EXCEPT ![jobs[a].file] = [status |-> "deleted", content |-> None]]
    /\ Return(a)
    /\ UNCHANGED <<rows, tgVars>>

\* getEntry() of trash(), restore() or copy(): from here on the job believes this copy.
Read(a, f, where) ==
    /\ Idle(a)
    /\ Become(a, [NoJob EXCEPT !.pc = where, !.file = f, !.hash = entries[f].content,
                               !.content = entries[f].content])
    /\ UNCHANGED <<storeVars, tgVars>>

Trash(a, f)   == f \in Listed /\ Read(a, f, "trash")
Restore(a, f) == Exists(f) /\ f \notin Listed /\ Read(a, f, "restore")
Copy(a, f)    == Exists(f) /\ IdsLeft /\ Read(a, f, "copy")

\* ConflictPolicy::LinkExisting, in begin(): a listed file was found and read.
Link(a, f)    == f \in Listed /\ IdsLeft /\ Read(a, f, "link")

\* The entry is written back as it was read, but for its place.
WriteTrashed(a) ==
    /\ At(a, "trash")
    /\ UpdateEntry(jobs[a].file, "trashed", jobs[a].hash)
    /\ Return(a)
    /\ UNCHANGED <<rows, tgVars>>

WriteRestored(a) ==
    /\ At(a, "restore")
    /\ UpdateEntry(jobs[a].file, "listed", jobs[a].hash)
    /\ Return(a)
    /\ UNCHANGED <<rows, tgVars>>

\* copy(): the entry first, then the list of chunks.
CreateCopy(a, f) ==
    /\ At(a, "copy")
    /\ CreateEntry(f, jobs[a].content)
    /\ jobs' = [jobs EXCEPT ![a].pc = "copyList", ![a].target = f]
    /\ UNCHANGED <<rows, tgVars>>

ListForCopy(a) ==
    /\ At(a, "copyList")
    /\ jobs' = [jobs EXCEPT ![a].pc = "rows", ![a].todo = rows[jobs[a].file]]
    /\ UNCHANGED <<storeVars, tgVars>>

\* begin(): the list of chunks first, then the entry.
ListForLink(a) ==
    /\ At(a, "link")
    /\ jobs' = [jobs EXCEPT ![a].pc = "linkCreate", ![a].todo = rows[jobs[a].file]]
    /\ UNCHANGED <<storeVars, tgVars>>

CreateLink(a, f) ==
    /\ At(a, "linkCreate")
    /\ CreateEntry(f, jobs[a].content)
    /\ jobs' = [jobs EXCEPT ![a].pc = "rows", ![a].target = f]
    /\ UNCHANGED <<rows, tgVars>>

-----------------------------------------------------------------------------
Init ==
    /\ entries = [f \in Files |-> [status |-> "unused", content |-> None]]
    /\ rows = [f \in Files |-> {}]
    /\ posted = <<>>
    /\ live = {} /\ lost = {} /\ givenUp = {}
    /\ jobs = [a \in Actors |-> NoJob]
    /\ faults = 0

Upload(a) ==
    \/ \E c \in Contents, old \in Files \cup {None} : Send(a, c, old)
    \/ CancelUpload(a)
    \/ NoTwin(a)
    \/ TakeTwin(a)
    \/ ListTwin(a)
    \/ ReplaceOld(a)
    \/ OverwriteEntry(a)
    \/ \E f \in Files : NewEntry(a, f)

PurgeFileData(a) ==
    \/ Count(a)
    \/ ListChunks(a)
    \/ RemoveListed(a)
    \/ DropRows(a)
    \/ DropShared(a)

Manage(a) ==
    \/ \E f \in Files :
          \/ PurgeFile(a, f)
          \/ Trash(a, f)
          \/ Restore(a, f)
    \/ DeleteEntry(a)
    \/ WriteTrashed(a)
    \/ WriteRestored(a)

Share(a) ==
    \/ \E f \in Files :
          \/ Copy(a, f)
          \/ CreateCopy(a, f)
          \/ Link(a, f)
          \/ CreateLink(a, f)
    \/ ListForCopy(a)
    \/ ListForLink(a)
    \/ \E d \in DocIds : AddChunk(a, d)
    \/ RowsWritten(a)

\* The bounds let a run end, but only with every request answered.
Rest == (\A a \in Actors : Idle(a)) /\ UNCHANGED vars

Next == Rest \/ \E a \in Actors : Upload(a) \/ PurgeFileData(a) \/ Manage(a) \/ Share(a)

Spec == Init /\ [][Next]_vars

-----------------------------------------------------------------------------
(* What the store promises *)

\* The files whose rows some job is still writing or taking away.
InHand == {jobs[a].target : a \in Actors}
          \cup {jobs[a].file : a \in {b \in Actors : jobs[b].then # "idle"}}

Named == UNION {rows[f] : f \in {g \in Files : Exists(g)}}
Held  == UNION {jobs[a].sent \cup jobs[a].doomed \cup jobs[a].todo : a \in Actors}

\* A file that has an entry can be read, in the trash too: its rows name, for each
\* part of its content, a document that is still on Telegram.  (purgeFileData() takes
\* documents away on the strength of a hash counted in another table.)
FilesReadable ==
    \A f \in Files \ InHand : Exists(f) =>
        \A p \in 1..Parts : \E d \in rows[f] \cap live :
            posted[d] = [content |-> entries[f].content, part |-> p]

\* A document on Telegram belongs to a file or to a job, was refused deletion, or was
\* given up by a purge that took it for shared.  (Deduplication removes what was sent
\* before it knows the other file's chunks.)
EveryDocumentReferenced == live \subseteq Named \cup Held \cup lost \cup givenUp

\* Chunk rows name their file by id and no foreign key holds them: only the order of
\* purgeFileData() and deleteEntry() sees to it that no row outlives its entry.
NoRowsWithoutFile == \A f \in Files \ InHand : rows[f] # {} => Exists(f)

=============================================================================
