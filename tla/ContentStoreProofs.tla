------------------------- MODULE ContentStoreProofs -------------------------
(***************************************************************************)
(* Proofs about ContentStore: its types whatever the number of requests    *)
(* served at once, and, with one request at a time, that every document    *)
(* stays accounted for and every file readable.                            *)
(***************************************************************************)
EXTENDS ContentStoreInv, FiniteSetTheorems, SequenceTheorems, TLAPS

-----------------------------------------------------------------------------
(* Types *)

\* A job that is changed in some of its fields is a job.
LEMMA NoJobType == NoJob \in Job
BY DEF NoJob, Job, Places

\* The documents of a file of content c, in the order of its parts.
Posting(c) == [p \in 1..Parts |-> [content |-> c, part |-> p]]

\* What Telegram has after a file was sent: the old documents where they were, the
\* new ones behind them.
LEMMA SendPosts ==
    ASSUME TypeInv, NEW c \in Contents, posted' = posted \o Posting(c)
    PROVE  /\ posted' \in Seq(Document)
           /\ Len(posted') = Len(posted) + Parts
           /\ DOMAIN posted' = DOMAIN posted \cup NewDocs
           /\ \A d \in DOMAIN posted : d \notin NewDocs /\ posted'[d] = posted[d]
           /\ \A p \in 1..Parts : Len(posted) + p \in NewDocs
                                  /\ posted'[Len(posted) + p] = [content |-> c, part |-> p]
           /\ \A d \in NewDocs : posted'[d].content = c
<1>1. posted \in Seq(Document) /\ Len(posted) \in Nat /\ DOMAIN posted = 1..Len(posted)
  BY DEF TypeInv, TypeOK
<1>2. Parts \in Nat
  BY StoreAssumption
<1>3. /\ Posting(c) \in Seq(Document) /\ Len(Posting(c)) = Parts
      /\ \A p \in 1..Parts : Posting(c)[p] = [content |-> c, part |-> p]
  BY <1>2 DEF Posting, Document
<1> DEFINE q == Posting(c)
<1> HIDE DEF q
<1>4. /\ posted \o q \in Seq(Document) /\ Len(posted \o q) = Len(posted) + Parts
      /\ \A i \in 1..(Len(posted) + Parts) :
            (posted \o q)[i] = IF i <= Len(posted) THEN posted[i] ELSE q[i - Len(posted)]
  BY <1>1, <1>3, ConcatProperties DEF q
<1>5. posted' = posted \o q
  BY DEF q
<1>6. DOMAIN posted' = 1..(Len(posted) + Parts)
  BY <1>4, <1>5
<1>7. NewDocs = (Len(posted) + 1)..(Len(posted) + Parts)
  BY DEF NewDocs
<1>8. \A d \in DOMAIN posted : d \notin NewDocs /\ posted'[d] = posted[d]
  BY <1>1, <1>2, <1>4, <1>5, <1>7
<1>9. \A d \in NewDocs : d - Len(posted) \in 1..Parts /\ posted'[d] = q[d - Len(posted)]
  BY <1>1, <1>2, <1>4, <1>5, <1>7
<1>10. ASSUME NEW d \in NewDocs
       PROVE  posted'[d].content = c
  <2>1. PICK p \in 1..Parts : posted'[d] = q[p]
    BY <1>9
  <2>2. q[p] = [content |-> c, part |-> p]
    BY <1>3 DEF q
  <2>3. QED
    BY <2>1, <2>2
<1>11. ASSUME NEW p \in 1..Parts
       PROVE  Len(posted) + p \in NewDocs /\ posted'[Len(posted) + p] = [content |-> c, part |-> p]
  <2>1. Len(posted) + p \in NewDocs /\ (Len(posted) + p) - Len(posted) = p
    BY <1>1, <1>2, <1>7
  <2>2. QED
    BY <2>1, <1>3, <1>9 DEF q
<1>12. DOMAIN posted' = DOMAIN posted \cup NewDocs
  BY <1>1, <1>2, <1>6, <1>7
<1>13. QED
  BY <1>4, <1>5, <1>8, <1>10, <1>11, <1>12

\* One more file fits below the bound, as only whole files are sent.
LEMMA RoomForOne ==
    ASSUME NEW n \in Nat, NEW m \in Nat, NEW k \in Nat \ {0}, n * k < m * k
    PROVE  n + 1 <= m /\ n * k + k <= m * k
<1>1. n * k \in Nat /\ m * k \in Nat /\ (n + 1) * k = n * k + k
  OBVIOUS
<1>2. n < m
  <2>1. SUFFICES ASSUME m <= n PROVE FALSE
    OBVIOUS
  <2>2. PICK e \in Nat : n = m + e
    <3>1. n - m \in Nat /\ n = m + (n - m)
      BY <2>1
    <3>2. QED
      BY <3>1
  <2>3. n * k = m * k + e * k /\ e * k \in Nat
    BY <2>2
  <2>4. QED
    BY <1>1, <2>3
<1>3. PICK e \in Nat : m = n + 1 + e
  <2>1. m - (n + 1) \in Nat /\ m = n + 1 + (m - (n + 1))
    BY <1>2
  <2>2. QED
    BY <2>1
<1>4. m * k = (n + 1) * k + e * k /\ e * k \in Nat
  BY <1>3
<1>5. QED
  BY <1>1, <1>2, <1>4

\* Whole files: the documents of one more stay below the bound.
LEMMA SendFits ==
    ASSUME TypeInv, Len(posted) < MaxUploads * Parts
    PROVE  /\ NewDocs \subseteq DocIds
           /\ \E n \in 0..MaxUploads : Len(posted) + Parts = n * Parts
<1>1. PICK n \in 0..MaxUploads : Len(posted) = n * Parts
  BY DEF TypeInv
<1>2. Parts \in Nat \ {0} /\ MaxUploads \in Nat
  BY StoreAssumption
<1>3. n + 1 <= MaxUploads /\ n * Parts + Parts <= MaxUploads * Parts
  BY <1>1, <1>2, RoomForOne
<1>4. n * Parts \in Nat /\ MaxUploads * Parts \in Nat /\ (n + 1) * Parts = n * Parts + Parts
  BY <1>1, <1>2
<1>5. NewDocs \subseteq DocIds
  BY <1>1, <1>2, <1>3, <1>4 DEF NewDocs, DocIds
<1>6. n + 1 \in 0..MaxUploads /\ Len(posted) + Parts = (n + 1) * Parts
  BY <1>1, <1>2, <1>3, <1>4
<1>7. QED
  BY <1>5, <1>6

\* Documents Telegram is asked to remove leave it or are noted as lost.
LEMMA RemoveChunksEffect ==
    ASSUME TypeInv, NEW docs, RemoveChunks(docs)
    PROVE  /\ live' \subseteq live /\ live \ docs \subseteq live'
           /\ lost \subseteq lost' /\ lost' \subseteq lost \cup live
           /\ docs \cap live' \subseteq lost'
           /\ faults' \in Nat
<1>1. PICK kept \in SUBSET (docs \cap live) :
          /\ faults' = faults + (IF kept = {} THEN 0 ELSE 1)
          /\ live' = live \ (docs \ kept)
          /\ lost' = lost \cup kept
  BY DEF RemoveChunks
<1>2. faults' \in Nat
  BY <1>1 DEF TypeInv, TypeOK
<1>3. QED
  BY <1>1, <1>2

\* A job that takes the place of an actor's keeps the types of all of them.
LEMMA JobType ==
    ASSUME TypeInv, NEW a \in Actors, NEW r \in Job, KnowsFile(r),
           DOMAIN posted \subseteq DOMAIN posted', r.sent \subseteq DOMAIN posted',
           jobs' = [jobs EXCEPT ![a] = r]
    PROVE  /\ jobs' \in [Actors -> Job]
           /\ \A b \in Actors : jobs'[b].sent \subseteq DOMAIN posted' /\ KnowsFile(jobs'[b])
BY DEF TypeInv, TypeOK

\* What a step that posts nothing must keep.
StoreType ==
    /\ entries \in [Files -> Entry]
    /\ rows \in [Files -> SUBSET DocIds]
    /\ live \subseteq DOMAIN posted /\ lost \subseteq DOMAIN posted
    /\ givenUp \subseteq DOMAIN posted /\ faults \in Nat

\* A step of one job that posts nothing keeps the types if what it writes has them.
LEMMA StepType ==
    ASSUME TypeInv, NEW a \in Actors, NEW r \in Job, KnowsFile(r),
           r.sent \subseteq DOMAIN posted, UNCHANGED posted,
           jobs' = [jobs EXCEPT ![a] = r], StoreType'
    PROVE  TypeInv'
<1>1. /\ jobs' \in [Actors -> Job]
      /\ \A b \in Actors : jobs'[b].sent \subseteq DOMAIN posted' /\ KnowsFile(jobs'[b])
  BY JobType
<1>2. QED
  BY <1>1 DEF TypeInv, TypeOK, StoreType

\* Removing documents keeps the types of what is on Telegram.
LEMMA RemoveChunksType ==
    ASSUME TypeInv, NEW docs, RemoveChunks(docs), UNCHANGED <<storeVars, posted, givenUp>>
    PROVE  StoreType'
<1>1. live' \subseteq live /\ lost' \subseteq lost \cup live /\ faults' \in Nat
  BY RemoveChunksEffect
<1>2. QED
  BY <1>1 DEF TypeInv, TypeOK, StoreType, storeVars

\* What an actor's job is, field by field.
LEMMA JobFields ==
    ASSUME TypeInv, NEW a \in Actors
    PROVE  /\ jobs[a] \in Job /\ jobs[a].sent \subseteq DOMAIN posted /\ KnowsFile(jobs[a])
           /\ StoreType
BY DEF TypeInv, TypeOK, StoreType

\* Uploads keep the types.
LEMMA UploadType ==
    ASSUME TypeInv, NEW a \in Actors, Upload(a)
    PROVE  TypeInv'
<1> DEFINE j == jobs[a]
<1>0. j \in Job /\ j.sent \subseteq DOMAIN posted /\ KnowsFile(j) /\ StoreType
  BY JobFields
<1>1. ASSUME NEW c \in Contents, NEW old \in Files \cup {None}, Send(a, c, old)
      PROVE  TypeInv'
  <2> DEFINE r == [NoJob EXCEPT !.pc = "dedup", !.content = c, !.old = old,
                                !.sent = NewDocs, !.todo = NewDocs]
  <2>1. posted' = posted \o Posting(c) /\ Len(posted) < MaxUploads * Parts
    BY <1>1 DEF Send, Posting
  <2>2. NewDocs \subseteq DocIds /\ \E n \in 0..MaxUploads : Len(posted) + Parts = n * Parts
    BY <2>1, SendFits
  <2>3. /\ posted' \in Seq(Document) /\ Len(posted') = Len(posted) + Parts
        /\ DOMAIN posted' = DOMAIN posted \cup NewDocs
    BY <2>1, SendPosts
  <2>4. r \in Job /\ KnowsFile(r) /\ r.sent = NewDocs
    BY <2>2 DEF Job, NoJob, Places, KnowsFile, Purging
  <2>5. jobs' = [jobs EXCEPT ![a] = r]
    BY <1>1 DEF Send, Become
  <2>6. /\ jobs' \in [Actors -> Job]
        /\ \A b \in Actors : jobs'[b].sent \subseteq DOMAIN posted' /\ KnowsFile(jobs'[b])
    BY <2>3, <2>4, <2>5, JobType
  <2>7. StoreType'
    BY <1>1, <1>0, <2>3 DEF Send, StoreType, storeVars
  <2>8. QED
    BY <2>2, <2>3, <2>6, <2>7 DEF TypeInv, TypeOK, StoreType
<1>2. CASE CancelUpload(a)
  <2>1. StoreType'
    BY <1>2, RemoveChunksType DEF CancelUpload
  <2>2. QED
    BY <1>2, <2>1, StepType, NoJobType
    DEF CancelUpload, Return, Become, NoJob, KnowsFile, Purging
<1>3. CASE NoTwin(a)
  <2> DEFINE r == [j EXCEPT !.pc = "replace"]
  <2>1. r \in Job /\ KnowsFile(r) /\ r.sent \subseteq DOMAIN posted
    BY <1>3, <1>0 DEF Job, Places, KnowsFile, Purging
  <2>2. jobs' = [jobs EXCEPT ![a] = r] /\ UNCHANGED posted
    BY <1>3, <1>0 DEF NoTwin, Goto, tgVars, TypeInv, TypeOK
  <2>3. StoreType'
    BY <1>3, <1>0 DEF NoTwin, StoreType, storeVars, tgVars
  <2>4. QED
    BY <2>1, <2>2, <2>3, StepType
<1>4. CASE TakeTwin(a)
  <2>1. PICK f \in Twins(a) :
           jobs' = [jobs EXCEPT ![a].pc = "twin", ![a].file = f, ![a].sent = {}]
    BY <1>4 DEF TakeTwin
  <2> DEFINE r == [j EXCEPT !.pc = "twin", !.file = f, !.sent = {}]
  <2>2. f \in Files
    BY DEF Twins, SameContent, Listed
  <2>3. r \in Job /\ KnowsFile(r) /\ r.sent \subseteq DOMAIN posted
    BY <1>0, <2>2 DEF Job, Places, KnowsFile, Purging
  <2>4. jobs' = [jobs EXCEPT ![a] = r] /\ UNCHANGED posted
    BY <1>4, <2>1 DEF TakeTwin, TypeInv, TypeOK
  <2>5. StoreType'
    BY <1>4, RemoveChunksType DEF TakeTwin
  <2>6. QED
    BY <2>3, <2>4, <2>5, StepType
<1>5. CASE ListTwin(a)
  <2> DEFINE r == [j EXCEPT !.pc = "replace", !.todo = rows[j.file]]
  <2>1. j.file \in Files
    BY <1>5, <1>0 DEF ListTwin, At, KnowsFile, Purging
  <2>2. r \in Job /\ KnowsFile(r) /\ r.sent \subseteq DOMAIN posted
    BY <1>5, <1>0, <2>1 DEF Job, Places, KnowsFile, Purging, StoreType
  <2>3. jobs' = [jobs EXCEPT ![a] = r] /\ UNCHANGED posted
    BY <1>5, <1>0 DEF ListTwin, tgVars, TypeInv, TypeOK
  <2>4. StoreType'
    BY <1>5, <1>0, <2>1 DEF ListTwin, StoreType, storeVars, tgVars
  <2>5. QED
    BY <2>2, <2>3, <2>4, StepType
<1>6. CASE ReplaceOld(a)
  <2> DEFINE r == [j EXCEPT !.pc = "count", !.then = "overwrite", !.file = j.old,
                             !.hash = entries[j.old].content]
  <2>1. r \in Job /\ KnowsFile(r) /\ r.sent \subseteq DOMAIN posted
    BY <1>6, <1>0 DEF Job, Places, KnowsFile, Purging, StoreType, Entry, ReplaceOld
  <2>2. jobs' = [jobs EXCEPT ![a] = r] /\ UNCHANGED posted
    BY <1>6, <1>0 DEF ReplaceOld, Purge, tgVars, TypeInv, TypeOK
  <2>3. StoreType'
    BY <1>6, <1>0 DEF ReplaceOld, StoreType, storeVars, tgVars
  <2>4. QED
    BY <2>1, <2>2, <2>3, StepType
<1>7. CASE OverwriteEntry(a)
  <2> DEFINE r == [j EXCEPT !.pc = "rows", !.target = j.old]
  <2>1. r \in Job /\ KnowsFile(r) /\ r.sent \subseteq DOMAIN posted
    <3>1. r \in Job
      BY <1>7, <1>0 DEF Job, Places
    <3>2. KnowsFile(r)
      BY <1>7, <1>0 DEF Job, KnowsFile, Purging
    <3>3. r.sent \subseteq DOMAIN posted
      BY <1>7, <1>0 DEF Job
    <3>4. QED
      BY <3>1, <3>2, <3>3
  <2>2. jobs' = [jobs EXCEPT ![a] = r] /\ UNCHANGED posted
    BY <1>7, <1>0 DEF OverwriteEntry, tgVars, TypeInv, TypeOK
  <2>3. StoreType'
    BY <1>7, <1>0 DEF OverwriteEntry, UpdateEntry, StoreType, tgVars, Job, Entry, Status
  <2>4. QED
    BY <2>1, <2>2, <2>3, StepType
<1>8. ASSUME NEW f \in Files, NewEntry(a, f)
      PROVE  TypeInv'
  <2> DEFINE r == [j EXCEPT !.pc = "rows", !.target = f]
  <2>1. r \in Job /\ KnowsFile(r) /\ r.sent \subseteq DOMAIN posted
    <3>1. r \in Job
      BY <1>8, <1>0 DEF Job, Places
    <3>2. KnowsFile(r)
      BY <1>8, <1>0 DEF Job, KnowsFile, Purging
    <3>3. r.sent \subseteq DOMAIN posted
      BY <1>8, <1>0 DEF Job
    <3>4. QED
      BY <3>1, <3>2, <3>3
  <2>2. jobs' = [jobs EXCEPT ![a] = r] /\ UNCHANGED posted
    BY <1>8, <1>0 DEF NewEntry, tgVars, TypeInv, TypeOK
  <2>3. StoreType'
    BY <1>8, <1>0 DEF NewEntry, CreateEntry, StoreType, tgVars, Job, Entry, Status
  <2>4. QED
    BY <2>1, <2>2, <2>3, StepType
<1>9. QED
  BY <1>1, <1>2, <1>3, <1>4, <1>5, <1>6, <1>7, <1>8 DEF Upload

\* Purging keeps the types.
LEMMA PurgeType ==
    ASSUME TypeInv, NEW a \in Actors, PurgeFileData(a)
    PROVE  TypeInv'
<1> DEFINE j == jobs[a]
<1>0. j \in Job /\ j.sent \subseteq DOMAIN posted /\ KnowsFile(j) /\ StoreType
  BY JobFields
<1>1. CASE Count(a)
  <2> DEFINE r == [j EXCEPT !.pc = IF Shared(a) THEN "dropShared" ELSE "list"]
  <2>1. j.file \in Files
    BY <1>1, <1>0 DEF Count, At, KnowsFile, Purging
  <2>2. r \in Job /\ KnowsFile(r) /\ r.sent \subseteq DOMAIN posted
    BY <1>1, <1>0, <2>1 DEF Job, Places, KnowsFile, Purging
  <2>3. jobs' = [jobs EXCEPT ![a] = r] /\ UNCHANGED posted
    BY <1>1, <1>0 DEF Count, Goto, tgVars, TypeInv, TypeOK
  <2>4. StoreType'
    BY <1>1, <1>0, <2>1 DEF Count, StoreType, storeVars, tgVars
  <2>5. QED
    BY <2>2, <2>3, <2>4, StepType
<1>2. CASE ListChunks(a)
  <2> DEFINE r == [j EXCEPT !.pc = IF rows[j.file] = {} THEN j.then ELSE "remove",
                             !.doomed = rows[j.file]]
  <2>1. j.file \in Files
    BY <1>2, <1>0 DEF ListChunks, At, KnowsFile, Purging
  <2>2. r \in Job /\ KnowsFile(r) /\ r.sent \subseteq DOMAIN posted
    <3>1. r \in Job
      <4>1. rows[j.file] \in SUBSET DocIds
        BY <1>0, <2>1 DEF StoreType
      <4>2. (IF rows[j.file] = {} THEN j.then ELSE "remove") \in Places
        BY <1>0 DEF Job, Places
      <4>3. QED
        BY <1>0, <4>1, <4>2 DEF Job
    <3>2. KnowsFile(r)
      BY <1>2, <1>0, <2>1 DEF Job, KnowsFile, Purging
    <3>3. r.sent \subseteq DOMAIN posted
      BY <1>2, <1>0, <2>1 DEF Job
    <3>4. QED
      BY <3>1, <3>2, <3>3
  <2>3. jobs' = [jobs EXCEPT ![a] = r] /\ UNCHANGED posted
    BY <1>2, <1>0 DEF ListChunks, tgVars, TypeInv, TypeOK
  <2>4. StoreType'
    BY <1>2, <1>0, <2>1 DEF ListChunks, StoreType, storeVars, tgVars
  <2>5. QED
    BY <2>2, <2>3, <2>4, StepType
<1>3. CASE RemoveListed(a)
  <2> DEFINE r == [j EXCEPT !.pc = "drop"]
  <2>1. j.file \in Files
    BY <1>3, <1>0 DEF RemoveListed, At, KnowsFile, Purging
  <2>2. r \in Job /\ KnowsFile(r) /\ r.sent \subseteq DOMAIN posted
    BY <1>3, <1>0, <2>1 DEF Job, Places, KnowsFile, Purging
  <2>3. jobs' = [jobs EXCEPT ![a] = r] /\ UNCHANGED posted
    BY <1>3, <1>0 DEF RemoveListed, Goto, tgVars, TypeInv, TypeOK
  <2>4. StoreType'
    BY <1>3, <1>0, <2>1, RemoveChunksType DEF RemoveListed
  <2>5. QED
    BY <2>2, <2>3, <2>4, StepType
<1>4. CASE DropRows(a)
  <2> DEFINE r == [j EXCEPT !.pc = j.then, !.doomed = {}]
  <2>1. j.file \in Files
    BY <1>4, <1>0 DEF DropRows, At, KnowsFile, Purging
  <2>2. r \in Job /\ KnowsFile(r) /\ r.sent \subseteq DOMAIN posted
    <3>1. r \in Job
      BY <1>4, <1>0, <2>1 DEF Job, Places
    <3>2. KnowsFile(r)
      BY <1>4, <1>0, <2>1 DEF Job, KnowsFile, Purging
    <3>3. r.sent \subseteq DOMAIN posted
      BY <1>4, <1>0, <2>1 DEF Job
    <3>4. QED
      BY <3>1, <3>2, <3>3
  <2>3. jobs' = [jobs EXCEPT ![a] = r] /\ UNCHANGED posted
    BY <1>4, <1>0 DEF DropRows, Goto, tgVars, TypeInv, TypeOK
  <2>4. StoreType'
    BY <1>4, <1>0, <2>1 DEF DropRows, StoreType, storeVars, tgVars
  <2>5. QED
    BY <2>2, <2>3, <2>4, StepType
<1>5. CASE DropShared(a)
  <2> DEFINE r == [j EXCEPT !.pc = j.then]
  <2>1. j.file \in Files
    BY <1>5, <1>0 DEF DropShared, At, KnowsFile, Purging
  <2>2. r \in Job /\ KnowsFile(r) /\ r.sent \subseteq DOMAIN posted
    BY <1>5, <1>0, <2>1 DEF Job, Places, KnowsFile, Purging
  <2>3. jobs' = [jobs EXCEPT ![a] = r] /\ UNCHANGED posted
    BY <1>5, <1>0 DEF DropShared, Goto, tgVars, TypeInv, TypeOK
  <2>4. StoreType'
    BY <1>5, <1>0, <2>1 DEF DropShared, StoreType, OnlyOf
  <2>5. QED
    BY <2>2, <2>3, <2>4, StepType
<1>6. QED
  BY <1>1, <1>2, <1>3, <1>4, <1>5 DEF PurgeFileData

\* Deleting, trashing and restoring keep the types.
LEMMA ManageType ==
    ASSUME TypeInv, NEW a \in Actors, Manage(a)
    PROVE  TypeInv'
<1> DEFINE j == jobs[a]
<1>0. j \in Job /\ j.sent \subseteq DOMAIN posted /\ KnowsFile(j) /\ StoreType
  BY JobFields
<1>1. ASSUME NEW f \in Files, PurgeFile(a, f)
      PROVE  TypeInv'
  <2> DEFINE r == [j EXCEPT !.pc = "count", !.then = "delete", !.file = f,
                             !.hash = entries[f].content]
  <2>1. r \in Job /\ KnowsFile(r) /\ r.sent \subseteq DOMAIN posted
    BY <1>1, <1>0 DEF Job, Places, KnowsFile, Purging, StoreType, Entry
  <2>2. jobs' = [jobs EXCEPT ![a] = r] /\ UNCHANGED posted
    BY <1>1, <1>0 DEF PurgeFile, Purge, tgVars, TypeInv, TypeOK
  <2>3. StoreType'
    BY <1>1, <1>0 DEF PurgeFile, StoreType, storeVars, tgVars
  <2>4. QED
    BY <2>1, <2>2, <2>3, StepType
<1>2. ASSUME NEW f \in Files, Trash(a, f)
      PROVE  TypeInv'
  <2> DEFINE r == [NoJob EXCEPT !.pc = "trash", !.file = f, !.hash = entries[f].content,
                                 !.content = entries[f].content]
  <2>1. r \in Job /\ KnowsFile(r) /\ r.sent \subseteq DOMAIN posted
    BY <1>2, <1>0 DEF Job, Places, KnowsFile, Purging, StoreType, Entry, NoJob
  <2>2. jobs' = [jobs EXCEPT ![a] = r] /\ UNCHANGED posted
    BY <1>2, <1>0 DEF Trash, Read, Become, tgVars, TypeInv, TypeOK
  <2>3. StoreType'
    BY <1>2, <1>0 DEF Trash, Read, StoreType, storeVars, tgVars
  <2>4. QED
    BY <2>1, <2>2, <2>3, StepType
<1>3. ASSUME NEW f \in Files, Restore(a, f)
      PROVE  TypeInv'
  <2> DEFINE r == [NoJob EXCEPT !.pc = "restore", !.file = f, !.hash = entries[f].content,
                                 !.content = entries[f].content]
  <2>1. r \in Job /\ KnowsFile(r) /\ r.sent \subseteq DOMAIN posted
    BY <1>3, <1>0 DEF Job, Places, KnowsFile, Purging, StoreType, Entry, NoJob
  <2>2. jobs' = [jobs EXCEPT ![a] = r] /\ UNCHANGED posted
    BY <1>3, <1>0 DEF Restore, Read, Become, tgVars, TypeInv, TypeOK
  <2>3. StoreType'
    BY <1>3, <1>0 DEF Restore, Read, StoreType, storeVars, tgVars
  <2>4. QED
    BY <2>1, <2>2, <2>3, StepType
<1>4. CASE DeleteEntry(a)
  <2>1. NoJob \in Job /\ KnowsFile(NoJob) /\ NoJob.sent = {}
    BY NoJobType DEF NoJob, KnowsFile, Purging
  <2>2. jobs' = [jobs EXCEPT ![a] = NoJob] /\ UNCHANGED posted
    BY <1>4 DEF DeleteEntry, Return, Become, tgVars
  <2>3. StoreType'
    BY <1>4, <1>0 DEF DeleteEntry, StoreType, tgVars, storeVars, Job, Entry, Status
  <2>4. QED
    BY <2>1, <2>2, <2>3, StepType
<1>5. CASE WriteTrashed(a)
  <2>1. NoJob \in Job /\ KnowsFile(NoJob) /\ NoJob.sent = {}
    BY NoJobType DEF NoJob, KnowsFile, Purging
  <2>2. jobs' = [jobs EXCEPT ![a] = NoJob] /\ UNCHANGED posted
    BY <1>5 DEF WriteTrashed, Return, Become, tgVars
  <2>3. StoreType'
    BY <1>5, <1>0
    DEF WriteTrashed, UpdateEntry, StoreType, tgVars, storeVars, Job, Entry, Status
  <2>4. QED
    BY <2>1, <2>2, <2>3, StepType
<1>6. CASE WriteRestored(a)
  <2>1. NoJob \in Job /\ KnowsFile(NoJob) /\ NoJob.sent = {}
    BY NoJobType DEF NoJob, KnowsFile, Purging
  <2>2. jobs' = [jobs EXCEPT ![a] = NoJob] /\ UNCHANGED posted
    BY <1>6 DEF WriteRestored, Return, Become, tgVars
  <2>3. StoreType'
    BY <1>6, <1>0
    DEF WriteRestored, UpdateEntry, StoreType, tgVars, storeVars, Job, Entry, Status
  <2>4. QED
    BY <2>1, <2>2, <2>3, StepType
<1>7. QED
  BY <1>1, <1>2, <1>3, <1>4, <1>5, <1>6 DEF Manage

\* Copying and linking keep the types.
LEMMA ShareType ==
    ASSUME TypeInv, NEW a \in Actors, Share(a)
    PROVE  TypeInv'
<1> DEFINE j == jobs[a]
<1>0. j \in Job /\ j.sent \subseteq DOMAIN posted /\ KnowsFile(j) /\ StoreType
  BY JobFields
<1>1. ASSUME NEW f \in Files, Copy(a, f)
      PROVE  TypeInv'
  <2> DEFINE r == [NoJob EXCEPT !.pc = "copy", !.file = f, !.hash = entries[f].content,
                                 !.content = entries[f].content]
  <2>1. r \in Job /\ KnowsFile(r) /\ r.sent \subseteq DOMAIN posted
    BY <1>1, <1>0 DEF Job, Places, KnowsFile, Purging, StoreType, Entry, NoJob
  <2>2. jobs' = [jobs EXCEPT ![a] = r] /\ UNCHANGED posted
    BY <1>1, <1>0 DEF Copy, Read, Become, tgVars, TypeInv, TypeOK
  <2>3. StoreType'
    BY <1>1, <1>0 DEF Copy, Read, StoreType, storeVars, tgVars
  <2>4. QED
    BY <2>1, <2>2, <2>3, StepType
<1>2. ASSUME NEW f \in Files, Link(a, f)
      PROVE  TypeInv'
  <2> DEFINE r == [NoJob EXCEPT !.pc = "link", !.file = f, !.hash = entries[f].content,
                                 !.content = entries[f].content]
  <2>1. r \in Job /\ KnowsFile(r) /\ r.sent \subseteq DOMAIN posted
    BY <1>2, <1>0 DEF Job, Places, KnowsFile, Purging, StoreType, Entry, NoJob
  <2>2. jobs' = [jobs EXCEPT ![a] = r] /\ UNCHANGED posted
    BY <1>2, <1>0 DEF Link, Read, Become, tgVars, TypeInv, TypeOK
  <2>3. StoreType'
    BY <1>2, <1>0 DEF Link, Read, StoreType, storeVars, tgVars
  <2>4. QED
    BY <2>1, <2>2, <2>3, StepType
<1>3. ASSUME NEW f \in Files, CreateCopy(a, f)
      PROVE  TypeInv'
  <2> DEFINE r == [j EXCEPT !.pc = "copyList", !.target = f]
  <2>1. j.file \in Files
    BY <1>3, <1>0 DEF CreateCopy, At, KnowsFile, Purging
  <2>2. r \in Job /\ KnowsFile(r) /\ r.sent \subseteq DOMAIN posted
    BY <1>3, <1>0, <2>1 DEF Job, Places, KnowsFile, Purging
  <2>3. jobs' = [jobs EXCEPT ![a] = r] /\ UNCHANGED posted
    BY <1>3, <1>0 DEF CreateCopy, tgVars, TypeInv, TypeOK
  <2>4. StoreType'
    BY <1>3, <1>0, <2>1 DEF CreateCopy, CreateEntry, StoreType, tgVars, Job, Entry, Status
  <2>5. QED
    BY <2>2, <2>3, <2>4, StepType
<1>4. ASSUME NEW f \in Files, CreateLink(a, f)
      PROVE  TypeInv'
  <2> DEFINE r == [j EXCEPT !.pc = "rows", !.target = f]
  <2>1. r \in Job /\ KnowsFile(r) /\ r.sent \subseteq DOMAIN posted
    <3>1. r \in Job
      BY <1>4, <1>0 DEF Job, Places
    <3>2. KnowsFile(r)
      BY <1>4, <1>0 DEF Job, KnowsFile, Purging
    <3>3. r.sent \subseteq DOMAIN posted
      BY <1>4, <1>0 DEF Job
    <3>4. QED
      BY <3>1, <3>2, <3>3
  <2>2. jobs' = [jobs EXCEPT ![a] = r] /\ UNCHANGED posted
    BY <1>4, <1>0 DEF CreateLink, tgVars, TypeInv, TypeOK
  <2>3. StoreType'
    BY <1>4, <1>0 DEF CreateLink, CreateEntry, StoreType, tgVars, Job, Entry, Status
  <2>4. QED
    BY <2>1, <2>2, <2>3, StepType
<1>5. CASE ListForCopy(a)
  <2> DEFINE r == [j EXCEPT !.pc = "rows", !.todo = rows[j.file]]
  <2>1. j.file \in Files
    BY <1>5, <1>0 DEF ListForCopy, At, KnowsFile, Purging
  <2>2. r \in Job /\ KnowsFile(r) /\ r.sent \subseteq DOMAIN posted
    BY <1>5, <1>0, <2>1 DEF Job, Places, KnowsFile, Purging, StoreType
  <2>3. jobs' = [jobs EXCEPT ![a] = r] /\ UNCHANGED posted
    BY <1>5, <1>0 DEF ListForCopy, tgVars, TypeInv, TypeOK
  <2>4. StoreType'
    BY <1>5, <1>0, <2>1 DEF ListForCopy, StoreType, storeVars, tgVars
  <2>5. QED
    BY <2>2, <2>3, <2>4, StepType
<1>6. CASE ListForLink(a)
  <2> DEFINE r == [j EXCEPT !.pc = "linkCreate", !.todo = rows[j.file]]
  <2>1. j.file \in Files
    BY <1>6, <1>0 DEF ListForLink, At, KnowsFile, Purging
  <2>2. r \in Job /\ KnowsFile(r) /\ r.sent \subseteq DOMAIN posted
    BY <1>6, <1>0, <2>1 DEF Job, Places, KnowsFile, Purging, StoreType
  <2>3. jobs' = [jobs EXCEPT ![a] = r] /\ UNCHANGED posted
    BY <1>6, <1>0 DEF ListForLink, tgVars, TypeInv, TypeOK
  <2>4. StoreType'
    BY <1>6, <1>0, <2>1 DEF ListForLink, StoreType, storeVars, tgVars
  <2>5. QED
    BY <2>2, <2>3, <2>4, StepType
<1>7. ASSUME NEW d \in DocIds, AddChunk(a, d)
      PROVE  TypeInv'
  <2> DEFINE r == [j EXCEPT !.todo = @ \ {d}]
  <2>1. r \in Job /\ KnowsFile(r) /\ r.sent \subseteq DOMAIN posted
    BY <1>7, <1>0 DEF Job, Places, KnowsFile, Purging
  <2>2. jobs' = [jobs EXCEPT ![a] = r] /\ UNCHANGED posted
    BY <1>7, <1>0 DEF AddChunk, tgVars, TypeInv, TypeOK
  <2>3. StoreType'
    BY <1>7, <1>0 DEF AddChunk, StoreType, tgVars, Job
  <2>4. QED
    BY <2>1, <2>2, <2>3, StepType
<1>8. CASE RowsWritten(a)
  <2>1. NoJob \in Job /\ KnowsFile(NoJob) /\ NoJob.sent = {}
    BY NoJobType DEF NoJob, KnowsFile, Purging
  <2>2. jobs' = [jobs EXCEPT ![a] = NoJob] /\ UNCHANGED posted
    BY <1>8 DEF RowsWritten, Return, Become, tgVars
  <2>3. StoreType'
    BY <1>8, <1>0 DEF RowsWritten, StoreType, tgVars, storeVars, Job, Entry, Status
  <2>4. QED
    BY <2>1, <2>2, <2>3, StepType
<1>9. QED
  BY <1>1, <1>2, <1>3, <1>4, <1>5, <1>6, <1>7, <1>8 DEF Share

\* Every step keeps the types.
LEMMA TypeStep ==
    ASSUME TypeInv, [Next]_vars
    PROVE  TypeInv'
<1>1. CASE UNCHANGED vars
  BY <1>1 DEF TypeInv, TypeOK, vars, storeVars, tgVars
<1>2. ASSUME NEW a \in Actors, Upload(a) \/ PurgeFileData(a) \/ Manage(a) \/ Share(a)
      PROVE  TypeInv'
  BY <1>2, UploadType, PurgeType, ManageType, ShareType
<1>3. QED
  BY <1>1, <1>2 DEF Next, Rest

\* The store starts with nothing in it.
LEMMA TypeInit ==
    ASSUME Init
    PROVE  TypeInv
<1>1. posted \in Seq(Document) /\ Len(posted) = 0
  BY DEF Init
<1>2. 0 \in 0..MaxUploads /\ 0 = 0 * Parts
  BY StoreAssumption
<1>3. jobs \in [Actors -> Job] /\ \A a \in Actors : jobs[a].sent = {} /\ KnowsFile(jobs[a])
  BY NoJobType DEF Init, NoJob, KnowsFile, Purging
<1>4. entries \in [Files -> Entry] /\ rows \in [Files -> SUBSET DocIds]
  BY DEF Init, Entry, Status
<1>5. QED
  BY <1>1, <1>2, <1>3, <1>4 DEF Init, TypeInv, TypeOK

\* However many requests are served at once, the tables keep their types: every row
\* names a document id below the bound, and nothing is live, lost or given up that
\* was never posted.
THEOREM StoreTypes == Spec => []TypeOK
<1>1. Init => TypeInv
  BY TypeInit
<1>2. TypeInv /\ [Next]_vars => TypeInv'
  BY TypeStep
<1>3. TypeInv => TypeOK
  BY DEF TypeInv
<1>4. QED
  BY <1>1, <1>2, <1>3, PTL DEF Spec

-----------------------------------------------------------------------------
(* The books, with one request at a time *)

\* The job of the one actor that moves.
LEMMA BookAt ==
    ASSUME TypeInv, BookInv, NEW a \in Actors
    PROVE  /\ jobs[a] \in Job /\ KnowsFile(jobs[a])
           /\ JobSound(jobs[a]) /\ ListsSound(jobs[a]) /\ RemovedSound(jobs[a])
           /\ RowsOwn /\ Accounted
           /\ entries \in [Files -> Entry] /\ rows \in [Files -> SUBSET DocIds]
BY DEF TypeInv, TypeOK, BookInv

\* With one actor, a file its job has not in hand can be read.
LEMMA ReadAt ==
    ASSUME OneActor, ReadInv, NEW a \in Actors
    PROVE  /\ DocsSound(jobs[a])
           /\ \A f \in Files : Exists(f) /\ f \notin Broken(jobs[a])
                               => Covers(rows[f], entries[f].content)
<1>1. \A b \in Actors : b = a
  BY DEF OneActor
<1>2. QED
  BY <1>1 DEF ReadInv, AllReadable

\* And the same of the next state.
LEMMA ReadFrom ==
    ASSUME OneActor, NEW a \in Actors, DocsSound(jobs[a])',
           \A f \in Files : Exists(f)' /\ f \notin Broken(jobs[a])'
                               => Covers(rows[f], entries[f].content)'
    PROVE  ReadInv'
<1>1. \A b \in Actors : b = a
  BY DEF OneActor
<1>2. QED
  BY <1>1 DEF ReadInv, AllReadable

\* What a step of one job keeps: the books always, readable files with deduplication.
StepKeeps == BookInv' /\ (Deduplicate /\ ReadInv => ReadInv')

\* Counting files by their hash: with deduplication on, a file that is found alone is
\* the only one of its content, in the trash or out of it.
LEMMA CountAlone ==
    ASSUME Deduplicate, NEW a \in Actors, ~Shared(a), jobs[a].file \in Files,
           Exists(jobs[a].file), jobs[a].hash = entries[jobs[a].file].content,
           NEW f \in Files \ {jobs[a].file}, Exists(f)
    PROVE  entries[f].content # jobs[a].hash
<1> DEFINE h == jobs[a].hash
           S == {g \in Files : Exists(g) /\ entries[g].content = h}
<1>1. SUFFICES ASSUME entries[f].content = h PROVE FALSE
  OBVIOUS
<1>2. IsFiniteSet(S)
  BY StoreAssumption, FS_Subset
<1>3. {f, jobs[a].file} \subseteq S
  BY <1>1
<1>4. Cardinality({f, jobs[a].file}) = 2
  <2>1. IsFiniteSet({jobs[a].file}) /\ Cardinality({jobs[a].file}) = 1
    BY FS_Singleton
  <2>2. Cardinality({jobs[a].file} \cup {f}) = 1 + 1
    BY <2>1, FS_AddElement
  <2>3. {f, jobs[a].file} = {jobs[a].file} \cup {f}
    OBVIOUS
  <2>4. QED
    BY <2>2, <2>3
<1>5. Cardinality({f, jobs[a].file}) <= Cardinality(S)
  BY <1>2, <1>3, FS_Subset
<1>6. Cardinality(S) \in Nat
  BY <1>2, FS_CardinalityType
<1>7. CountFilesWithHash(h) = Cardinality(S)
  BY DEF CountFilesWithHash
<1>8. QED
  BY <1>4, <1>5, <1>6, <1>7 DEF Shared

\* With one actor, its job is all there is to look at.
LEMMA BookFrom ==
    ASSUME OneActor, NEW a \in Actors, RowsOwn', Accounted',
           JobSound(jobs[a])', ListsSound(jobs[a])', RemovedSound(jobs[a])'
    PROVE  BookInv'
<1>1. \A b \in Actors : b = a
  BY DEF OneActor
<1>2. QED
  BY <1>1 DEF BookInv

\* Uploads keep the books.
LEMMA UploadBook ==
    ASSUME OneActor, TypeInv, BookInv, NEW a \in Actors, Upload(a)
    PROVE  StepKeeps
<1> DEFINE j == jobs[a]
           k == jobs'[a]
<1>0. /\ j \in Job /\ KnowsFile(j) /\ JobSound(j) /\ ListsSound(j) /\ RemovedSound(j)
      /\ RowsOwn /\ Accounted
      /\ entries \in [Files -> Entry] /\ rows \in [Files -> SUBSET DocIds]
  BY BookAt
<1>1. ASSUME NEW c \in Contents, NEW old \in Files \cup {None}, Send(a, c, old)
      PROVE  StepKeeps
  <2>1. posted' = posted \o Posting(c) /\ live' = live \cup NewDocs
    BY <1>1 DEF Send, Posting
  <2>2. /\ k.pc = "dedup" /\ k.content = c /\ k.old = old /\ k.sent = NewDocs /\ k.todo = NewDocs
        /\ k.then = "idle" /\ k.file = None /\ k.target = None /\ k.doomed = {}
    BY <1>1, <1>0 DEF Send, Become, NoJob, TypeInv, TypeOK
  <2>3. UNCHANGED <<entries, rows, lost, givenUp>> /\ j = NoJob
    BY <1>1, <1>0 DEF Send, storeVars, JobSound, Idle
  <2>4. /\ DOMAIN posted' = DOMAIN posted \cup NewDocs
        /\ \A d \in DOMAIN posted : d \notin NewDocs /\ posted'[d] = posted[d]
        /\ \A p \in 1..Parts : Len(posted) + p \in NewDocs
                               /\ posted'[Len(posted) + p] = [content |-> c, part |-> p]
        /\ \A d \in NewDocs : posted'[d].content = c
    BY <2>1, SendPosts
  <2>5. JobSound(jobs[a])'
    BY <2>2 DEF JobSound, Purging
  <2>6. ListsSound(jobs[a])'
    BY <2>2, <2>4 DEF ListsSound, Saving, Overwriting, Purging
  <2>7. RemovedSound(jobs[a])'
    BY <2>2 DEF RemovedSound
  <2>8. RowsOwn'
    BY <1>0, <2>3, <2>4 DEF RowsOwn, Exists
  <2>9. Accounted'
    <3>1. \A b \in Actors : b = a
      BY DEF OneActor
    <3>2. ASSUME NEW d \in live
          PROVE  (\E g \in Files : d \in rows[g]) \/ d \in lost \/ d \in givenUp
      BY <1>0, <2>3, <3>1 DEF Accounted, NoJob
    <3>3. QED
      BY <2>1, <2>2, <2>3, <3>2 DEF Accounted
  <2>10. ASSUME Deduplicate, ReadInv
       PROVE  ReadInv'
    <3>1. /\ DocsSound(j)
          /\ \A g \in Files : Exists(g) /\ g \notin Broken(j)
                              => Covers(rows[g], entries[g].content)
      BY <2>10, ReadAt
    <3>2. Fresh(jobs[a])'
      BY <1>0, <2>2, <2>3, <2>4 DEF Fresh, RowsOwn
    <3>3. Covers(jobs[a].todo, jobs[a].content)'
      BY <2>1, <2>2, <2>4 DEF Covers
    <3>4. DocsSound(jobs[a])'
      BY <2>2, <3>2, <3>3 DEF DocsSound, Saving, Overwriting, Purging
    <3>5. ASSUME NEW g \in Files, Exists(g)', g \notin Broken(jobs[a])'
          PROVE  Covers(rows[g], entries[g].content)'
      BY <1>0, <2>1, <2>2, <2>3, <2>4, <3>1, <3>5
      DEF Broken, Covers, RowsOwn, Purging, Exists, NoJob
    <3>6. QED
      BY <3>4, <3>5, ReadFrom
  <2>11. QED
    BY <2>5, <2>6, <2>7, <2>8, <2>9, <2>10, BookFrom DEF StepKeeps
<1>2. CASE CancelUpload(a)
  <2>1. j.pc = "dedup"
    BY <1>2, <1>0 DEF CancelUpload, At, Idle, Exists
  <2>2. k = NoJob
    BY <1>2, <1>0 DEF CancelUpload, Return, Become, TypeInv, TypeOK
  <2>3. /\ live' \subseteq live /\ live \ j.sent \subseteq live'
        /\ lost \subseteq lost' /\ j.sent \cap live' \subseteq lost'
        /\ UNCHANGED <<entries, rows, posted, givenUp>>
    BY <1>2, <1>0, <2>1, RemoveChunksEffect
    DEF CancelUpload, storeVars, tgVars, TypeInv, TypeOK
  <2>4. JobSound(jobs[a])'
    BY <1>0, <2>1, <2>2, <2>3 DEF JobSound, Purging, Exists, NoJob
  <2>5. ListsSound(jobs[a])'
    BY <1>0, <2>1, <2>2, <2>3 DEF ListsSound, JobSound, Saving, Overwriting, Purging, NoJob
  <2>6. RemovedSound(jobs[a])'
    BY <1>0, <2>1, <2>2, <2>3 DEF RemovedSound, ListsSound, JobSound, Purging, NoJob
  <2>7. RowsOwn'
    BY <1>0, <2>1, <2>2, <2>3 DEF RowsOwn, Exists, NoJob
  <2>8. Accounted'
    BY <1>0, <2>1, <2>2, <2>3
    DEF Accounted, ListsSound, RemovedSound, JobSound, Saving, Overwriting, Purging,
        OneActor, NoJob
  <2>9. ASSUME Deduplicate, ReadInv
       PROVE  ReadInv'
    <3>1. /\ DocsSound(j)
          /\ \A g \in Files : Exists(g) /\ g \notin Broken(j)
                              => Covers(rows[g], entries[g].content)
      BY <2>9, ReadAt
    <3>2. DocsSound(jobs[a])'
      BY <1>0, <2>1, <2>2, <2>3, <3>1
      DEF DocsSound, Fresh, HasTwin, Covers, ListsSound, JobSound, RowsOwn, Saving,
          Overwriting, Purging, Exists, NoJob
    <3>3. ASSUME NEW g \in Files, Exists(g)', g \notin Broken(jobs[a])'
          PROVE  Covers(rows[g], entries[g].content)'
      BY <1>0, <2>1, <2>2, <2>3, <3>1, <3>3
      DEF Broken, Covers, DocsSound, Fresh, ListsSound, JobSound, RowsOwn, Saving,
          Overwriting, Purging, Exists, NoJob
    <3>4. QED
      BY <3>2, <3>3, ReadFrom
  <2>10. QED
    BY <2>4, <2>5, <2>6, <2>7, <2>8, <2>9, BookFrom DEF StepKeeps
<1>3. CASE NoTwin(a)
  <2>1. j.pc = "dedup"
    BY <1>3, <1>0 DEF NoTwin, At, Idle, Exists
  <2>2. /\ k.pc = "replace"
        /\ k.then = j.then /\ k.file = j.file /\ k.hash = j.hash /\ k.target = j.target
        /\ k.content = j.content /\ k.old = j.old /\ k.sent = j.sent /\ k.todo = j.todo
        /\ k.doomed = j.doomed
    BY <1>3, <1>0 DEF NoTwin, Goto, TypeInv, TypeOK, Job
  <2>3. UNCHANGED <<entries, rows, posted, live, lost, givenUp>>
    BY <1>3, <1>0, <2>1 DEF NoTwin, storeVars, tgVars, TypeInv, TypeOK
  <2>4. JobSound(jobs[a])'
    BY <1>0, <2>1, <2>2, <2>3 DEF JobSound, Purging, Exists
  <2>5. ListsSound(jobs[a])'
    BY <1>0, <2>1, <2>2, <2>3 DEF ListsSound, JobSound, Saving, Overwriting, Purging
  <2>6. RemovedSound(jobs[a])'
    BY <1>0, <2>1, <2>2, <2>3 DEF RemovedSound, ListsSound, JobSound, Purging
  <2>7. RowsOwn'
    BY <1>0, <2>1, <2>2, <2>3 DEF RowsOwn, Exists
  <2>8. Accounted'
    BY <1>0, <2>1, <2>2, <2>3
    DEF Accounted, ListsSound, RemovedSound, JobSound, Saving, Overwriting, Purging,
        OneActor
  <2>9. ASSUME Deduplicate, ReadInv
       PROVE  ReadInv'
    <3>1. /\ DocsSound(j)
          /\ \A g \in Files : Exists(g) /\ g \notin Broken(j)
                              => Covers(rows[g], entries[g].content)
      BY <2>9, ReadAt
    <3>2. DocsSound(jobs[a])'
      BY <1>0, <2>1, <2>2, <2>3, <3>1
      DEF DocsSound, Fresh, HasTwin, Covers, ListsSound, JobSound, RowsOwn, Saving,
          Overwriting, Purging, Exists
    <3>3. ASSUME NEW g \in Files, Exists(g)', g \notin Broken(jobs[a])'
          PROVE  Covers(rows[g], entries[g].content)'
      BY <1>0, <2>1, <2>2, <2>3, <3>1, <3>3
      DEF Broken, Covers, ListsSound, JobSound, RowsOwn, Saving, Overwriting, Purging,
          Exists
    <3>4. QED
      BY <3>2, <3>3, ReadFrom
  <2>10. QED
    BY <2>4, <2>5, <2>6, <2>7, <2>8, <2>9, BookFrom DEF StepKeeps
<1>4. CASE TakeTwin(a)
  <2>1. PICK f \in Twins(a) :
           jobs' = [jobs EXCEPT ![a].pc = "twin", ![a].file = f, ![a].sent = {}]
    BY <1>4 DEF TakeTwin
  <2>2. /\ k.pc = "twin" /\ k.file = f /\ k.sent = {}
        /\ k.then = j.then /\ k.hash = j.hash /\ k.target = j.target
        /\ k.content = j.content /\ k.old = j.old /\ k.todo = j.todo /\ k.doomed = j.doomed
    BY <2>1, <1>0 DEF TypeInv, TypeOK, Job
  <2>3. /\ live' \subseteq live /\ live \ j.sent \subseteq live'
        /\ lost \subseteq lost' /\ j.sent \cap live' \subseteq lost'
        /\ UNCHANGED <<entries, rows, posted, givenUp>> /\ j.pc = "dedup"
    BY <1>4, RemoveChunksEffect DEF TakeTwin, storeVars, At
  <2>4. f \in Files /\ Exists(f) /\ entries[f].content = j.content /\ f # j.old
    BY DEF Twins, SameContent, Listed, Exists
  <2>5. JobSound(jobs[a])'
    BY <2>2, <2>3, <2>4 DEF JobSound, Purging, Exists
  <2>6. ListsSound(jobs[a])'
    BY <1>0, <2>2, <2>3 DEF ListsSound, Saving, Overwriting, Purging
  <2>7. RemovedSound(jobs[a])'
    BY <1>0, <2>2, <2>3 DEF RemovedSound, ListsSound
  <2>8. RowsOwn'
    BY <1>0, <2>3 DEF RowsOwn, Exists
  <2>9. Accounted'
    BY <1>0, <2>2, <2>3 DEF Accounted, OneActor, ListsSound
  <2>10. ASSUME Deduplicate, ReadInv
       PROVE  ReadInv'
    <3>1. /\ DocsSound(j)
          /\ \A g \in Files : Exists(g) /\ g \notin Broken(j)
                              => Covers(rows[g], entries[g].content)
      BY <2>10, ReadAt
    <3>2. DocsSound(jobs[a])'
      BY <1>0, <2>2, <2>3, <2>4, <3>1
      DEF DocsSound, Fresh, HasTwin, Covers, ListsSound, JobSound, RowsOwn, Saving,
          Overwriting, Purging, Exists
    <3>3. ASSUME NEW g \in Files, Exists(g)', g \notin Broken(jobs[a])'
          PROVE  Covers(rows[g], entries[g].content)'
      BY <1>0, <2>2, <2>3, <2>4, <3>1, <3>3
      DEF Broken, Covers, DocsSound, Fresh, ListsSound, JobSound, RowsOwn, Saving,
          Overwriting, Purging, Exists
    <3>4. QED
      BY <3>2, <3>3, ReadFrom
  <2>11. QED
    BY <2>5, <2>6, <2>7, <2>8, <2>9, <2>10, BookFrom DEF StepKeeps
<1>5. CASE ListTwin(a)
  <2>1. j.pc = "twin"
    BY <1>5, <1>0 DEF ListTwin, At, Idle, Exists
  <2>2. /\ k.pc = "replace" /\ k.todo = rows[j.file]
        /\ k.then = j.then /\ k.file = j.file /\ k.hash = j.hash /\ k.target = j.target
        /\ k.content = j.content /\ k.old = j.old /\ k.sent = j.sent
        /\ k.doomed = j.doomed
    BY <1>5, <1>0 DEF ListTwin, Goto, TypeInv, TypeOK, Job
  <2>3. UNCHANGED <<entries, rows, posted, live, lost, givenUp>>
    BY <1>5, <1>0, <2>1 DEF ListTwin, storeVars, tgVars, TypeInv, TypeOK
  <2>4. JobSound(jobs[a])'
    BY <1>0, <2>1, <2>2, <2>3 DEF JobSound, Purging, Exists
  <2>5. ListsSound(jobs[a])'
    BY <1>0, <2>1, <2>2, <2>3
    DEF RowsOwn, KnowsFile, ListsSound, JobSound, Saving, Overwriting, Purging
  <2>6. RemovedSound(jobs[a])'
    BY <1>0, <2>1, <2>2, <2>3 DEF RemovedSound, ListsSound, JobSound, Purging
  <2>7. RowsOwn'
    BY <1>0, <2>1, <2>2, <2>3 DEF RowsOwn, Exists
  <2>8. Accounted'
    BY <1>0, <2>1, <2>2, <2>3
    DEF Accounted, ListsSound, RemovedSound, JobSound, Saving, Overwriting, Purging,
        OneActor
  <2>9. ASSUME Deduplicate, ReadInv
       PROVE  ReadInv'
    <3>1. /\ DocsSound(j)
          /\ \A g \in Files : Exists(g) /\ g \notin Broken(j)
                              => Covers(rows[g], entries[g].content)
      BY <2>9, ReadAt
    <3>2. DocsSound(jobs[a])'
      <4>1. /\ j.file \in Files /\ Exists(j.file) /\ j.file # j.old
            /\ j.content = entries[j.file].content
        BY <1>0, <2>1 DEF JobSound, KnowsFile
      <4>2. Covers(rows[j.file], j.content)
        BY <2>1, <3>1, <4>1 DEF Broken, Purging
      <4>3. Covers(jobs[a].todo, jobs[a].content)'
        BY <2>2, <2>3, <4>2 DEF Covers
      <4>4. HasTwin(jobs[a])'
        BY <2>2, <2>3, <4>1 DEF HasTwin, Exists
      <4>5. QED
        BY <2>2, <4>3, <4>4 DEF DocsSound
    <3>3. ASSUME NEW g \in Files, Exists(g)', g \notin Broken(jobs[a])'
          PROVE  Covers(rows[g], entries[g].content)'
      BY <1>0, <2>1, <2>2, <2>3, <3>1, <3>3
      DEF Broken, Covers, ListsSound, JobSound, RowsOwn, Saving, Overwriting, Purging,
          Exists
    <3>4. QED
      BY <3>2, <3>3, ReadFrom
  <2>10. QED
    BY <2>4, <2>5, <2>6, <2>7, <2>8, <2>9, BookFrom DEF StepKeeps
<1>6. CASE ReplaceOld(a)
  <2>1. j.pc = "replace" /\ Exists(j.old)
    BY <1>6, <1>0 DEF ReplaceOld, Purge, At, Idle, Exists
  <2>2. /\ k.pc = "count" /\ k.then = "overwrite" /\ k.file = j.old
        /\ k.hash = entries[j.old].content
        /\ k.target = j.target /\ k.content = j.content /\ k.old = j.old
        /\ k.sent = j.sent /\ k.todo = j.todo /\ k.doomed = j.doomed
    BY <1>6, <1>0 DEF ReplaceOld, Purge, Goto, TypeInv, TypeOK, Job
  <2>3. UNCHANGED <<entries, rows, posted, live, lost, givenUp>>
    BY <1>6, <1>0, <2>1 DEF ReplaceOld, Purge, storeVars, tgVars, TypeInv, TypeOK
  <2>4. JobSound(jobs[a])'
    BY <1>0, <2>1, <2>2, <2>3 DEF JobSound, Purging, Exists
  <2>5. ListsSound(jobs[a])'
    BY <1>0, <2>1, <2>2, <2>3 DEF ListsSound, JobSound, Saving, Overwriting, Purging
  <2>6. RemovedSound(jobs[a])'
    BY <1>0, <2>1, <2>2, <2>3 DEF RemovedSound, ListsSound, JobSound, Purging
  <2>7. RowsOwn'
    BY <1>0, <2>1, <2>2, <2>3 DEF RowsOwn, Exists
  <2>8. Accounted'
    BY <1>0, <2>1, <2>2, <2>3
    DEF Accounted, ListsSound, RemovedSound, JobSound, Saving, Overwriting, Purging,
        OneActor
  <2>9. ASSUME Deduplicate, ReadInv
       PROVE  ReadInv'
    <3>1. /\ DocsSound(j)
          /\ \A g \in Files : Exists(g) /\ g \notin Broken(j)
                              => Covers(rows[g], entries[g].content)
      BY <2>9, ReadAt
    <3>2. DocsSound(jobs[a])'
      <4>1. Saving(j)
        BY <2>1 DEF Saving
      <4>2. Covers(j.todo, j.content) /\ (Fresh(j) \/ HasTwin(j))
        BY <3>1, <4>1 DEF DocsSound
      <4>3. Covers(jobs[a].todo, jobs[a].content)'
        BY <2>2, <2>3, <4>2 DEF Covers
      <4>4. (Fresh(jobs[a]) \/ HasTwin(jobs[a]))'
        BY <2>2, <2>3, <4>2 DEF Fresh, HasTwin, Exists
      <4>5. QED
        BY <2>2, <4>3, <4>4 DEF DocsSound
    <3>3. ASSUME NEW g \in Files, Exists(g)', g \notin Broken(jobs[a])'
          PROVE  Covers(rows[g], entries[g].content)'
      BY <1>0, <2>1, <2>2, <2>3, <3>1, <3>3
      DEF Broken, Covers, ListsSound, JobSound, RowsOwn, Saving, Overwriting, Purging,
          Exists
    <3>4. QED
      BY <3>2, <3>3, ReadFrom
  <2>10. QED
    BY <2>4, <2>5, <2>6, <2>7, <2>8, <2>9, BookFrom DEF StepKeeps
<1>7. CASE OverwriteEntry(a)
  <2>1. j.pc = "overwrite"
    BY <1>7, <1>0 DEF OverwriteEntry, UpdateEntry, JobSound, Exists, At, Idle, Exists
  <2>2. /\ k.pc = "rows" /\ k.target = j.old
        /\ k.then = j.then /\ k.file = j.file /\ k.hash = j.hash
        /\ k.content = j.content /\ k.old = j.old /\ k.sent = j.sent /\ k.todo = j.todo
        /\ k.doomed = j.doomed
    BY <1>7, <1>0
    DEF OverwriteEntry, UpdateEntry, JobSound, Exists, Goto, TypeInv, TypeOK, Job
  <2>3. /\ entries' = [entries EXCEPT ![j.old] = [status |-> "listed", content |-> j.content]]
        /\ UNCHANGED <<rows, posted, live, lost, givenUp>>
    BY <1>7, <1>0, <2>1
    DEF OverwriteEntry, UpdateEntry, JobSound, Exists, storeVars, tgVars, TypeInv,
        TypeOK
  <2>4. JobSound(jobs[a])'
    BY <1>0, <2>1, <2>2, <2>3 DEF JobSound, Purging, Exists
  <2>5. ListsSound(jobs[a])'
    BY <1>0, <2>1, <2>2, <2>3 DEF ListsSound, JobSound, Saving, Overwriting, Purging
  <2>6. RemovedSound(jobs[a])'
    BY <1>0, <2>1, <2>2, <2>3 DEF RemovedSound, ListsSound, JobSound, Purging
  <2>7. RowsOwn'
    BY <1>0, <2>1, <2>2, <2>3 DEF JobSound, RowsOwn, Exists
  <2>8. Accounted'
    BY <1>0, <2>1, <2>2, <2>3
    DEF Accounted, ListsSound, RemovedSound, JobSound, Saving, Overwriting, Purging,
        OneActor
  <2>9. ASSUME Deduplicate, ReadInv
       PROVE  ReadInv'
    <3>1. /\ DocsSound(j)
          /\ \A g \in Files : Exists(g) /\ g \notin Broken(j)
                              => Covers(rows[g], entries[g].content)
      BY <2>9, ReadAt
    <3>2. DocsSound(jobs[a])'
      <4>1. Saving(j)
        BY <2>1 DEF Saving
      <4>2. Covers(j.todo, j.content)
        BY <3>1, <4>1 DEF DocsSound
      <4>3. Covers(jobs[a].todo \cup rows[jobs[a].target], jobs[a].content)'
        BY <2>2, <2>3, <4>2 DEF Covers
      <4>4. ~Saving(jobs[a])'
        BY <2>2 DEF Saving, Overwriting, Purging
      <4>5. QED
        BY <2>2, <4>3, <4>4 DEF DocsSound
    <3>3. ASSUME NEW g \in Files, Exists(g)', g \notin Broken(jobs[a])'
          PROVE  Covers(rows[g], entries[g].content)'
      BY <1>0, <2>1, <2>2, <2>3, <3>1, <3>3
      DEF Broken, Covers, ListsSound, JobSound, RowsOwn, Saving, Overwriting, Purging,
          Exists
    <3>4. QED
      BY <3>2, <3>3, ReadFrom
  <2>10. QED
    BY <2>4, <2>5, <2>6, <2>7, <2>8, <2>9, BookFrom DEF StepKeeps
<1>8. ASSUME NEW f \in Files, NewEntry(a, f)
      PROVE  StepKeeps
  <2>1. j.pc = "replace" /\ ~Exists(f)
    BY <1>8, <1>0 DEF NewEntry, CreateEntry, At, Idle, Exists
  <2>2. /\ k.pc = "rows" /\ k.target = f
        /\ k.then = j.then /\ k.file = j.file /\ k.hash = j.hash
        /\ k.content = j.content /\ k.old = j.old /\ k.sent = j.sent /\ k.todo = j.todo
        /\ k.doomed = j.doomed
    BY <1>8, <1>0 DEF NewEntry, CreateEntry, Goto, TypeInv, TypeOK, Job
  <2>3. /\ entries' = [entries EXCEPT ![f] = [status |-> "listed", content |-> j.content]]
        /\ UNCHANGED <<rows, posted, live, lost, givenUp>>
    BY <1>8, <1>0, <2>1 DEF NewEntry, CreateEntry, storeVars, tgVars, TypeInv, TypeOK
  <2>4. JobSound(jobs[a])'
    BY <1>0, <2>1, <2>2, <2>3 DEF JobSound, Purging, Exists
  <2>5. ListsSound(jobs[a])'
    BY <1>0, <2>1, <2>2, <2>3 DEF ListsSound, JobSound, Saving, Overwriting, Purging
  <2>6. RemovedSound(jobs[a])'
    BY <1>0, <2>1, <2>2, <2>3 DEF RemovedSound, ListsSound, JobSound, Purging
  <2>7. RowsOwn'
    BY <1>0, <2>1, <2>2, <2>3 DEF RowsOwn, Exists
  <2>8. Accounted'
    BY <1>0, <2>1, <2>2, <2>3
    DEF Accounted, ListsSound, RemovedSound, JobSound, Saving, Overwriting, Purging,
        OneActor
  <2>9. ASSUME Deduplicate, ReadInv
       PROVE  ReadInv'
    <3>1. /\ DocsSound(j)
          /\ \A g \in Files : Exists(g) /\ g \notin Broken(j)
                              => Covers(rows[g], entries[g].content)
      BY <2>9, ReadAt
    <3>2. DocsSound(jobs[a])'
      <4>1. Saving(j)
        BY <2>1 DEF Saving
      <4>2. Covers(j.todo, j.content)
        BY <3>1, <4>1 DEF DocsSound
      <4>3. Covers(jobs[a].todo \cup rows[jobs[a].target], jobs[a].content)'
        BY <2>2, <2>3, <4>2 DEF Covers
      <4>4. ~Saving(jobs[a])'
        BY <2>2 DEF Saving, Overwriting, Purging
      <4>5. QED
        BY <2>2, <4>3, <4>4 DEF DocsSound
    <3>3. ASSUME NEW g \in Files, Exists(g)', g \notin Broken(jobs[a])'
          PROVE  Covers(rows[g], entries[g].content)'
      BY <1>0, <2>1, <2>2, <2>3, <3>1, <3>3
      DEF Broken, Covers, ListsSound, JobSound, RowsOwn, Saving, Overwriting, Purging,
          Exists
    <3>4. QED
      BY <3>2, <3>3, ReadFrom
  <2>10. QED
    BY <2>4, <2>5, <2>6, <2>7, <2>8, <2>9, BookFrom DEF StepKeeps
<1>9. QED
  BY <1>1, <1>2, <1>3, <1>4, <1>5, <1>6, <1>7, <1>8 DEF Upload

\* A step of purgeFileData(): the documents it takes are those of its own file, and
\* unless that file was found alone nothing goes.
LEMMA PurgeReads ==
    ASSUME OneActor, BookInv, ReadInv, NEW a \in Actors, Purging(jobs[a]),
           jobs[a].file \in Files,
           Purging(jobs'[a]) \/ jobs'[a].pc = jobs[a].then,
           jobs'[a].then = jobs[a].then, jobs'[a].file = jobs[a].file,
           jobs'[a].hash = jobs[a].hash, jobs'[a].content = jobs[a].content,
           jobs'[a].old = jobs[a].old, jobs'[a].todo = jobs[a].todo,
           UNCHANGED <<entries, posted>>,
           \A f \in Files \ {jobs[a].file} : rows'[f] = rows[f],
           rows'[jobs[a].file] \subseteq rows[jobs[a].file],
           live' = live \/ (jobs[a].pc = "remove" /\ live \ jobs[a].doomed \subseteq live'),
           jobs'[a].pc \in {"list", "remove", "drop"} =>
              \A f \in Files \ {jobs[a].file} : Exists(f) => entries[f].content # jobs[a].hash
    PROVE  ReadInv'
<1> DEFINE j == jobs[a]
           k == jobs'[a]
<1>1. /\ DocsSound(j)
      /\ \A g \in Files : Exists(g) /\ g \notin Broken(j) => Covers(rows[g], entries[g].content)
  BY ReadAt
<1>2. JobSound(j) /\ ListsSound(j) /\ RowsOwn
  BY DEF BookInv
<1>3. /\ j.then \in {"overwrite", "delete"} /\ j.hash = entries[j.file].content
      /\ j.then = "overwrite" => j.file = j.old
  BY <1>2 DEF JobSound
<1>4. /\ k.pc \notin {"dedup", "linkCreate", "rows", "copyList"}
      /\ Saving(k) <=> Saving(j)
  BY <1>3 DEF Saving, Overwriting, Purging
<1>5. Broken(j) = {j.file} /\ Broken(k) = {j.file}
  BY <1>3, <1>4 DEF Broken, Purging
<1>6. Saving(j) => Covers(j.todo, j.content) /\ (Fresh(j) \/ HasTwin(j))
  BY <1>1 DEF DocsSound
<1>7. j.pc = "remove" =>
         /\ j.doomed = rows[j.file]
         /\ \A d \in j.doomed : posted[d].content = j.hash
         /\ \A f \in Files \ {j.file} : Exists(f) => entries[f].content # j.hash
  BY <1>1, <1>2, <1>3 DEF ListsSound, RowsOwn, DocsSound
<1>8. ASSUME Saving(j), NEW d \in j.todo, d \in live
      PROVE  d \in live'
  <2>1. CASE j.pc = "remove" /\ d \in j.doomed
    <3>1. j.then = "overwrite" /\ j.file = j.old
      BY <1>3, <1>8, <2>1 DEF Saving, Overwriting
    <3>2. posted[d].content = j.content /\ j.content = j.hash
      BY <1>2, <1>7, <2>1 DEF ListsSound
    <3>3. ~HasTwin(j)
      BY <1>7, <2>1, <3>1, <3>2 DEF HasTwin
    <3>4. ~Fresh(j)
      BY <1>7, <2>1 DEF Fresh
    <3>5. QED
      BY <1>6, <1>8, <3>3, <3>4
  <2>2. QED
    BY <1>8, <2>1
<1>9. ASSUME Saving(j)
      PROVE  Covers(jobs[a].todo, jobs[a].content)'
  BY <1>6, <1>8, <1>9 DEF Covers
<1>10. ASSUME Saving(j)
       PROVE  (Fresh(jobs[a]) \/ HasTwin(jobs[a]))'
  <2>1. Fresh(j) => Fresh(jobs[a])'
    BY DEF Fresh
  <2>2. HasTwin(j) => HasTwin(jobs[a])'
    BY DEF HasTwin, Exists
  <2>3. QED
    BY <1>6, <1>10, <2>1, <2>2
<1>11. DocsSound(jobs[a])'
  BY <1>4, <1>9, <1>10 DEF DocsSound, Exists
<1>12. ASSUME NEW g \in Files, Exists(g)', g \notin Broken(jobs[a])'
       PROVE  Covers(rows[g], entries[g].content)'
  <2>1. g # j.file /\ rows'[g] = rows[g] /\ Exists(g)
    BY <1>5, <1>12 DEF Exists
  <2>2. Covers(rows[g], entries[g].content)
    BY <1>1, <1>5, <2>1
  <2>3. \A d \in rows[g] \cap live : d \in live'
    BY <1>2, <1>7, <2>1 DEF RowsOwn
  <2>4. QED
    BY <2>1, <2>2, <2>3 DEF Covers
<1>13. QED
  BY <1>11, <1>12, ReadFrom

\* Purging keeps the books.
LEMMA PurgeBook ==
    ASSUME OneActor, TypeInv, BookInv, NEW a \in Actors, PurgeFileData(a)
    PROVE  StepKeeps
<1> DEFINE j == jobs[a]
           k == jobs'[a]
<1>0. /\ j \in Job /\ KnowsFile(j) /\ JobSound(j) /\ ListsSound(j) /\ RemovedSound(j)
      /\ RowsOwn /\ Accounted
      /\ entries \in [Files -> Entry] /\ rows \in [Files -> SUBSET DocIds]
  BY BookAt
<1>1. CASE Count(a)
  <2>1. j.pc = "count" /\ j.file \in Files
    BY <1>1, <1>0 DEF Count, KnowsFile, Purging, At, Idle, Exists
  <2>2. /\ k.pc = (IF Shared(a) THEN "dropShared" ELSE "list")
        /\ k.then = j.then /\ k.file = j.file /\ k.hash = j.hash /\ k.target = j.target
        /\ k.content = j.content /\ k.old = j.old /\ k.sent = j.sent /\ k.todo = j.todo
        /\ k.doomed = j.doomed
    BY <1>1, <1>0 DEF Count, KnowsFile, Purging, Goto, TypeInv, TypeOK, Job
  <2>3. UNCHANGED <<entries, rows, posted, live, lost, givenUp>>
    BY <1>1, <1>0, <2>1 DEF Count, KnowsFile, Purging, storeVars, tgVars, TypeInv, TypeOK
  <2>4. JobSound(jobs[a])'
    BY <1>0, <2>1, <2>2, <2>3 DEF JobSound, Purging, Exists
  <2>5. ListsSound(jobs[a])'
    BY <1>0, <2>1, <2>2, <2>3 DEF ListsSound, JobSound, Saving, Overwriting, Purging
  <2>6. RemovedSound(jobs[a])'
    BY <1>0, <2>1, <2>2, <2>3 DEF RemovedSound, ListsSound, JobSound, Purging
  <2>7. RowsOwn'
    BY <1>0, <2>1, <2>2, <2>3 DEF RowsOwn, Exists
  <2>8. Accounted'
    BY <1>0, <2>1, <2>2, <2>3
    DEF Accounted, ListsSound, RemovedSound, JobSound, Saving, Overwriting, Purging,
        OneActor
  <2>9. ASSUME Deduplicate, ReadInv
        PROVE  ReadInv'
    <3>1. ASSUME ~Shared(a), NEW f \in Files \ {j.file}, Exists(f)
          PROVE  entries[f].content # j.hash
      BY <1>0, <2>1, <2>9, <3>1, CountAlone DEF JobSound, Purging
    <3>2. QED
      BY <1>0, <2>1, <2>2, <2>3, <2>9, <3>1, PurgeReads DEF Purging
  <2>10. QED
    BY <2>4, <2>5, <2>6, <2>7, <2>8, <2>9, BookFrom DEF StepKeeps
<1>2. CASE ListChunks(a)
  <2>1. j.pc = "list" /\ j.file \in Files
    BY <1>2, <1>0 DEF ListChunks, KnowsFile, Purging, At, Idle, Exists
  <2>2. /\ k.pc = (IF rows[j.file] = {} THEN j.then ELSE "remove") /\ k.doomed = rows[j.file]
        /\ k.then = j.then /\ k.file = j.file /\ k.hash = j.hash /\ k.target = j.target
        /\ k.content = j.content /\ k.old = j.old /\ k.sent = j.sent /\ k.todo = j.todo
    BY <1>2, <1>0 DEF ListChunks, KnowsFile, Purging, Goto, TypeInv, TypeOK, Job
  <2>3. UNCHANGED <<entries, rows, posted, live, lost, givenUp>>
    BY <1>2, <1>0, <2>1
    DEF ListChunks, KnowsFile, Purging, storeVars, tgVars, TypeInv, TypeOK
  <2>4. JobSound(jobs[a])'
    BY <1>0, <2>1, <2>2, <2>3 DEF JobSound, Purging, Exists
  <2>5. ListsSound(jobs[a])'
    BY <1>0, <2>1, <2>2, <2>3 DEF ListsSound, JobSound, Saving, Overwriting, Purging
  <2>6. RemovedSound(jobs[a])'
    BY <1>0, <2>1, <2>2, <2>3 DEF RemovedSound, ListsSound, JobSound, Purging
  <2>7. RowsOwn'
    BY <1>0, <2>1, <2>2, <2>3 DEF RowsOwn, Exists
  <2>8. Accounted'
    BY <1>0, <2>1, <2>2, <2>3
    DEF Accounted, ListsSound, RemovedSound, JobSound, Saving, Overwriting, Purging,
        OneActor
  <2>9. ASSUME Deduplicate, ReadInv
        PROVE  ReadInv'
    <3>1. \A f \in Files \ {j.file} : Exists(f) => entries[f].content # j.hash
      BY <2>1, <2>9, ReadAt DEF DocsSound
    <3>2. QED
      BY <1>0, <2>1, <2>2, <2>3, <2>9, <3>1, PurgeReads DEF Purging
  <2>10. QED
    BY <2>4, <2>5, <2>6, <2>7, <2>8, <2>9, BookFrom DEF StepKeeps
<1>3. CASE RemoveListed(a)
  <2>1. j.pc = "remove" /\ j.file \in Files
    BY <1>3, <1>0 DEF RemoveListed, KnowsFile, Purging, At, Idle, Exists
  <2>2. /\ k.pc = "drop"
        /\ k.then = j.then /\ k.file = j.file /\ k.hash = j.hash /\ k.target = j.target
        /\ k.content = j.content /\ k.old = j.old /\ k.sent = j.sent /\ k.todo = j.todo
        /\ k.doomed = j.doomed
    BY <1>3, <1>0 DEF RemoveListed, KnowsFile, Purging, Goto, TypeInv, TypeOK, Job
  <2>3. /\ live' \subseteq live /\ live \ j.doomed \subseteq live'
        /\ lost \subseteq lost' /\ j.doomed \cap live' \subseteq lost'
        /\ UNCHANGED <<entries, rows, posted, givenUp>>
    BY <1>3, <1>0, <2>1, RemoveChunksEffect
    DEF RemoveListed, KnowsFile, Purging, storeVars, tgVars, TypeInv, TypeOK
  <2>4. JobSound(jobs[a])'
    BY <1>0, <2>1, <2>2, <2>3 DEF JobSound, Purging, Exists
  <2>5. ListsSound(jobs[a])'
    BY <1>0, <2>1, <2>2, <2>3 DEF ListsSound, JobSound, Saving, Overwriting, Purging
  <2>6. RemovedSound(jobs[a])'
    BY <1>0, <2>1, <2>2, <2>3 DEF RemovedSound, ListsSound, JobSound, Purging
  <2>7. RowsOwn'
    BY <1>0, <2>1, <2>2, <2>3 DEF RowsOwn, Exists
  <2>8. Accounted'
    BY <1>0, <2>1, <2>2, <2>3
    DEF Accounted, ListsSound, RemovedSound, JobSound, Saving, Overwriting, Purging,
        OneActor
  <2>9. ASSUME Deduplicate, ReadInv
        PROVE  ReadInv'
    <3>1. \A f \in Files \ {j.file} : Exists(f) => entries[f].content # j.hash
      BY <2>1, <2>9, ReadAt DEF DocsSound
    <3>2. QED
      BY <1>0, <2>1, <2>2, <2>3, <2>9, <3>1, PurgeReads DEF Purging
  <2>10. QED
    BY <2>4, <2>5, <2>6, <2>7, <2>8, <2>9, BookFrom DEF StepKeeps
<1>4. CASE DropRows(a)
  <2>1. j.pc = "drop" /\ j.file \in Files
    BY <1>4, <1>0 DEF DropRows, KnowsFile, Purging, At, Idle, Exists
  <2>2. /\ k.pc = j.then /\ k.doomed = {}
        /\ k.then = j.then /\ k.file = j.file /\ k.hash = j.hash /\ k.target = j.target
        /\ k.content = j.content /\ k.old = j.old /\ k.sent = j.sent /\ k.todo = j.todo
    BY <1>4, <1>0 DEF DropRows, KnowsFile, Purging, Goto, TypeInv, TypeOK, Job
  <2>3. rows' = [rows EXCEPT ![j.file] = {}] /\ UNCHANGED <<entries, posted, live, lost, givenUp>>
    BY <1>4, <1>0, <2>1 DEF DropRows, KnowsFile, Purging, storeVars, tgVars, TypeInv, TypeOK
  <2>4. JobSound(jobs[a])'
    BY <1>0, <2>1, <2>2, <2>3 DEF JobSound, Purging, Exists
  <2>5. ListsSound(jobs[a])'
    BY <1>0, <2>1, <2>2, <2>3 DEF ListsSound, JobSound, Saving, Overwriting, Purging
  <2>6. RemovedSound(jobs[a])'
    BY <1>0, <2>1, <2>2, <2>3 DEF RemovedSound, ListsSound, JobSound, Purging
  <2>7. RowsOwn'
    BY <1>0, <2>1, <2>2, <2>3 DEF RowsOwn, Exists
  <2>8. Accounted'
    BY <1>0, <2>1, <2>2, <2>3
    DEF Accounted, ListsSound, RemovedSound, JobSound, Saving, Overwriting, Purging,
        OneActor
  <2>9. ASSUME Deduplicate, ReadInv
        PROVE  ReadInv'
    <3>1. k.pc \in {"overwrite", "delete"}
      BY <1>0, <2>1, <2>2 DEF JobSound, Purging
    <3>2. QED
      BY <1>0, <2>1, <2>2, <2>3, <2>9, <3>1, PurgeReads DEF Purging
  <2>10. QED
    BY <2>4, <2>5, <2>6, <2>7, <2>8, <2>9, BookFrom DEF StepKeeps
<1>5. CASE DropShared(a)
  <2>1. j.pc = "dropShared" /\ j.file \in Files
    BY <1>5, <1>0 DEF DropShared, KnowsFile, Purging, At, Idle, Exists
  <2>2. /\ k.pc = j.then
        /\ k.then = j.then /\ k.file = j.file /\ k.hash = j.hash /\ k.target = j.target
        /\ k.content = j.content /\ k.old = j.old /\ k.sent = j.sent /\ k.todo = j.todo
        /\ k.doomed = j.doomed
    BY <1>5, <1>0 DEF DropShared, KnowsFile, Purging, Goto, TypeInv, TypeOK, Job
  <2>3. /\ rows' = [rows EXCEPT ![j.file] = {}]
        /\ givenUp' = givenUp \cup OnlyOf(j.file) /\ UNCHANGED <<entries, posted, live, lost>>
    BY <1>5, <1>0, <2>1
    DEF DropShared, KnowsFile, Purging, storeVars, tgVars, TypeInv, TypeOK
  <2>4. JobSound(jobs[a])'
    BY <1>0, <2>1, <2>2, <2>3 DEF JobSound, Purging, Exists
  <2>5. ListsSound(jobs[a])'
    BY <1>0, <2>1, <2>2, <2>3 DEF ListsSound, JobSound, Saving, Overwriting, Purging
  <2>6. RemovedSound(jobs[a])'
    BY <1>0, <2>1, <2>2, <2>3 DEF RemovedSound, ListsSound, JobSound, Purging
  <2>7. RowsOwn'
    BY <1>0, <2>1, <2>2, <2>3 DEF RowsOwn, Exists
  <2>8. Accounted'
    BY <1>0, <2>1, <2>2, <2>3
    DEF OnlyOf, Accounted, ListsSound, RemovedSound, JobSound, Saving, Overwriting,
        Purging, OneActor
  <2>9. ASSUME Deduplicate, ReadInv
        PROVE  ReadInv'
    <3>1. k.pc \in {"overwrite", "delete"}
      BY <1>0, <2>1, <2>2 DEF JobSound, Purging
    <3>2. QED
      BY <1>0, <2>1, <2>2, <2>3, <2>9, <3>1, PurgeReads DEF Purging
  <2>10. QED
    BY <2>4, <2>5, <2>6, <2>7, <2>8, <2>9, BookFrom DEF StepKeeps
<1>6. QED
  BY <1>1, <1>2, <1>3, <1>4, <1>5 DEF PurgeFileData

\* Deleting, trashing and restoring keep the books.
LEMMA ManageBook ==
    ASSUME OneActor, TypeInv, BookInv, NEW a \in Actors, Manage(a)
    PROVE  StepKeeps
<1> DEFINE j == jobs[a]
           k == jobs'[a]
<1>0. /\ j \in Job /\ KnowsFile(j) /\ JobSound(j) /\ ListsSound(j) /\ RemovedSound(j)
      /\ RowsOwn /\ Accounted
      /\ entries \in [Files -> Entry] /\ rows \in [Files -> SUBSET DocIds]
  BY BookAt
<1>1. ASSUME NEW f \in Files, PurgeFile(a, f)
      PROVE  StepKeeps
  <2>1. j.pc = "idle" /\ j = NoJob /\ Exists(f)
    BY <1>1, <1>0 DEF PurgeFile, Purge, JobSound, At, Idle, Exists
  <2>2. /\ k.pc = "count" /\ k.then = "delete" /\ k.file = f /\ k.hash = entries[f].content
        /\ k.target = j.target /\ k.content = j.content /\ k.old = j.old
        /\ k.sent = j.sent /\ k.todo = j.todo /\ k.doomed = j.doomed
    BY <1>1, <1>0 DEF PurgeFile, Purge, JobSound, Goto, TypeInv, TypeOK, Job
  <2>3. UNCHANGED <<entries, rows, posted, live, lost, givenUp>>
    BY <1>1, <1>0, <2>1 DEF PurgeFile, Purge, JobSound, storeVars, tgVars, TypeInv, TypeOK
  <2>4. JobSound(jobs[a])'
    BY <1>0, <2>1, <2>2, <2>3 DEF JobSound, Purging, Exists, NoJob
  <2>5. ListsSound(jobs[a])'
    BY <1>0, <2>1, <2>2, <2>3 DEF ListsSound, JobSound, Saving, Overwriting, Purging, NoJob
  <2>6. RemovedSound(jobs[a])'
    BY <1>0, <2>1, <2>2, <2>3 DEF RemovedSound, ListsSound, JobSound, Purging, NoJob
  <2>7. RowsOwn'
    BY <1>0, <2>1, <2>2, <2>3 DEF RowsOwn, Exists, NoJob
  <2>8. Accounted'
    BY <1>0, <2>1, <2>2, <2>3
    DEF Accounted, ListsSound, RemovedSound, JobSound, Saving, Overwriting, Purging,
        OneActor, NoJob
  <2>9. ASSUME Deduplicate, ReadInv
       PROVE  ReadInv'
    <3>1. /\ DocsSound(j)
          /\ \A g \in Files : Exists(g) /\ g \notin Broken(j)
                              => Covers(rows[g], entries[g].content)
      BY <2>9, ReadAt
    <3>2. DocsSound(jobs[a])'
      BY <1>0, <2>1, <2>2, <2>3, <3>1
      DEF DocsSound, Fresh, HasTwin, Covers, ListsSound, JobSound, RowsOwn, Saving,
          Overwriting, Purging, Exists, NoJob
    <3>3. ASSUME NEW g \in Files, Exists(g)', g \notin Broken(jobs[a])'
          PROVE  Covers(rows[g], entries[g].content)'
      BY <1>0, <2>1, <2>2, <2>3, <3>1, <3>3
      DEF Broken, Covers, ListsSound, JobSound, RowsOwn, Saving, Overwriting, Purging,
          Exists, NoJob
    <3>4. QED
      BY <3>2, <3>3, ReadFrom
  <2>10. QED
    BY <2>4, <2>5, <2>6, <2>7, <2>8, <2>9, BookFrom DEF StepKeeps
<1>2. ASSUME NEW f \in Files, Trash(a, f)
      PROVE  StepKeeps
  <2>1. j.pc = "idle" /\ j = NoJob /\ Exists(f)
    BY <1>2, <1>0 DEF Trash, Read, JobSound, Listed, At, Idle, Exists
  <2>2. /\ k.pc = "trash" /\ k.file = f
        /\ k.hash = entries[f].content /\ k.content = entries[f].content
        /\ k.then = "idle" /\ k.target = None /\ k.old = None
        /\ k.sent = {} /\ k.todo = {} /\ k.doomed = {}
    BY <1>2, <1>0 DEF Trash, Read, JobSound, Listed, Become, NoJob, TypeInv, TypeOK
  <2>3. UNCHANGED <<entries, rows, posted, live, lost, givenUp>>
    BY <1>2, <1>0, <2>1
    DEF Trash, Read, JobSound, Listed, storeVars, tgVars, TypeInv, TypeOK
  <2>4. JobSound(jobs[a])'
    BY <1>0, <2>1, <2>2, <2>3 DEF JobSound, Purging, Exists, NoJob
  <2>5. ListsSound(jobs[a])'
    BY <1>0, <2>1, <2>2, <2>3 DEF ListsSound, JobSound, Saving, Overwriting, Purging, NoJob
  <2>6. RemovedSound(jobs[a])'
    BY <1>0, <2>1, <2>2, <2>3 DEF RemovedSound, ListsSound, JobSound, Purging, NoJob
  <2>7. RowsOwn'
    BY <1>0, <2>1, <2>2, <2>3 DEF RowsOwn, Exists, NoJob
  <2>8. Accounted'
    BY <1>0, <2>1, <2>2, <2>3
    DEF Accounted, ListsSound, RemovedSound, JobSound, Saving, Overwriting, Purging,
        OneActor, NoJob
  <2>9. ASSUME Deduplicate, ReadInv
       PROVE  ReadInv'
    <3>1. /\ DocsSound(j)
          /\ \A g \in Files : Exists(g) /\ g \notin Broken(j)
                              => Covers(rows[g], entries[g].content)
      BY <2>9, ReadAt
    <3>2. DocsSound(jobs[a])'
      BY <1>0, <2>1, <2>2, <2>3, <3>1
      DEF DocsSound, Fresh, HasTwin, Covers, ListsSound, JobSound, RowsOwn, Saving,
          Overwriting, Purging, Exists, NoJob
    <3>3. ASSUME NEW g \in Files, Exists(g)', g \notin Broken(jobs[a])'
          PROVE  Covers(rows[g], entries[g].content)'
      BY <1>0, <2>1, <2>2, <2>3, <3>1, <3>3
      DEF Broken, Covers, ListsSound, JobSound, RowsOwn, Saving, Overwriting, Purging,
          Exists, NoJob
    <3>4. QED
      BY <3>2, <3>3, ReadFrom
  <2>10. QED
    BY <2>4, <2>5, <2>6, <2>7, <2>8, <2>9, BookFrom DEF StepKeeps
<1>3. ASSUME NEW f \in Files, Restore(a, f)
      PROVE  StepKeeps
  <2>1. j.pc = "idle" /\ j = NoJob /\ Exists(f)
    BY <1>3, <1>0 DEF Restore, Read, JobSound, Listed, At, Idle, Exists
  <2>2. /\ k.pc = "restore" /\ k.file = f
        /\ k.hash = entries[f].content /\ k.content = entries[f].content
        /\ k.then = "idle" /\ k.target = None /\ k.old = None
        /\ k.sent = {} /\ k.todo = {} /\ k.doomed = {}
    BY <1>3, <1>0 DEF Restore, Read, JobSound, Listed, Become, NoJob, TypeInv, TypeOK
  <2>3. UNCHANGED <<entries, rows, posted, live, lost, givenUp>>
    BY <1>3, <1>0, <2>1
    DEF Restore, Read, JobSound, Listed, storeVars, tgVars, TypeInv, TypeOK
  <2>4. JobSound(jobs[a])'
    BY <1>0, <2>1, <2>2, <2>3 DEF JobSound, Purging, Exists, NoJob
  <2>5. ListsSound(jobs[a])'
    BY <1>0, <2>1, <2>2, <2>3 DEF ListsSound, JobSound, Saving, Overwriting, Purging, NoJob
  <2>6. RemovedSound(jobs[a])'
    BY <1>0, <2>1, <2>2, <2>3 DEF RemovedSound, ListsSound, JobSound, Purging, NoJob
  <2>7. RowsOwn'
    BY <1>0, <2>1, <2>2, <2>3 DEF RowsOwn, Exists, NoJob
  <2>8. Accounted'
    BY <1>0, <2>1, <2>2, <2>3
    DEF Accounted, ListsSound, RemovedSound, JobSound, Saving, Overwriting, Purging,
        OneActor, NoJob
  <2>9. ASSUME Deduplicate, ReadInv
       PROVE  ReadInv'
    <3>1. /\ DocsSound(j)
          /\ \A g \in Files : Exists(g) /\ g \notin Broken(j)
                              => Covers(rows[g], entries[g].content)
      BY <2>9, ReadAt
    <3>2. DocsSound(jobs[a])'
      BY <1>0, <2>1, <2>2, <2>3, <3>1
      DEF DocsSound, Fresh, HasTwin, Covers, ListsSound, JobSound, RowsOwn, Saving,
          Overwriting, Purging, Exists, NoJob
    <3>3. ASSUME NEW g \in Files, Exists(g)', g \notin Broken(jobs[a])'
          PROVE  Covers(rows[g], entries[g].content)'
      BY <1>0, <2>1, <2>2, <2>3, <3>1, <3>3
      DEF Broken, Covers, ListsSound, JobSound, RowsOwn, Saving, Overwriting, Purging,
          Exists, NoJob
    <3>4. QED
      BY <3>2, <3>3, ReadFrom
  <2>10. QED
    BY <2>4, <2>5, <2>6, <2>7, <2>8, <2>9, BookFrom DEF StepKeeps
<1>4. CASE DeleteEntry(a)
  <2>1. j.pc = "delete" /\ j.file \in Files
    BY <1>4, <1>0 DEF DeleteEntry, KnowsFile, Purging, At, Idle, Exists
  <2>2. k = NoJob
    BY <1>4, <1>0 DEF DeleteEntry, KnowsFile, Purging, Return, Become, TypeInv, TypeOK
  <2>3. /\ entries' = [entries EXCEPT ![j.file] = [status |-> "deleted", content |-> None]]
        /\ UNCHANGED <<rows, posted, live, lost, givenUp>>
    BY <1>4, <1>0, <2>1
    DEF DeleteEntry, KnowsFile, Purging, storeVars, tgVars, TypeInv, TypeOK
  <2>4. JobSound(jobs[a])'
    BY <1>0, <2>1, <2>2, <2>3 DEF JobSound, Purging, Exists, NoJob
  <2>5. ListsSound(jobs[a])'
    BY <1>0, <2>1, <2>2, <2>3 DEF ListsSound, JobSound, Saving, Overwriting, Purging, NoJob
  <2>6. RemovedSound(jobs[a])'
    BY <1>0, <2>1, <2>2, <2>3 DEF RemovedSound, ListsSound, JobSound, Purging, NoJob
  <2>7. RowsOwn'
    BY <1>0, <2>1, <2>2, <2>3 DEF JobSound, RowsOwn, Exists, NoJob
  <2>8. Accounted'
    BY <1>0, <2>1, <2>2, <2>3
    DEF Accounted, ListsSound, RemovedSound, JobSound, Saving, Overwriting, Purging,
        OneActor, NoJob
  <2>9. ASSUME Deduplicate, ReadInv
       PROVE  ReadInv'
    <3>1. /\ DocsSound(j)
          /\ \A g \in Files : Exists(g) /\ g \notin Broken(j)
                              => Covers(rows[g], entries[g].content)
      BY <2>9, ReadAt
    <3>2. DocsSound(jobs[a])'
      BY <1>0, <2>1, <2>2, <2>3, <3>1
      DEF DocsSound, Fresh, HasTwin, Covers, ListsSound, JobSound, RowsOwn, Saving,
          Overwriting, Purging, Exists, NoJob
    <3>3. ASSUME NEW g \in Files, Exists(g)', g \notin Broken(jobs[a])'
          PROVE  Covers(rows[g], entries[g].content)'
      BY <1>0, <2>1, <2>2, <2>3, <3>1, <3>3
      DEF Broken, Covers, ListsSound, JobSound, RowsOwn, Saving, Overwriting, Purging,
          Exists, NoJob
    <3>4. QED
      BY <3>2, <3>3, ReadFrom
  <2>10. QED
    BY <2>4, <2>5, <2>6, <2>7, <2>8, <2>9, BookFrom DEF StepKeeps
<1>5. CASE WriteTrashed(a)
  <2>1. j.pc = "trash" /\ j.file \in Files /\ Exists(j.file) /\ j.hash = entries[j.file].content
    BY <1>5, <1>0
    DEF WriteTrashed, KnowsFile, Purging, UpdateEntry, JobSound, At, Idle, Exists
  <2>2. k = NoJob
    BY <1>5, <1>0
    DEF WriteTrashed, KnowsFile, Purging, UpdateEntry, JobSound, Return, Become, TypeInv,
        TypeOK
  <2>3. /\ entries' = [entries EXCEPT ![j.file] = [status |-> "trashed", content |-> j.hash]]
        /\ UNCHANGED <<rows, posted, live, lost, givenUp>>
    BY <1>5, <1>0, <2>1
    DEF WriteTrashed, KnowsFile, Purging, UpdateEntry, JobSound, storeVars, tgVars,
        TypeInv, TypeOK
  <2>4. JobSound(jobs[a])'
    BY <1>0, <2>1, <2>2, <2>3 DEF JobSound, Purging, Exists, NoJob
  <2>5. ListsSound(jobs[a])'
    BY <1>0, <2>1, <2>2, <2>3 DEF ListsSound, JobSound, Saving, Overwriting, Purging, NoJob
  <2>6. RemovedSound(jobs[a])'
    BY <1>0, <2>1, <2>2, <2>3 DEF RemovedSound, ListsSound, JobSound, Purging, NoJob
  <2>7. RowsOwn'
    BY <1>0, <2>1, <2>2, <2>3 DEF RowsOwn, Exists, NoJob
  <2>8. Accounted'
    BY <1>0, <2>1, <2>2, <2>3
    DEF Accounted, ListsSound, RemovedSound, JobSound, Saving, Overwriting, Purging,
        OneActor, NoJob
  <2>9. ASSUME Deduplicate, ReadInv
       PROVE  ReadInv'
    <3>1. /\ DocsSound(j)
          /\ \A g \in Files : Exists(g) /\ g \notin Broken(j)
                              => Covers(rows[g], entries[g].content)
      BY <2>9, ReadAt
    <3>2. DocsSound(jobs[a])'
      BY <1>0, <2>1, <2>2, <2>3, <3>1
      DEF DocsSound, Fresh, HasTwin, Covers, ListsSound, JobSound, RowsOwn, Saving,
          Overwriting, Purging, Exists, NoJob
    <3>3. ASSUME NEW g \in Files, Exists(g)', g \notin Broken(jobs[a])'
          PROVE  Covers(rows[g], entries[g].content)'
      BY <1>0, <2>1, <2>2, <2>3, <3>1, <3>3
      DEF Broken, Covers, ListsSound, JobSound, RowsOwn, Saving, Overwriting, Purging,
          Exists, NoJob
    <3>4. QED
      BY <3>2, <3>3, ReadFrom
  <2>10. QED
    BY <2>4, <2>5, <2>6, <2>7, <2>8, <2>9, BookFrom DEF StepKeeps
<1>6. CASE WriteRestored(a)
  <2>1. j.pc = "restore" /\ j.file \in Files /\ Exists(j.file) /\ j.hash = entries[j.file].content
    BY <1>6, <1>0
    DEF WriteRestored, KnowsFile, Purging, UpdateEntry, JobSound, At, Idle, Exists
  <2>2. k = NoJob
    BY <1>6, <1>0
    DEF WriteRestored, KnowsFile, Purging, UpdateEntry, JobSound, Return, Become,
        TypeInv, TypeOK
  <2>3. /\ entries' = [entries EXCEPT ![j.file] = [status |-> "listed", content |-> j.hash]]
        /\ UNCHANGED <<rows, posted, live, lost, givenUp>>
    BY <1>6, <1>0, <2>1
    DEF WriteRestored, KnowsFile, Purging, UpdateEntry, JobSound, storeVars, tgVars,
        TypeInv, TypeOK
  <2>4. JobSound(jobs[a])'
    BY <1>0, <2>1, <2>2, <2>3 DEF JobSound, Purging, Exists, NoJob
  <2>5. ListsSound(jobs[a])'
    BY <1>0, <2>1, <2>2, <2>3 DEF ListsSound, JobSound, Saving, Overwriting, Purging, NoJob
  <2>6. RemovedSound(jobs[a])'
    BY <1>0, <2>1, <2>2, <2>3 DEF RemovedSound, ListsSound, JobSound, Purging, NoJob
  <2>7. RowsOwn'
    BY <1>0, <2>1, <2>2, <2>3 DEF RowsOwn, Exists, NoJob
  <2>8. Accounted'
    BY <1>0, <2>1, <2>2, <2>3
    DEF Accounted, ListsSound, RemovedSound, JobSound, Saving, Overwriting, Purging,
        OneActor, NoJob
  <2>9. ASSUME Deduplicate, ReadInv
       PROVE  ReadInv'
    <3>1. /\ DocsSound(j)
          /\ \A g \in Files : Exists(g) /\ g \notin Broken(j)
                              => Covers(rows[g], entries[g].content)
      BY <2>9, ReadAt
    <3>2. DocsSound(jobs[a])'
      BY <1>0, <2>1, <2>2, <2>3, <3>1
      DEF DocsSound, Fresh, HasTwin, Covers, ListsSound, JobSound, RowsOwn, Saving,
          Overwriting, Purging, Exists, NoJob
    <3>3. ASSUME NEW g \in Files, Exists(g)', g \notin Broken(jobs[a])'
          PROVE  Covers(rows[g], entries[g].content)'
      BY <1>0, <2>1, <2>2, <2>3, <3>1, <3>3
      DEF Broken, Covers, ListsSound, JobSound, RowsOwn, Saving, Overwriting, Purging,
          Exists, NoJob
    <3>4. QED
      BY <3>2, <3>3, ReadFrom
  <2>10. QED
    BY <2>4, <2>5, <2>6, <2>7, <2>8, <2>9, BookFrom DEF StepKeeps
<1>7. QED
  BY <1>1, <1>2, <1>3, <1>4, <1>5, <1>6 DEF Manage

\* Copying and linking keep the books.
LEMMA ShareBook ==
    ASSUME OneActor, TypeInv, BookInv, NEW a \in Actors, Share(a)
    PROVE  StepKeeps
<1> DEFINE j == jobs[a]
           k == jobs'[a]
<1>0. /\ j \in Job /\ KnowsFile(j) /\ JobSound(j) /\ ListsSound(j) /\ RemovedSound(j)
      /\ RowsOwn /\ Accounted
      /\ entries \in [Files -> Entry] /\ rows \in [Files -> SUBSET DocIds]
  BY BookAt
<1>1. ASSUME NEW f \in Files, Copy(a, f)
      PROVE  StepKeeps
  <2>1. j.pc = "idle" /\ j = NoJob /\ Exists(f)
    BY <1>1, <1>0 DEF Copy, Read, JobSound, Listed, At, Idle, Exists
  <2>2. /\ k.pc = "copy" /\ k.file = f
        /\ k.hash = entries[f].content /\ k.content = entries[f].content
        /\ k.then = "idle" /\ k.target = None /\ k.old = None
        /\ k.sent = {} /\ k.todo = {} /\ k.doomed = {}
    BY <1>1, <1>0 DEF Copy, Read, JobSound, Listed, Become, NoJob, TypeInv, TypeOK
  <2>3. UNCHANGED <<entries, rows, posted, live, lost, givenUp>>
    BY <1>1, <1>0, <2>1 DEF Copy, Read, JobSound, Listed, storeVars, tgVars, TypeInv, TypeOK
  <2>4. JobSound(jobs[a])'
    BY <1>0, <2>1, <2>2, <2>3 DEF JobSound, Purging, Exists, NoJob
  <2>5. ListsSound(jobs[a])'
    BY <1>0, <2>1, <2>2, <2>3 DEF ListsSound, JobSound, Saving, Overwriting, Purging, NoJob
  <2>6. RemovedSound(jobs[a])'
    BY <1>0, <2>1, <2>2, <2>3 DEF RemovedSound, ListsSound, JobSound, Purging, NoJob
  <2>7. RowsOwn'
    BY <1>0, <2>1, <2>2, <2>3 DEF RowsOwn, Exists, NoJob
  <2>8. Accounted'
    BY <1>0, <2>1, <2>2, <2>3
    DEF Accounted, ListsSound, RemovedSound, JobSound, Saving, Overwriting, Purging,
        OneActor, NoJob
  <2>9. ASSUME Deduplicate, ReadInv
       PROVE  ReadInv'
    <3>1. /\ DocsSound(j)
          /\ \A g \in Files : Exists(g) /\ g \notin Broken(j)
                              => Covers(rows[g], entries[g].content)
      BY <2>9, ReadAt
    <3>2. DocsSound(jobs[a])'
      BY <1>0, <2>1, <2>2, <2>3, <3>1
      DEF DocsSound, Fresh, HasTwin, Covers, ListsSound, JobSound, RowsOwn, Saving,
          Overwriting, Purging, Exists, NoJob
    <3>3. ASSUME NEW g \in Files, Exists(g)', g \notin Broken(jobs[a])'
          PROVE  Covers(rows[g], entries[g].content)'
      BY <1>0, <2>1, <2>2, <2>3, <3>1, <3>3
      DEF Broken, Covers, ListsSound, JobSound, RowsOwn, Saving, Overwriting, Purging,
          Exists, NoJob
    <3>4. QED
      BY <3>2, <3>3, ReadFrom
  <2>10. QED
    BY <2>4, <2>5, <2>6, <2>7, <2>8, <2>9, BookFrom DEF StepKeeps
<1>2. ASSUME NEW f \in Files, Link(a, f)
      PROVE  StepKeeps
  <2>1. j.pc = "idle" /\ j = NoJob /\ Exists(f)
    BY <1>2, <1>0 DEF Link, Read, JobSound, Listed, At, Idle, Exists
  <2>2. /\ k.pc = "link" /\ k.file = f
        /\ k.hash = entries[f].content /\ k.content = entries[f].content
        /\ k.then = "idle" /\ k.target = None /\ k.old = None
        /\ k.sent = {} /\ k.todo = {} /\ k.doomed = {}
    BY <1>2, <1>0 DEF Link, Read, JobSound, Listed, Become, NoJob, TypeInv, TypeOK
  <2>3. UNCHANGED <<entries, rows, posted, live, lost, givenUp>>
    BY <1>2, <1>0, <2>1 DEF Link, Read, JobSound, Listed, storeVars, tgVars, TypeInv, TypeOK
  <2>4. JobSound(jobs[a])'
    BY <1>0, <2>1, <2>2, <2>3 DEF JobSound, Purging, Exists, NoJob
  <2>5. ListsSound(jobs[a])'
    BY <1>0, <2>1, <2>2, <2>3 DEF ListsSound, JobSound, Saving, Overwriting, Purging, NoJob
  <2>6. RemovedSound(jobs[a])'
    BY <1>0, <2>1, <2>2, <2>3 DEF RemovedSound, ListsSound, JobSound, Purging, NoJob
  <2>7. RowsOwn'
    BY <1>0, <2>1, <2>2, <2>3 DEF RowsOwn, Exists, NoJob
  <2>8. Accounted'
    BY <1>0, <2>1, <2>2, <2>3
    DEF Accounted, ListsSound, RemovedSound, JobSound, Saving, Overwriting, Purging,
        OneActor, NoJob
  <2>9. ASSUME Deduplicate, ReadInv
       PROVE  ReadInv'
    <3>1. /\ DocsSound(j)
          /\ \A g \in Files : Exists(g) /\ g \notin Broken(j)
                              => Covers(rows[g], entries[g].content)
      BY <2>9, ReadAt
    <3>2. DocsSound(jobs[a])'
      BY <1>0, <2>1, <2>2, <2>3, <3>1
      DEF DocsSound, Fresh, HasTwin, Covers, ListsSound, JobSound, RowsOwn, Saving,
          Overwriting, Purging, Exists, NoJob
    <3>3. ASSUME NEW g \in Files, Exists(g)', g \notin Broken(jobs[a])'
          PROVE  Covers(rows[g], entries[g].content)'
      BY <1>0, <2>1, <2>2, <2>3, <3>1, <3>3
      DEF Broken, Covers, ListsSound, JobSound, RowsOwn, Saving, Overwriting, Purging,
          Exists, NoJob
    <3>4. QED
      BY <3>2, <3>3, ReadFrom
  <2>10. QED
    BY <2>4, <2>5, <2>6, <2>7, <2>8, <2>9, BookFrom DEF StepKeeps
<1>3. ASSUME NEW f \in Files, CreateCopy(a, f)
      PROVE  StepKeeps
  <2>1. j.pc = "copy" /\ ~Exists(f)
    BY <1>3, <1>0 DEF CreateCopy, CreateEntry, At, Idle, Exists
  <2>2. /\ k.pc = "copyList" /\ k.target = f
        /\ k.then = j.then /\ k.file = j.file /\ k.hash = j.hash
        /\ k.content = j.content /\ k.old = j.old /\ k.sent = j.sent /\ k.todo = j.todo
        /\ k.doomed = j.doomed
    BY <1>3, <1>0 DEF CreateCopy, CreateEntry, Goto, TypeInv, TypeOK, Job
  <2>3. /\ entries' = [entries EXCEPT ![f] = [status |-> "listed", content |-> j.content]]
        /\ UNCHANGED <<rows, posted, live, lost, givenUp>>
    BY <1>3, <1>0, <2>1 DEF CreateCopy, CreateEntry, storeVars, tgVars, TypeInv, TypeOK
  <2>4. JobSound(jobs[a])'
    BY <1>0, <2>1, <2>2, <2>3 DEF JobSound, Purging, Exists
  <2>5. ListsSound(jobs[a])'
    BY <1>0, <2>1, <2>2, <2>3 DEF ListsSound, JobSound, Saving, Overwriting, Purging
  <2>6. RemovedSound(jobs[a])'
    BY <1>0, <2>1, <2>2, <2>3 DEF RemovedSound, ListsSound, JobSound, Purging
  <2>7. RowsOwn'
    BY <1>0, <2>1, <2>2, <2>3 DEF RowsOwn, Exists
  <2>8. Accounted'
    BY <1>0, <2>1, <2>2, <2>3
    DEF Accounted, ListsSound, RemovedSound, JobSound, Saving, Overwriting, Purging,
        OneActor
  <2>9. ASSUME Deduplicate, ReadInv
       PROVE  ReadInv'
    <3>1. /\ DocsSound(j)
          /\ \A g \in Files : Exists(g) /\ g \notin Broken(j)
                              => Covers(rows[g], entries[g].content)
      BY <2>9, ReadAt
    <3>2. DocsSound(jobs[a])'
      BY <1>0, <2>1, <2>2, <2>3, <3>1
      DEF DocsSound, Fresh, HasTwin, Covers, ListsSound, JobSound, RowsOwn, Saving,
          Overwriting, Purging, Exists
    <3>3. ASSUME NEW g \in Files, Exists(g)', g \notin Broken(jobs[a])'
          PROVE  Covers(rows[g], entries[g].content)'
      BY <1>0, <2>1, <2>2, <2>3, <3>1, <3>3
      DEF Broken, Covers, ListsSound, JobSound, RowsOwn, Saving, Overwriting, Purging,
          Exists
    <3>4. QED
      BY <3>2, <3>3, ReadFrom
  <2>10. QED
    BY <2>4, <2>5, <2>6, <2>7, <2>8, <2>9, BookFrom DEF StepKeeps
<1>4. ASSUME NEW f \in Files, CreateLink(a, f)
      PROVE  StepKeeps
  <2>1. j.pc = "linkCreate" /\ ~Exists(f)
    BY <1>4, <1>0 DEF CreateLink, CreateEntry, At, Idle, Exists
  <2>2. /\ k.pc = "rows" /\ k.target = f
        /\ k.then = j.then /\ k.file = j.file /\ k.hash = j.hash
        /\ k.content = j.content /\ k.old = j.old /\ k.sent = j.sent /\ k.todo = j.todo
        /\ k.doomed = j.doomed
    BY <1>4, <1>0 DEF CreateLink, CreateEntry, Goto, TypeInv, TypeOK, Job
  <2>3. /\ entries' = [entries EXCEPT ![f] = [status |-> "listed", content |-> j.content]]
        /\ UNCHANGED <<rows, posted, live, lost, givenUp>>
    BY <1>4, <1>0, <2>1 DEF CreateLink, CreateEntry, storeVars, tgVars, TypeInv, TypeOK
  <2>4. JobSound(jobs[a])'
    BY <1>0, <2>1, <2>2, <2>3 DEF JobSound, Purging, Exists
  <2>5. ListsSound(jobs[a])'
    BY <1>0, <2>1, <2>2, <2>3 DEF ListsSound, JobSound, Saving, Overwriting, Purging
  <2>6. RemovedSound(jobs[a])'
    BY <1>0, <2>1, <2>2, <2>3 DEF RemovedSound, ListsSound, JobSound, Purging
  <2>7. RowsOwn'
    BY <1>0, <2>1, <2>2, <2>3 DEF RowsOwn, Exists
  <2>8. Accounted'
    BY <1>0, <2>1, <2>2, <2>3
    DEF Accounted, ListsSound, RemovedSound, JobSound, Saving, Overwriting, Purging,
        OneActor
  <2>9. ASSUME Deduplicate, ReadInv
       PROVE  ReadInv'
    <3>1. /\ DocsSound(j)
          /\ \A g \in Files : Exists(g) /\ g \notin Broken(j)
                              => Covers(rows[g], entries[g].content)
      BY <2>9, ReadAt
    <3>2. DocsSound(jobs[a])'
      BY <1>0, <2>1, <2>2, <2>3, <3>1
      DEF DocsSound, Fresh, HasTwin, Covers, ListsSound, JobSound, RowsOwn, Saving,
          Overwriting, Purging, Exists
    <3>3. ASSUME NEW g \in Files, Exists(g)', g \notin Broken(jobs[a])'
          PROVE  Covers(rows[g], entries[g].content)'
      BY <1>0, <2>1, <2>2, <2>3, <3>1, <3>3
      DEF Broken, Covers, ListsSound, JobSound, RowsOwn, Saving, Overwriting, Purging,
          Exists
    <3>4. QED
      BY <3>2, <3>3, ReadFrom
  <2>10. QED
    BY <2>4, <2>5, <2>6, <2>7, <2>8, <2>9, BookFrom DEF StepKeeps
<1>5. CASE ListForCopy(a)
  <2>1. j.pc = "copyList" /\ j.file \in Files
    BY <1>5, <1>0 DEF ListForCopy, KnowsFile, Purging, At, Idle, Exists
  <2>2. /\ k.pc = "rows" /\ k.todo = rows[j.file]
        /\ k.then = j.then /\ k.file = j.file /\ k.hash = j.hash /\ k.target = j.target
        /\ k.content = j.content /\ k.old = j.old /\ k.sent = j.sent
        /\ k.doomed = j.doomed
    BY <1>5, <1>0 DEF ListForCopy, KnowsFile, Purging, Goto, TypeInv, TypeOK, Job
  <2>3. UNCHANGED <<entries, rows, posted, live, lost, givenUp>>
    BY <1>5, <1>0, <2>1
    DEF ListForCopy, KnowsFile, Purging, storeVars, tgVars, TypeInv, TypeOK
  <2>4. JobSound(jobs[a])'
    BY <1>0, <2>1, <2>2, <2>3 DEF JobSound, Purging, Exists
  <2>5. ListsSound(jobs[a])'
    BY <1>0, <2>1, <2>2, <2>3
    DEF RowsOwn, ListsSound, JobSound, Saving, Overwriting, Purging
  <2>6. RemovedSound(jobs[a])'
    BY <1>0, <2>1, <2>2, <2>3 DEF RemovedSound, ListsSound, JobSound, Purging
  <2>7. RowsOwn'
    BY <1>0, <2>1, <2>2, <2>3 DEF RowsOwn, Exists
  <2>8. Accounted'
    BY <1>0, <2>1, <2>2, <2>3
    DEF Accounted, ListsSound, RemovedSound, JobSound, Saving, Overwriting, Purging,
        OneActor
  <2>9. ASSUME Deduplicate, ReadInv
       PROVE  ReadInv'
    <3>1. /\ DocsSound(j)
          /\ \A g \in Files : Exists(g) /\ g \notin Broken(j)
                              => Covers(rows[g], entries[g].content)
      BY <2>9, ReadAt
    <3>2. DocsSound(jobs[a])'
      <4>1. j.file \in Files /\ Exists(j.file) /\ j.content = entries[j.file].content
            /\ j.file # j.target
        BY <1>0, <2>1 DEF JobSound, KnowsFile
      <4>2. Covers(rows[j.file], j.content)
        BY <2>1, <3>1, <4>1 DEF Broken, Purging
      <4>3. Covers(jobs[a].todo \cup rows[jobs[a].target], jobs[a].content)'
        BY <2>2, <2>3, <4>2 DEF Covers
      <4>4. ~Saving(jobs[a])'
        BY <2>2 DEF Saving, Overwriting, Purging
      <4>5. QED
        BY <2>2, <4>3, <4>4 DEF DocsSound
    <3>3. ASSUME NEW g \in Files, Exists(g)', g \notin Broken(jobs[a])'
          PROVE  Covers(rows[g], entries[g].content)'
      BY <1>0, <2>1, <2>2, <2>3, <3>1, <3>3
      DEF Broken, Covers, ListsSound, JobSound, RowsOwn, Saving, Overwriting, Purging,
          Exists
    <3>4. QED
      BY <3>2, <3>3, ReadFrom
  <2>10. QED
    BY <2>4, <2>5, <2>6, <2>7, <2>8, <2>9, BookFrom DEF StepKeeps
<1>6. CASE ListForLink(a)
  <2>1. j.pc = "link" /\ j.file \in Files
    BY <1>6, <1>0 DEF ListForLink, KnowsFile, Purging, At, Idle, Exists
  <2>2. /\ k.pc = "linkCreate" /\ k.todo = rows[j.file]
        /\ k.then = j.then /\ k.file = j.file /\ k.hash = j.hash /\ k.target = j.target
        /\ k.content = j.content /\ k.old = j.old /\ k.sent = j.sent
        /\ k.doomed = j.doomed
    BY <1>6, <1>0 DEF ListForLink, KnowsFile, Purging, Goto, TypeInv, TypeOK, Job
  <2>3. UNCHANGED <<entries, rows, posted, live, lost, givenUp>>
    BY <1>6, <1>0, <2>1
    DEF ListForLink, KnowsFile, Purging, storeVars, tgVars, TypeInv, TypeOK
  <2>4. JobSound(jobs[a])'
    BY <1>0, <2>1, <2>2, <2>3 DEF JobSound, Purging, Exists
  <2>5. ListsSound(jobs[a])'
    BY <1>0, <2>1, <2>2, <2>3
    DEF RowsOwn, ListsSound, JobSound, Saving, Overwriting, Purging
  <2>6. RemovedSound(jobs[a])'
    BY <1>0, <2>1, <2>2, <2>3 DEF RemovedSound, ListsSound, JobSound, Purging
  <2>7. RowsOwn'
    BY <1>0, <2>1, <2>2, <2>3 DEF RowsOwn, Exists
  <2>8. Accounted'
    BY <1>0, <2>1, <2>2, <2>3
    DEF Accounted, ListsSound, RemovedSound, JobSound, Saving, Overwriting, Purging,
        OneActor
  <2>9. ASSUME Deduplicate, ReadInv
       PROVE  ReadInv'
    <3>1. /\ DocsSound(j)
          /\ \A g \in Files : Exists(g) /\ g \notin Broken(j)
                              => Covers(rows[g], entries[g].content)
      BY <2>9, ReadAt
    <3>2. DocsSound(jobs[a])'
      <4>1. j.file \in Files /\ Exists(j.file) /\ j.content = entries[j.file].content
        BY <1>0, <2>1 DEF JobSound, KnowsFile
      <4>2. Covers(rows[j.file], j.content)
        BY <2>1, <3>1, <4>1 DEF Broken, Purging
      <4>3. Covers(jobs[a].todo, jobs[a].content)'
        BY <2>2, <2>3, <4>2 DEF Covers
      <4>4. ~Saving(jobs[a])'
        BY <2>2 DEF Saving, Overwriting, Purging
      <4>5. QED
        BY <2>2, <4>3, <4>4 DEF DocsSound
    <3>3. ASSUME NEW g \in Files, Exists(g)', g \notin Broken(jobs[a])'
          PROVE  Covers(rows[g], entries[g].content)'
      BY <1>0, <2>1, <2>2, <2>3, <3>1, <3>3
      DEF Broken, Covers, ListsSound, JobSound, RowsOwn, Saving, Overwriting, Purging,
          Exists
    <3>4. QED
      BY <3>2, <3>3, ReadFrom
  <2>10. QED
    BY <2>4, <2>5, <2>6, <2>7, <2>8, <2>9, BookFrom DEF StepKeeps
<1>7. ASSUME NEW d \in DocIds, AddChunk(a, d)
      PROVE  StepKeeps
  <2>1. j.pc = "rows" /\ d \in j.todo
    BY <1>7, <1>0 DEF AddChunk, At, Idle, Exists
  <2>2. /\ k.todo = j.todo \ {d}
        /\ k.pc = j.pc /\ k.then = j.then /\ k.file = j.file /\ k.hash = j.hash
        /\ k.target = j.target /\ k.content = j.content /\ k.old = j.old
        /\ k.sent = j.sent /\ k.doomed = j.doomed
    BY <1>7, <1>0 DEF AddChunk, Goto, TypeInv, TypeOK, Job
  <2>3. /\ rows' = [rows EXCEPT ![j.target] = @ \cup {d}]
        /\ UNCHANGED <<entries, posted, live, lost, givenUp>>
    BY <1>7, <1>0, <2>1 DEF AddChunk, storeVars, tgVars, TypeInv, TypeOK
  <2>4. JobSound(jobs[a])'
    BY <1>0, <2>1, <2>2, <2>3 DEF JobSound, Purging, Exists
  <2>5. ListsSound(jobs[a])'
    BY <1>0, <2>1, <2>2, <2>3 DEF ListsSound, JobSound, Saving, Overwriting, Purging
  <2>6. RemovedSound(jobs[a])'
    BY <1>0, <2>1, <2>2, <2>3 DEF RemovedSound, ListsSound, JobSound, Purging
  <2>7. RowsOwn'
    <3>1. /\ j.target \in Files /\ Exists(j.target) /\ entries[j.target].content = j.content
          /\ d \in DOMAIN posted /\ posted[d].content = j.content
      BY <1>0, <2>1 DEF JobSound, ListsSound
    <3>2. QED
      BY <1>0, <2>3, <3>1 DEF RowsOwn, Exists
  <2>8. Accounted'
    BY <1>0, <2>1, <2>2, <2>3
    DEF Accounted, ListsSound, RemovedSound, JobSound, Saving, Overwriting, Purging,
        OneActor
  <2>9. ASSUME Deduplicate, ReadInv
       PROVE  ReadInv'
    <3>1. /\ DocsSound(j)
          /\ \A g \in Files : Exists(g) /\ g \notin Broken(j)
                              => Covers(rows[g], entries[g].content)
      BY <2>9, ReadAt
    <3>2. DocsSound(jobs[a])'
      <4>1. Covers(j.todo \cup rows[j.target], j.content)
        BY <2>1, <3>1 DEF DocsSound
      <4>2. j.target \in Files
        BY <1>0, <2>1 DEF JobSound
      <4>3. (jobs[a].todo \cup rows[jobs[a].target])' = j.todo \cup rows[j.target]
        BY <1>0, <2>1, <2>2, <2>3, <4>2
      <4>4. Covers(jobs[a].todo \cup rows[jobs[a].target], jobs[a].content)'
        BY <2>2, <2>3, <4>1, <4>3 DEF Covers
      <4>5. ~Saving(jobs[a])'
        BY <2>1, <2>2 DEF Saving, Overwriting, Purging
      <4>6. QED
        BY <2>1, <2>2, <4>4, <4>5 DEF DocsSound
    <3>3. ASSUME NEW g \in Files, Exists(g)', g \notin Broken(jobs[a])'
          PROVE  Covers(rows[g], entries[g].content)'
      BY <1>0, <2>1, <2>2, <2>3, <3>1, <3>3
      DEF Broken, Covers, ListsSound, JobSound, RowsOwn, Saving, Overwriting, Purging,
          Exists
    <3>4. QED
      BY <3>2, <3>3, ReadFrom
  <2>10. QED
    BY <2>4, <2>5, <2>6, <2>7, <2>8, <2>9, BookFrom DEF StepKeeps
<1>8. CASE RowsWritten(a)
  <2>1. j.pc = "rows" /\ j.todo = {}
    BY <1>8, <1>0 DEF RowsWritten, At, Idle, Exists
  <2>2. k = NoJob
    BY <1>8, <1>0 DEF RowsWritten, Return, Become, TypeInv, TypeOK
  <2>3. UNCHANGED <<entries, rows, posted, live, lost, givenUp>>
    BY <1>8, <1>0, <2>1 DEF RowsWritten, storeVars, tgVars, TypeInv, TypeOK
  <2>4. JobSound(jobs[a])'
    BY <1>0, <2>1, <2>2, <2>3 DEF JobSound, Purging, Exists, NoJob
  <2>5. ListsSound(jobs[a])'
    BY <1>0, <2>1, <2>2, <2>3 DEF ListsSound, JobSound, Saving, Overwriting, Purging, NoJob
  <2>6. RemovedSound(jobs[a])'
    BY <1>0, <2>1, <2>2, <2>3 DEF RemovedSound, ListsSound, JobSound, Purging, NoJob
  <2>7. RowsOwn'
    BY <1>0, <2>1, <2>2, <2>3 DEF RowsOwn, Exists, NoJob
  <2>8. Accounted'
    BY <1>0, <2>1, <2>2, <2>3
    DEF Accounted, ListsSound, RemovedSound, JobSound, Saving, Overwriting, Purging,
        OneActor, NoJob
  <2>9. ASSUME Deduplicate, ReadInv
       PROVE  ReadInv'
    <3>1. /\ DocsSound(j)
          /\ \A g \in Files : Exists(g) /\ g \notin Broken(j)
                              => Covers(rows[g], entries[g].content)
      BY <2>9, ReadAt
    <3>2. DocsSound(jobs[a])'
      BY <1>0, <2>1, <2>2, <2>3, <3>1
      DEF DocsSound, Fresh, HasTwin, Covers, ListsSound, JobSound, RowsOwn, Saving,
          Overwriting, Purging, Exists, NoJob
    <3>3. ASSUME NEW g \in Files, Exists(g)', g \notin Broken(jobs[a])'
          PROVE  Covers(rows[g], entries[g].content)'
      BY <1>0, <2>1, <2>2, <2>3, <3>1, <3>3
      DEF Broken, Covers, DocsSound, ListsSound, JobSound, RowsOwn, Saving, Overwriting,
          Purging, Exists, NoJob
    <3>4. QED
      BY <3>2, <3>3, ReadFrom
  <2>10. QED
    BY <2>4, <2>5, <2>6, <2>7, <2>8, <2>9, BookFrom DEF StepKeeps
<1>9. QED
  BY <1>1, <1>2, <1>3, <1>4, <1>5, <1>6, <1>7, <1>8 DEF Share

\* Init: nothing is stored, so nothing is owed.
LEMMA BookInit ==
    ASSUME Init
    PROVE  BookInv /\ ReadInv
<1>1. \A a \in Actors : jobs[a] = NoJob
  BY DEF Init
<1>2. \A f \in Files : rows[f] = {} /\ ~Exists(f)
  BY DEF Init, Exists
<1>3. BookInv
  BY <1>1, <1>2 DEF BookInv, RowsOwn, Accounted, JobSound, ListsSound, RemovedSound,
                    NoJob, Saving, Overwriting, Purging, Init
<1>4. ReadInv
  BY <1>1, <1>2 DEF ReadInv, AllReadable, DocsSound, NoJob, Saving, Overwriting, Purging
<1>5. QED
  BY <1>3, <1>4

\* Every step keeps the books, and with deduplication the files readable.
LEMMA BookStep ==
    ASSUME OneActor, TypeInv, BookInv, [Next]_vars
    PROVE  StepKeeps
<1>1. CASE UNCHANGED vars
  <2>1. UNCHANGED <<entries, rows, posted, live, lost, givenUp, jobs>>
    BY <1>1 DEF vars, storeVars, tgVars
  <2>2. RowsOwn' /\ Accounted'
    BY <2>1 DEF BookInv, RowsOwn, Accounted, Exists
  <2>3. \A a \in Actors : JobSound(jobs[a])' /\ ListsSound(jobs[a])' /\ RemovedSound(jobs[a])'
    <3>1. \A a \in Actors : JobSound(jobs[a])'
      BY <2>1 DEF BookInv, JobSound, Exists, Purging
    <3>2. \A a \in Actors : ListsSound(jobs[a])'
      BY <2>1 DEF BookInv, ListsSound, Purging, Saving, Overwriting
    <3>3. \A a \in Actors : RemovedSound(jobs[a])'
      BY <2>1 DEF BookInv, RemovedSound
    <3>4. QED
      BY <3>1, <3>2, <3>3
  <2>4. ReadInv => ReadInv'
    BY <2>1 DEF ReadInv, AllReadable, DocsSound, Fresh, HasTwin, Covers, Broken, Exists,
                Purging, Saving, Overwriting
  <2>5. QED
    BY <2>2, <2>3, <2>4 DEF StepKeeps, BookInv
<1>2. ASSUME NEW a \in Actors, Upload(a) \/ PurgeFileData(a) \/ Manage(a) \/ Share(a)
      PROVE  StepKeeps
  BY <1>2, UploadBook, PurgeBook, ManageBook, ShareBook
<1>3. QED
  BY <1>1, <1>2 DEF Next, Rest

\* The parts hold together.
LEMMA BooksKept == ASSUME OneActor PROVE Spec => [](TypeInv /\ BookInv)
<1>1. Init => TypeInv /\ BookInv
  BY TypeInit, BookInit
<1>2. TypeInv /\ BookInv /\ [Next]_vars => TypeInv' /\ BookInv'
  BY TypeStep, BookStep DEF StepKeeps
<1>3. QED
  BY <1>1, <1>2, PTL DEF Spec

\* The files a job is taking apart or putting together are in hand.
LEMMA BrokenInHand ==
    ASSUME BookInv, NEW a \in Actors
    PROVE  Broken(jobs[a]) \subseteq InHand
<1>1. jobs[a].target \in InHand /\ (jobs[a].then # "idle" => jobs[a].file \in InHand)
  BY DEF InHand
<1>2. Purging(jobs[a]) \/ jobs[a].pc \in {"overwrite", "delete"} => jobs[a].then # "idle"
  BY DEF BookInv, JobSound
<1>3. QED
  BY <1>1, <1>2 DEF Broken

\* While requests are served one at a time, no chunk row outlives its entry: whatever
\* the order of uploads, copies, links, purges and refused deletions, a row outside the
\* file being written or deleted belongs to a file that has an entry.
THEOREM RowsHaveFiles == ASSUME OneActor PROVE Spec => []NoRowsWithoutFile
<1>1. BookInv => NoRowsWithoutFile
  BY DEF BookInv, RowsOwn, NoRowsWithoutFile
<1>2. QED
  BY <1>1, BooksKept, PTL

\* While requests are served one at a time, every document on Telegram is named by a
\* file's rows or by the request that works on it, was refused deletion, or was given
\* up by a purge that took it for shared: none is forgotten by deduplication,
\* replacement or cancelling.
THEOREM DocumentsReferenced == ASSUME OneActor PROVE Spec => []EveryDocumentReferenced
<1>1. ASSUME BookInv, NEW d \in live
      PROVE  d \in Named \cup Held \cup lost \cup givenUp
  <2>1. ASSUME NEW f \in Files, d \in rows[f]
        PROVE  d \in Named
    <3>1. Exists(f)
      BY <1>1, <2>1 DEF BookInv, RowsOwn
    <3>2. QED
      BY <2>1, <3>1 DEF Named
  <2>2. ASSUME NEW a \in Actors, d \in jobs[a].sent \/ d \in jobs[a].doomed \/ d \in jobs[a].todo
        PROVE  d \in Held
    BY <2>2 DEF Held
  <2>3. QED
    BY <1>1, <2>1, <2>2 DEF BookInv, Accounted
<1>2. BookInv => EveryDocumentReferenced
  BY <1>1 DEF EveryDocumentReferenced
<1>3. QED
  BY <1>2, BooksKept, PTL

\* With deduplication on and requests served one at a time, a file that has an entry can
\* be read, in the trash too: its rows name, for each part of its content, a document
\* still on Telegram.  Both hypotheses are needed: the runs content_shared and
\* content_race lose a file without them.
THEOREM EveryFileReadable == ASSUME OneActor, Deduplicate PROVE Spec => []FilesReadable
<1>1. Init => TypeInv /\ BookInv /\ ReadInv
  BY TypeInit, BookInit
<1>2. TypeInv /\ BookInv /\ ReadInv /\ [Next]_vars => TypeInv' /\ BookInv' /\ ReadInv'
  BY TypeStep, BookStep DEF StepKeeps
<1>3. BookInv /\ ReadInv => FilesReadable
  BY BrokenInHand DEF ReadInv, AllReadable, Covers, FilesReadable
<1>4. QED
  BY <1>1, <1>2, <1>3, PTL DEF Spec
=============================================================================
