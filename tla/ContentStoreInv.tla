--------------------------- MODULE ContentStoreInv ---------------------------
(***************************************************************************)
(* What the proofs about ContentStore carry through every step, in named   *)
(* parts: what a job knows of the files it works on, which documents a     *)
(* file's rows name, and where every document on Telegram is accounted     *)
(* for.  j is a job.                                                       *)
(***************************************************************************)
EXTENDS ContentStore

Purging(j)     == j.pc \in {"count", "dropShared", "list", "remove", "drop"}
Overwriting(j) == j.then = "overwrite" /\ Purging(j)
Saving(j)      == j.pc \in {"replace", "overwrite"} \/ Overwriting(j)

\* The places where a job works on a file it has looked up.
KnowsFile(j) ==
    j.pc \in {"twin", "delete", "trash", "restore", "copy", "copyList", "link", "linkCreate"}
       \/ Purging(j)
    => j.file \in Files

\* Documents are posted in whole files, so the next one has room.
TypeInv ==
    /\ TypeOK
    /\ \E n \in 0..MaxUploads : Len(posted) = n * Parts
    /\ \A a \in Actors : KnowsFile(jobs[a])

-----------------------------------------------------------------------------
(* One request at a time *)

OneActor == \A a, b \in Actors : a = b

\* What a job has read is still so, and what it has in hand is there.
JobSound(j) ==
    /\ j.pc = "idle" => j = NoJob
    /\ Purging(j) => /\ Exists(j.file) /\ j.hash = entries[j.file].content
                     /\ j.then \in {"overwrite", "delete"}
                     /\ j.then = "overwrite" => j.file = j.old
    /\ j.pc = "overwrite" => /\ j.then = "overwrite" /\ j.file = j.old /\ j.old \in Files
                             /\ Exists(j.old) /\ rows[j.old] = {}
    /\ j.pc = "delete" => j.then = "delete" /\ rows[j.file] = {}
    /\ j.pc \in {"trash", "restore", "copy", "link"}
          => Exists(j.file) /\ j.hash = entries[j.file].content
    /\ j.pc \in {"copy", "copyList", "link", "twin"}
          => Exists(j.file) /\ j.content = entries[j.file].content
    /\ j.pc = "twin" => j.file # j.old
    /\ j.pc \in {"rows", "copyList"}
          => j.target \in Files /\ Exists(j.target) /\ entries[j.target].content = j.content
    /\ j.pc = "copyList" => j.file # j.target

\* Rows belong to files, and name documents of their content.
RowsOwn ==
    \A f \in Files : /\ rows[f] # {} => Exists(f)
                     /\ \A d \in rows[f] : d \in DOMAIN posted
                                           /\ posted[d].content = entries[f].content

\* The lists a job carries from one step to the next.
ListsSound(j) ==
    /\ \A d \in j.todo : d \in DOMAIN posted /\ posted[d].content = j.content
    /\ j.pc \in {"remove", "drop"} => j.doomed = rows[j.file]
    /\ j.pc \notin {"remove", "drop"} => j.doomed = {}
    /\ j.pc = "dedup" => j.sent = j.todo
    /\ Saving(j) => j.sent \subseteq j.todo
    /\ j.pc = "rows" => j.sent \subseteq j.todo \cup rows[j.target]
    /\ (j.pc \notin {"dedup", "rows"} /\ ~Saving(j)) => j.sent = {}
    /\ j.pc \in {"trash", "restore", "copy", "copyList", "link", "delete"}
          \/ (Purging(j) /\ j.then = "delete") => j.todo = {}

\* No row names what an upload has just sent.
Fresh(j) == \A f \in Files : rows[f] \cap j.todo = {}

\* Another file with the same content stays when the old one goes.
HasTwin(j) == \E f \in Files \ {j.old} : Exists(f) /\ entries[f].content = j.content

\* Telegram has every part of content c among docs.
Covers(docs, c) ==
    \A p \in 1..Parts : \E d \in docs \cap live : posted[d] = [content |-> c, part |-> p]

\* The files whose documents some job is taking away or has yet to name.
Broken(j) == (IF j.pc \in {"rows", "copyList"} THEN {j.target} ELSE {})
             \cup (IF Purging(j) \/ j.pc \in {"overwrite", "delete"} THEN {j.file} ELSE {})

\* What is needed to take documents away and to name documents.
DocsSound(j) ==
    /\ j.pc = "dedup" => Fresh(j)
    /\ Saving(j) => Fresh(j) \/ HasTwin(j)
    /\ j.pc \in {"list", "remove", "drop"} =>
          \A f \in Files \ {j.file} : Exists(f) => entries[f].content # j.hash
    /\ j.pc \in {"dedup", "linkCreate"} \/ Saving(j) => Covers(j.todo, j.content)
    /\ j.pc = "rows" => Covers(j.todo \cup rows[j.target], j.content)

\* Every file no job has in hand can be read.
AllReadable ==
    \A f \in Files : Exists(f) /\ (\A a \in Actors : f \notin Broken(jobs[a]))
       => Covers(rows[f], entries[f].content)

\* What no list names any more is gone from Telegram or refused to go.
RemovedSound(j) ==
    /\ j.pc = "drop" => j.doomed \cap live \subseteq lost
    /\ j.pc = "twin" => j.todo \cap live \subseteq lost

\* A document on Telegram is in some row or on some list.
Accounted ==
    \A d \in live :
        \/ \E f \in Files : d \in rows[f]
        \/ \E a \in Actors : d \in jobs[a].sent \/ d \in jobs[a].doomed \/ d \in jobs[a].todo
        \/ d \in lost \/ d \in givenUp

BookInv ==
    /\ RowsOwn
    /\ Accounted
    /\ \A a \in Actors : JobSound(jobs[a]) /\ ListsSound(jobs[a]) /\ RemovedSound(jobs[a])

ReadInv ==
    /\ AllReadable
    /\ \A a \in Actors : DocsSound(jobs[a])
=============================================================================
