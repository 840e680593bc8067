-------------------------- MODULE UploadRegistryInv --------------------------
(***************************************************************************)
(* What the proofs about UploadRegistry carry through every step, in named *)
(* parts: where an actor may stand and with which session, whom the        *)
(* documents on Telegram belong to, and which bytes a session has.  a and  *)
(* b are actors, s is a session, e and f are entries.                      *)
(***************************************************************************)
EXTENDS UploadRegistry

\* Where only tabs, only WebDAV requests, or either may stand.
WebPcs  == {"init", "send", "ask", "mismatch", "again"}
PutPcs  == {"claim", "begin", "reopen", "digest", "verify", "open", "check"}
BothPcs == {"settle", "mark", "recv", "complete", "finish"}
EndPcs  == {"off", "over"}
CancelPcs == {"cancel", "clean", "erase"}

\* There is no session yet; there is one for sure; a request feeds it.
Before  == EndPcs \cup {"init", "claim", "begin"}
Feeding == {"settle", "reopen", "mismatch", "mark", "digest", "verify", "open", "recv", "again",
            "check", "finish"}
Working == Feeding \cup {"send", "ask", "complete"}

SessRec(x) ==
    x = [state |-> x.state, cancelled |-> x.cancelled, busy |-> x.busy, idle |-> x.idle,
         data |-> x.data, kept |-> x.kept, name |-> x.name, replace |-> x.replace,
         owns |-> x.owns, lock |-> x.lock]

SessionFields(x) ==
    /\ SessRec(x)
    /\ x.state \in States /\ x.cancelled \in BOOLEAN /\ x.busy \in BOOLEAN /\ x.idle \in BOOLEAN
    /\ x.data \in Seq(Versions \X Nat) /\ x.kept \in 0..Len(x.data)
    /\ x.owns \in BOOLEAN /\ x.lock \in Actors \cup {None}

ClientRec(x) ==
    x = [pc |-> x.pc, s |-> x.s, v |-> x.v, pos |-> x.pos, left |-> x.left, want |-> x.want,
         tries |-> x.tries]

\* Where actor a may stand.
PcsOf(a) == EndPcs \cup CancelPcs
            \cup (IF a \notin Clients THEN {} ELSE BothPcs \cup (IF a \in Web THEN WebPcs ELSE PutPcs))

ClientFields(a, x) ==
    /\ ClientRec(x)
    /\ x.pc \in PcsOf(a) /\ x.s \in Sessions \cup {None} /\ x.pos \in Nat /\ x.left \in Int
    /\ x.pc \in Before => x.s = None
    /\ x.pc \in Feeding \cup {"clean", "erase"} => x.s \in Sessions
    /\ a \in Clients /\ x.pc \notin EndPcs => x.v \in cast.versions

EntryRec(e) == e = [id |-> e.id, name |-> e.name, data |-> e.data, blob |-> e.blob]

\* Holds whoever takes part.
Shape ==
    /\ sess = [s \in Sessions |-> sess[s]] /\ \A s \in Sessions : SessionFields(sess[s])
    /\ client = [a \in Actors |-> client[a]] /\ \A a \in Actors : ClientFields(a, client[a])
    /\ sessions \subseteq Sessions /\ stale \subseteq Sessions /\ blobs \subseteq Sessions
    /\ orphans \subseteq Sessions /\ cast \in Casts /\ \A e \in entries : EntryRec(e)

-----------------------------------------------------------------------------
(* One client at a time *)

Apart == \A c \in Casts : ~c.together

Alone == \A a, b \in Clients : a # b => client[a].pc \in EndPcs \/ client[b].pc \in EndPcs

\* An id not dealt out yet appears nowhere.
Unused ==
    \A s \in Sessions : sess[s].state = "none" =>
        s \notin sessions \cup blobs \cup stale /\ \A a \in Actors : client[a].s # s

\* Somebody is about to clean the session up.
Cleaner(s) == \E a \in Actors : At(a, "clean") /\ client[a].s = s

\* Registered and not saved, or cancelled.
Unsaved(s) == sess[s].cancelled \/ (sess[s].state # "Completed" /\ s \in sessions)

\* What the session of actor a is when a works on it, cleans it up or lets it go.
WorkAt(a) ==
    LET x == client[a] IN
    /\ x.pc \in Working /\ x.s \in Sessions => Unsaved(x.s)
    /\ x.pc = "clean" => sess[x.s].cancelled
    /\ x.pc = "erase" => \/ sess[x.s].cancelled
                         \/ a \in Clients /\ sess[x.s].state = "Completed" /\ ~sess[x.s].owns
    /\ x.pc = "finish" => x.s \notin orphans /\ \A e \in entries : e.blob # x.s

WorkInv == \A a \in Actors : WorkAt(a)

\* Documents of a session are there, and go with it.
OwnersInv ==
    \A s \in Sessions : sess[s].owns =>
        /\ s \in blobs /\ s \notin orphans
        /\ s \in sessions \/ Cleaner(s)
        /\ sess[s].cancelled => Cleaner(s)

\* Documents a crash made nobody's stay so; those of a file are no session's.
FilesInv ==
    /\ \A s \in orphans : s \in blobs /\ sess[s].cancelled
    /\ \A e \in entries : /\ e.blob \in blobs /\ e.blob \notin orphans /\ ~sess[e.blob].owns
                          /\ sess[e.blob].cancelled \/ sess[e.blob].state = "Completed"
    /\ \A e, f \in entries : e.data = f.data <=> e.blob = f.blob
    /\ \A s \in blobs : s \in orphans \/ sess[s].owns \/ \E e \in entries : e.blob = s

HoldInv == Alone /\ Unused /\ WorkInv /\ OwnersInv /\ FilesInv

-----------------------------------------------------------------------------
(* The bytes *)

\* A tab does not come back with another file.
TabsKeepFile ==
    \A c \in Casts : c.clients \cap Web = {} \/ \A v, w \in c.versions : v = w

\* The beginning of version v.
Begins(data, v) == Len(data) <= Blocks /\ \A i \in 1..Len(data) : data[i] = <<v, i>>

\* What a live session has is the beginning of one version.
DataInv ==
    \A s \in Sessions : ~sess[s].cancelled =>
        sess[s].data = <<>> \/ \E v \in cast.versions : Begins(sess[s].data, v)

\* A request that ends gives the session back, so whoever claimed it is still there,
\* and a request that found none to claim finds none to resume.
ClaimsInv ==
    \A s \in Sessions : sess[s].busy /\ ~sess[s].cancelled
       => \E a \in Clients \ Web : client[a].s = s

FreshStarts == \A a \in Clients : (At(a, "begin") => NothingToResume) /\ ~At(a, "reopen")

\* Where a client stands in its file is where the session stands.
PlaceOf(a) ==
    LET x == client[a] IN
    /\ x.pc \in {"ask", "mismatch", "again"} => x.pos < Blocks
    /\ At(a, "send") /\ x.pos >= Blocks => Len(Of(a).data) = Blocks
    /\ At(a, "complete") => Len(Of(a).data) = Blocks
    /\ At(a, "open") => Of(a).data = <<>>
    /\ x.pc \in {"digest", "verify", "recv"} => x.pos = Len(Of(a).data)
    /\ At(a, "verify") => x.want = Of(a).data
    /\ At(a, "recv") => /\ x.pos < Blocks /\ Begins(Of(a).data, x.v)
                        /\ a \in Web => x.left >= 1 /\ x.pos + x.left <= Blocks

PlaceAt(a) ==
    /\ client[a].s \in Sessions /\ ~Of(a).cancelled => PlaceOf(a)
    /\ At(a, "finish") => Len(Of(a).data) = Blocks /\ \E v \in cast.versions : Begins(Of(a).data, v)
    /\ client[a].pc \notin EndPcs => a \in cast.clients

PlaceInv == \A a \in Clients : PlaceAt(a)

WholeFiles == \A e \in entries : \E v \in Versions : e.data = FileOf(v)

BytesInv == DataInv /\ ClaimsInv /\ FreshStarts /\ PlaceInv /\ WholeFiles
=============================================================================
