--------------------------- MODULE UploadRegistry ---------------------------
(***************************************************************************)
(* storage::UploadManager and its clients: the registry of upload sessions *)
(* (sessions_), the routes that feed them (http/api_routes.cpp,            *)
(* http/webdav.cpp), the upload loop of the browser (web/app.js), the      *)
(* sweeper, a crash and a shutdown.                                        *)
(*                                                                         *)
(* All clients here upload a file of one size to one path for one owner,   *)
(* the only uploads that can meet: begin() and claimResumable() look for a *)
(* session with the same owner, path and size.  The bytes may differ.      *)
(*                                                                         *)
(* A session is in the abstract form of DurableUpload: what it accepted    *)
(* (data) and how much of that is on Telegram for good (kept).  A failure  *)
(* steps back to a position between the two, as ResumePointIsSound of      *)
(* UploadSession says a parallel session does.  A call that takes the      *)
(* session's mutex is one action, except complete(), which holds it over   *)
(* two (lock).                                                             *)
(*                                                                         *)
(* Not represented: the table of upload records (written, never read back  *)
(* for a decision), progress figures, requests to other paths.             *)
(***************************************************************************)
EXTENDS Integers, Sequences, FiniteSets

CONSTANTS
    Clients,     \* browser tabs and WebDAV requests
    Web,         \* those that are tabs
    Versions,    \* the contents their file may have
    Casts,       \* who takes part: records [clients, versions, together, tries,
                 \* quota (what quotaBytes leaves, in files of this size)]
    Sessions,    \* ids crypto::randomHex() deals out
    Blocks,      \* the size of the file, in blocks of one body.read()
    Slice,       \* blocks in one PUT of the browser (browserChunkSize)
    Policies,    \* what a tab may answer when asked about duplicates
    None,
    MaxFaults,   \* BOUND: failing calls
    MaxCrashes   \* BOUND: crashes and shutdowns

ASSUME RegistryAssumption ==
    /\ Web \subseteq Clients /\ "sweeper" \notin Clients
    /\ Blocks \in Nat \ {0} /\ Slice \in Nat \ {0}
    /\ \A c \in Casts : /\ c.clients \subseteq Clients /\ c.versions \subseteq Versions
                        /\ c.together \in BOOLEAN /\ c.tries \in Nat /\ c.quota \in Nat
    /\ None \notin Sessions

VARIABLES
    sess,      \* every session object, by id
    sessions,  \* sessions_: the ids registered
    entries,   \* rows of the database for files in the target folder
    blobs,     \* sessions whose documents are on Telegram
    orphans,   \* those a crash made nobody's
    client,    \* where each request, and the loop behind it, stands
    stale,     \* reapStale(): sessions it still has to cancel
    cast,      \* who takes part in this behaviour: never changes
    faults, crashes

vars == <<sess, sessions, entries, blobs, orphans, client, stale, cast, faults, crashes>>
storeVars == <<entries, blobs, orphans>>
worldVars == <<stale, cast, faults, crashes>>

-----------------------------------------------------------------------------
(* Values *)

Sweeper == "sweeper"
Actors  == Clients \cup {Sweeper}

\* The file as a client holding version v sends it.
FileOf(v)    == [i \in 1..Blocks |-> <<v, i>>]
Prefix(q, n) == SubSeq(q, 1, n)
Least(a, b)  == IF a <= b THEN a ELSE b

States == {"none", "Preparing", "Receiving", "Flushing", "Completed", "Cancelled", "Failed"}

FreshSession == [state |-> "none", cancelled |-> FALSE, busy |-> FALSE, idle |-> FALSE,
                 data |-> <<>>, kept |-> 0, name |-> 1, replace |-> 0,
                 owns |-> FALSE, lock |-> None]

\* A session object nobody refers to any more.
Dead == [FreshSession EXCEPT !.state = "Cancelled", !.cancelled = TRUE]

FreshClient == [pc |-> "off", s |-> None, v |-> CHOOSE v \in Versions : TRUE,
                pos |-> 0, left |-> 0, want |-> <<>>, tries |-> 0]

RegTypeOK ==
    /\ \A s \in Sessions :
          /\ sess[s].state \in States
          /\ sess[s].kept \in 0..Len(sess[s].data)
          /\ sess[s].lock \in Actors \cup {None}
          /\ sess[s].owns => s \in blobs
    /\ \A s \in sessions : sess[s].state # "none"
    /\ cast \in Casts /\ blobs \subseteq Sessions /\ orphans \subseteq blobs /\ stale \subseteq Sessions
    /\ \A a \in Actors : client[a].s \in Sessions \cup {None}

Fault == faults < MaxFaults /\ faults' = faults + 1

At(a, pc) == client[a].pc = pc
Of(a)     == sess[client[a].s]
Change(a, r) == sess' = [sess EXCEPT ![client[a].s] = r]

\* Nobody holds the mutex of the session a is at.
Free(a) == Of(a).lock = None

\* Where the request of client a stands next.
Step(a, r)  == client' = [client EXCEPT ![a] = r]
Goto(a, pc) == Step(a, [client[a] EXCEPT !.pc = pc])

Over(a) == Step(a, [FreshClient EXCEPT !.pc = "over", !.tries = client[a].tries])

\* A WebDAV request that ends returns the session, claimed or not (TraQuyen).
Leave(a) ==
    /\ Over(a)
    /\ sess' = [s \in Sessions |-> IF s = client[a].s /\ a \notin Web
                                   THEN [sess[s] EXCEPT !.busy = FALSE] ELSE sess[s]]

\* After an error a tab asks where the server stands; a WebDAV request is over.
AnswerError(a) ==
    IF a \in Web THEN Goto(a, "ask") /\ UNCHANGED sess ELSE Leave(a)

-----------------------------------------------------------------------------
(* Opening an upload *)

\* Unless clients meet on purpose, one begins when the others are done.
Quiet == cast.together \/ \A c \in Clients : client[c].pc \in {"off", "over"}

\* Someone uploads the file, with the content it has now.
Start(a) ==
    /\ a \in cast.clients /\ client[a].pc \in {"off", "over"}
    /\ client[a].tries < cast.tries /\ Quiet
    /\ \E v \in cast.versions :
          Step(a, [FreshClient EXCEPT !.pc = IF a \in Web THEN "init" ELSE "claim",
                                      !.v = v, !.tries = client[a].tries + 1])
    /\ UNCHANGED <<sess, sessions, storeVars, worldVars>>

\* The session of an unfinished upload of the same file.
Resumable(s) ==
    /\ s \in sessions /\ ~sess[s].cancelled /\ sess[s].state = "Receiving"
    /\ Len(sess[s].data) \in 1..(Blocks - 1)

CanClaim(s) == Resumable(s) /\ ~sess[s].busy

\* claimResumable(), under the manager's mutex.
ClaimResumable(a) ==
    /\ At(a, "claim")
    /\ \/ \E s \in Sessions :
             /\ CanClaim(s)
             /\ sess' = [sess EXCEPT ![s].busy = TRUE]
             /\ Step(a, [client[a] EXCEPT !.pc = "settle", !.s = s])
       \/ /\ \A s \in Sessions : ~CanClaim(s)
          /\ Goto(a, "begin") /\ UNCHANGED sess
    /\ UNCHANGED <<sessions, storeVars, worldVars>>

\* usageByUser() counts what is saved, not what is being uploaded; WebDAV never asks.
WithinQuota(a) == Cardinality(entries) + 1 <= cast.quota
MayBegin(a) == At(a, "begin") \/ (At(a, "init") /\ WithinQuota(a))

OverQuota(a) ==
    /\ At(a, "init") /\ ~WithinQuota(a)
    /\ Over(a)
    /\ UNCHANGED <<sess, sessions, storeVars, worldVars>>

\* begin() takes up an unfinished session, whoever claimed it.
BeginResumes(a) ==
    /\ MayBegin(a)
    /\ \E s \in Sessions :
          /\ Resumable(s)
          /\ Step(a, [client[a] EXCEPT !.s = s,
                          !.pc = IF a \in Web THEN "settle" ELSE "reopen"])
    /\ UNCHANGED <<sess, sessions, storeVars, worldVars>>

NothingToResume == \A s \in Sessions : ~Resumable(s)

Named(n) == {e \in entries : e.name = n}

\* findDuplicates(): a tab sends a quick hash, a WebDAV request does not.
Duplicates(a) ==
    Named(1) \cup {e \in entries : a \in Web /\ e.data = FileOf(client[a].v)}

\* makeUniqueName(): the first number that is free.
FreeName == CHOOSE n \in 1..(Cardinality(entries) + 1) :
               Named(n) = {} /\ \A m \in 1..(n - 1) : Named(m) # {}

\* The file to replace: one with the name, else the first with the content.
ToReplace(a) ==
    (CHOOSE e \in Duplicates(a) : Named(1) # {} => e.name = 1).id

\* begin() makes a session and registers it.
NewSession(a, name, replace) ==
    LET unused == {s \in Sessions : sess[s] = FreshSession}
        s == CHOOSE u \in unused : TRUE
    IN  /\ unused # {}
        /\ sess' = [sess EXCEPT ![s] = [FreshSession EXCEPT
                        !.state = "Preparing", !.name = name, !.replace = replace]]
        /\ sessions' = sessions \cup {s}
        /\ Step(a, [client[a] EXCEPT !.s = s, !.pos = 0,
                        !.pc = IF a \in Web THEN "send" ELSE "open"])
        /\ UNCHANGED <<storeVars, worldVars>>

BeginNew(a) ==
    /\ MayBegin(a) /\ NothingToResume
    /\ LET dups == Duplicates(a) IN
       \/ dups = {} /\ NewSession(a, 1, 0)
       \/ /\ dups # {} /\ (a \in Web => "replace" \in Policies)
          /\ NewSession(a, 1, ToReplace(a))
       \/ /\ dups # {} /\ a \in Web /\ "keep" \in Policies
          /\ NewSession(a, FreeName, 0)

\* "Skip", and "Ask" until the user has chosen: nothing is begun.
BeginSkips(a) ==
    /\ At(a, "init") /\ WithinQuota(a) /\ NothingToResume /\ Duplicates(a) # {}
    /\ Over(a)
    /\ UNCHANGED <<sess, sessions, storeVars, worldVars>>

\* LinkExisting: a new entry with the rows of a file found; one found for its
\* content is preferred to one with the same name.
BeginLinks(a) ==
    /\ At(a, "init") /\ WithinQuota(a) /\ NothingToResume /\ "link" \in Policies
    /\ \E e \in Duplicates(a) :
          /\ (\E d \in Duplicates(a) : d.data = FileOf(client[a].v))
                => e.data = FileOf(client[a].v)
          /\ entries' = entries \cup {[e EXCEPT !.id = Cardinality(entries) + 1,
                                                !.name = FreeName]}
    /\ Over(a)
    /\ UNCHANGED <<sess, sessions, blobs, orphans, worldVars>>

-----------------------------------------------------------------------------
(* Settling where to resume *)

\* WRONG ON PURPOSE: the mark on Telegram stays ahead of the bytes accepted.
StepBackData(r) == {[r EXCEPT !.data = <<>>]}

\* Bytes that did not reach Telegram are given up.
StepBack(r) == {[r EXCEPT !.data = Prefix(@, k), !.kept = k] : k \in r.kept..Len(r.data)}

\* chotSoTruocKhiNoi(): wait for what flies; a failure steps the mark back.
Settle(a) ==
    /\ client[a].pc \in {"settle", "reopen", "mismatch"} /\ Free(a)
    /\ \/ UNCHANGED <<sess, faults>>
       \/ Fault /\ \E r \in StepBack(Of(a)) : Change(a, r)
    /\ Goto(a, CASE At(a, "settle") -> "mark" [] At(a, "reopen") -> "open"
                 [] At(a, "mismatch") -> "again")
    /\ UNCHANGED <<sessions, storeVars, stale, cast, crashes>>

\* receivedBytes(), read without the mutex.
ReadMark(a) ==
    /\ At(a, "mark")
    /\ Step(a, [client[a] EXCEPT !.pos = Len(Of(a).data),
                                 !.pc = IF a \in Web THEN "send" ELSE "digest"])
    /\ UNCHANGED <<sess, sessions, storeVars, worldVars>>

\* digestSoFar(), under the mutex: the hash stands for the bytes.
ReadDigest(a) ==
    /\ At(a, "digest") /\ Free(a)
    /\ Step(a, [client[a] EXCEPT !.want = Of(a).data, !.pc = "verify"])
    /\ UNCHANGED <<sess, sessions, storeVars, worldVars>>

\* WRONG ON PURPOSE: any prefix will do.
AnyPrefix(a) == client[a].pos <= Blocks

\* The bytes the client sends again are those the session has.
PrefixMatches(a) ==
    /\ client[a].pos <= Blocks
    /\ client[a].pos > 0 => Prefix(FileOf(client[a].v), client[a].pos) = client[a].want

\* The prefix is received again and compared; a mismatch, or a file shorter than
\* what the session has, cancels the session.
VerifyPrefix(a) ==
    /\ At(a, "verify")
    /\ Goto(a, IF ~PrefixMatches(a) THEN "cancel"
               ELSE IF client[a].pos = Blocks THEN "check" ELSE "recv")
    /\ UNCHANGED <<sess, sessions, storeVars, worldVars>>

\* After begin() a PUT looks the session up and claims it without looking at the answer.
Open(a) ==
    /\ At(a, "open")
    /\ \/ /\ client[a].s \in sessions
          /\ Change(a, [Of(a) EXCEPT !.busy = TRUE])
          /\ Step(a, [client[a] EXCEPT !.pc = "recv", !.pos = 0])
       \/ client[a].s \notin sessions /\ Over(a) /\ UNCHANGED sess
    /\ UNCHANGED <<sessions, storeVars, worldVars>>

-----------------------------------------------------------------------------
(* Sending *)

Offered(a) == Least(Slice, Blocks - client[a].pos)

\* The tab's next PUT: find(), then X-Upload-Offset against receivedBytes().
PutRoute(a) ==
    /\ At(a, "send") /\ client[a].pos < Blocks
    /\ \/ client[a].s \notin sessions /\ Goto(a, "cancel")
       \/ /\ client[a].s \in sessions /\ client[a].pos = Len(Of(a).data)
          /\ Step(a, [client[a] EXCEPT !.pc = "recv", !.left = Offered(a)])
       \/ /\ client[a].s \in sessions /\ client[a].pos # Len(Of(a).data)
          /\ Goto(a, "mismatch")
    /\ UNCHANGED <<sess, sessions, storeVars, worldVars>>

\* The second look, after settling: still different is 409.
PutRouteAgain(a) ==
    /\ At(a, "again")
    /\ IF client[a].pos = Len(Of(a).data)
       THEN Step(a, [client[a] EXCEPT !.pc = "recv", !.left = Offered(a)])
       ELSE Goto(a, "ask")
    /\ UNCHANGED <<sess, sessions, storeVars, worldVars>>

Accepts(r) == ~r.cancelled /\ r.state \notin {"Failed", "Cancelled"}

\* receive() of one block; chunks it completes may reach Telegram.
Receive(a) ==
    /\ At(a, "recv") /\ Free(a) /\ Accepts(Of(a))
    /\ LET me == Of(a)
           data == Append(me.data, <<client[a].v, client[a].pos + 1>>)
           next == client[a].pos + 1
           last == IF a \in Web THEN client[a].left = 1 ELSE next = Blocks
       IN  /\ \E k \in {me.kept, Len(data)} :
                 /\ Change(a, [me EXCEPT !.data = data, !.kept = k, !.state = "Receiving",
                                         !.idle = FALSE, !.owns = me.owns \/ k > me.kept])
                 /\ blobs' = IF k > me.kept THEN blobs \cup {client[a].s} ELSE blobs
           /\ Step(a, [client[a] EXCEPT !.pos = next,
                           !.left = IF a \in Web THEN @ - 1 ELSE 0,
                           !.pc = IF ~last THEN "recv"
                                  ELSE IF a \in Web THEN "send" ELSE "check"])
    /\ UNCHANGED <<sessions, entries, orphans, worldVars>>

\* The session refuses: 503, and it stays registered.
ReceiveRefused(a) ==
    /\ At(a, "recv") /\ ~Accepts(Of(a)) /\ (Of(a).cancelled \/ Free(a))
    /\ AnswerError(a)
    /\ UNCHANGED <<sessions, storeVars, worldVars>>

\* ghiNhanLoi() in receive(): a transient error leaves the session open.
ReceiveFails(a) ==
    /\ At(a, "recv") /\ Free(a) /\ Accepts(Of(a)) /\ Fault
    /\ \E r \in StepBack(Of(a)), state \in {"Receiving", "Failed"} :
          Change(a, [r EXCEPT !.state = state, !.idle = FALSE,
                              !.busy = IF a \in Web THEN @ ELSE FALSE])
    /\ IF a \in Web THEN Goto(a, "ask") ELSE Over(a)
    /\ UNCHANGED <<sessions, storeVars, stale, cast, crashes>>

\* The connection breaks between two blocks, or a tab is closed.
Cut(a) ==
    /\ At(a, "recv") /\ Fault /\ AnswerError(a)
    /\ UNCHANGED <<sessions, storeVars, stale, cast, crashes>>

CloseTab(a) ==
    /\ client[a].pc \in {"send", "ask"} /\ Fault /\ Over(a)
    /\ UNCHANGED <<sess, sessions, storeVars, stale, cast, crashes>>

\* hoiViTriTaiLen(): go on from where the server stands, or, while the network is
\* down, from where the tab was; gone is an error, and so is one failure too many.
AskPosition(a) ==
    /\ At(a, "ask")
    /\ \/ /\ client[a].s \in sessions
          /\ Step(a, [client[a] EXCEPT !.pc = "send", !.pos = Len(Of(a).data)])
       \/ Goto(a, "send")
       \/ Goto(a, "cancel")
    /\ UNCHANGED <<sess, sessions, storeVars, worldVars>>

\* The tab counts what it sent; WebDAV looks at receivedBytes().
SentAll(a) == a \in Web \/ Len(Of(a).data) = Blocks

LastCheck(a) ==
    /\ At(a, "check") \/ (At(a, "send") /\ client[a].pos >= Blocks)
    /\ IF SentAll(a) THEN Goto(a, "complete") /\ UNCHANGED sess ELSE Leave(a)
    /\ UNCHANGED <<sessions, storeVars, worldVars>>

-----------------------------------------------------------------------------
(* complete() *)

\* An error of complete(): the browser cancels, a WebDAV client hears 500.
CompleteError(a) == IF a \in Web THEN Goto(a, "cancel") ELSE Over(a)

MayComplete(r) == ~r.cancelled

\* UploadManager::complete() finds the session, UploadSession::complete() takes its mutex.
CompleteEnter(a) ==
    /\ At(a, "complete")
    /\ \/ /\ client[a].s \in sessions /\ Free(a) /\ MayComplete(Of(a))
          /\ Change(a, [Of(a) EXCEPT !.state = "Flushing", !.lock = a])
          /\ Goto(a, "finish")
       \/ /\ client[a].s \notin sessions \/ (Free(a) /\ ~MayComplete(Of(a)))
          /\ Change(a, [Of(a) EXCEPT !.busy = IF a \in Web THEN @ ELSE FALSE])
          /\ CompleteError(a)
    /\ UNCHANGED <<sessions, storeVars, worldVars>>

\* purgeFileData(): documents of a file nobody else has the content of.
Purged(e) == IF \E f \in entries : f.id # e.id /\ f.data = e.data THEN {} ELSE {e.blob}

\* The file is saved: with the documents of another file of the same content if
\* there is one, in the place of the file to be replaced if that still exists.
CompleteSaves(a) ==
    /\ At(a, "finish")
    /\ LET me    == Of(a)
           twins == {e \in entries : e.data = me.data /\ e.id # me.replace}
           old   == {e \in entries : e.id = me.replace}
           new   == [id   |-> IF old = {} THEN Cardinality(entries) + 1 ELSE me.replace,
                     name |-> me.name, data |-> me.data,
                     blob |-> IF twins = {} THEN client[a].s
                              ELSE (CHOOSE e \in twins : TRUE).blob]
       IN  /\ entries' = (entries \ old) \cup {new}
           /\ blobs' = ((IF twins = {} THEN blobs \cup {client[a].s}
                         ELSE IF me.owns THEN blobs \ {client[a].s} ELSE blobs)
                        \ UNION {Purged(e) : e \in old})
           /\ Change(a, [me EXCEPT !.state = "Completed", !.kept = Len(me.data),
                                   !.owns = FALSE, !.lock = None])
    /\ Goto(a, "erase")
    /\ UNCHANGED <<sessions, orphans, worldVars>>

\* WRONG ON PURPOSE: the session is unregistered whatever complete() answered.
EraseAnyway(s) == sessions \ {s}

\* complete() unregisters the session only when the file is saved.
AfterFailure(s) == sessions

CompleteFails(a) ==
    /\ At(a, "finish") /\ Fault
    /\ \E r \in StepBack(Of(a)), state \in {"Receiving", "Failed"} :
          Change(a, [r EXCEPT !.state = state, !.lock = None,
                              !.busy = IF a \in Web THEN @ ELSE FALSE])
    /\ sessions' = AfterFailure(client[a].s)
    /\ CompleteError(a)
    /\ UNCHANGED <<storeVars, stale, cast, crashes>>

-----------------------------------------------------------------------------
(* cancel(), by a client or by the sweeper *)

Cancel(a) ==
    /\ At(a, "cancel")
    /\ \/ /\ client[a].s \in sessions /\ ~Of(a).cancelled
          /\ Change(a, [Of(a) EXCEPT !.cancelled = TRUE]) /\ Goto(a, "clean")
       \/ /\ client[a].s \in sessions /\ Of(a).cancelled
          /\ Goto(a, "erase") /\ UNCHANGED sess
       \/ client[a].s \notin sessions /\ Leave(a)
    /\ UNCHANGED <<sessions, storeVars, worldVars>>

\* WRONG ON PURPOSE: the documents stay.
CleanNothing(s) == {}

\* rollback() removes the documents that still belong to the session.
Rollback(s) == IF sess[s].owns THEN {s} ELSE {}

CancelCleans(a) ==
    /\ At(a, "clean") /\ Free(a)
    /\ blobs' = blobs \ Rollback(client[a].s)
    /\ Change(a, [Of(a) EXCEPT !.state = "Cancelled", !.owns = FALSE])
    /\ Goto(a, "erase")
    /\ UNCHANGED <<sessions, entries, orphans, worldVars>>

\* Both complete() and cancel() end by unregistering the session; the object dies with
\* its last reference.
Erase(a) ==
    /\ At(a, "erase")
    /\ sessions' = sessions \ {client[a].s}
    /\ IF \E b \in Actors \ {a} : client[b].s = client[a].s THEN Leave(a)
       ELSE Over(a) /\ Change(a, Dead)
    /\ UNCHANGED <<storeVars, worldVars>>

\* No byte for uploadIdleTimeoutSeconds.
TimePasses(s) ==
    /\ s \in sessions /\ ~sess[s].idle
    /\ sess' = [sess EXCEPT ![s].idle = TRUE]
    /\ UNCHANGED <<sessions, storeVars, client, worldVars>>

\* WRONG ON PURPOSE: only sessions that still receive are looked at.
IdleReceiving == {s \in sessions : sess[s].idle /\ sess[s].state = "Receiving"}

Idle == {s \in sessions : sess[s].idle}

\* reapStale() notes the sessions nobody fed, then cancels one after the other.
ReapStale ==
    /\ client[Sweeper].pc \in {"off", "over"} /\ stale = {} /\ Idle # {}
    /\ stale' = Idle
    /\ UNCHANGED <<sess, sessions, storeVars, client, cast, faults, crashes>>

ReapNext ==
    /\ client[Sweeper].pc \in {"off", "over"}
    /\ \E s \in stale :
          /\ stale' = stale \ {s}
          /\ Step(Sweeper, [client[Sweeper] EXCEPT !.pc = "cancel", !.s = s])
    /\ UNCHANGED <<sess, sessions, storeVars, cast, faults, crashes>>

-----------------------------------------------------------------------------
(* The process ends *)

\* Objects are gone; a tab finds out when it asks, a WebDAV client when its
\* connection breaks.  What the sessions had posted is nobody's.
Crash ==
    /\ crashes < MaxCrashes /\ crashes' = crashes + 1
    /\ sessions' = {} /\ stale' = {}
    /\ orphans' = orphans \cup {s \in Sessions : sess[s].owns}
    /\ sess' = [s \in Sessions |-> IF sess[s].state = "none" THEN sess[s]
                  ELSE Dead]
    /\ client' = [a \in Actors |->
                    CASE client[a].pc \in {"off", "over"} -> client[a]
                      [] client[a].pc \notin {"off", "over"} /\ a \in Web ->
                            [client[a] EXCEPT !.pc = "ask"]
                      [] OTHER -> [FreshClient EXCEPT !.pc = "over", !.tries = client[a].tries]]
    /\ UNCHANGED <<entries, blobs, cast, faults>>

\* ~UploadManager(), after the server has no request left and the sweeper was joined.
Shutdown ==
    /\ crashes < MaxCrashes /\ crashes' = crashes + 1
    /\ \A a \in Actors : client[a].pc \in {"off", "over", "send", "ask"}
    /\ sessions' = {} /\ stale' = {}
    /\ blobs' = blobs \ UNION {Rollback(s) : s \in sessions}
    /\ sess' = [s \in Sessions |-> IF s \notin sessions THEN sess[s]
                  ELSE Dead]
    /\ UNCHANGED <<entries, orphans, client, cast, faults>>

-----------------------------------------------------------------------------
RegInit ==
    /\ sess = [s \in Sessions |-> FreshSession] /\ sessions = {}
    /\ entries = {} /\ blobs = {} /\ orphans = {}
    /\ client = [a \in Actors |-> FreshClient] /\ stale = {}
    /\ cast \in Casts
    /\ faults = 0 /\ crashes = 0

\* What the server does for client a once the request is there.
Serve(a) ==
    \/ ClaimResumable(a) \/ OverQuota(a) \/ BeginResumes(a) \/ BeginNew(a)
    \/ BeginSkips(a) \/ BeginLinks(a) \/ Settle(a) \/ ReadMark(a) \/ ReadDigest(a)
    \/ VerifyPrefix(a) \/ Open(a) \/ PutRouteAgain(a) \/ Receive(a) \/ ReceiveRefused(a)
    \/ ReceiveFails(a) \/ CompleteEnter(a) \/ CompleteSaves(a) \/ CompleteFails(a)

CancelStep(a) == Cancel(a) \/ CancelCleans(a) \/ Erase(a)

\* What only happens when the client wants it.
ClientStep(a) == Start(a) \/ PutRoute(a) \/ AskPosition(a) \/ LastCheck(a)

Break(a) == Cut(a) \/ CloseTab(a)

\* Nobody wants anything any more and nothing is left to sweep.
Rest ==
    /\ sessions = {} /\ \A a \in Actors : client[a].pc \in {"off", "over"}
    /\ UNCHANGED vars

RegNext ==
    \/ \E a \in Clients : Serve(a) \/ ClientStep(a) \/ Break(a)
    \/ \E a \in Actors : CancelStep(a)
    \/ \E s \in Sessions : TimePasses(s)
    \/ ReapStale \/ ReapNext \/ Crash \/ Shutdown
    \/ Rest

RegSpec == RegInit /\ [][RegNext]_vars

RegFairSpec ==
    /\ RegSpec
    /\ \A a \in Clients : WF_vars(Serve(a)) /\ WF_vars(CancelStep(a))
    /\ WF_vars(CancelStep(Sweeper))
    /\ \A s \in Sessions : WF_vars(TimePasses(s))
    /\ WF_vars(ReapStale) /\ WF_vars(ReapNext)

-----------------------------------------------------------------------------
(* Properties *)

\* Every file in the folder has, on Telegram, the bytes some client's file has, in
\* order and all of them, although uploads are resumed, replaced, linked and reaped.
ListedFileReadable ==
    \A e \in entries : e.blob \in blobs /\ \E v \in Versions : e.data = FileOf(v)

\* Documents belong to a file or to a session somebody will still clean up; only a
\* crash leaves documents to nobody.
DocumentsOwned ==
    \A s \in blobs :
        \/ s \in orphans
        \/ \E e \in entries : e.blob = s
        \/ sess[s].owns /\ (s \in sessions \/ \E a \in Actors : At(a, "clean") /\ client[a].s = s)

\* A session with bytes in it leaves the registry saved or cancelled: an error of
\* receive() or complete() never throws away what is already on Telegram.
KeptForResume ==
    [][\A s \in sessions \ sessions' :
          sess[s].state = "Completed" \/ sess'[s].cancelled]_vars

\* The sweep reaches every session: none stays registered for ever.
SessionsEnd == \A s \in Sessions : s \in sessions ~> s \notin sessions
=============================================================================
