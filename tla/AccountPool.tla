----------------------------- MODULE AccountPool -----------------------------
(***************************************************************************)
(* tg::AccountPool: several Telegram accounts behind one backend.  Writers *)
(* of chunks are given to the least loaded usable account, reads to the    *)
(* account that uploaded and to the others after it, deletions to the      *)
(* uploader or whoever can, while accounts are switched off and on, log    *)
(* out, run into a flood wait, or are removed.                             *)
(*                                                                         *)
(* Every call to an account is one action whose outcome is decided by what *)
(* the account is (external): connected or not, in the storage group or    *)
(* not, and, for a read, whether the access hash is its own and the file   *)
(* reference fresh.                                                        *)
(***************************************************************************)
EXTENDS Integers, FiniteSets, Sequences, Lists

CONSTANTS
    Accounts,     \* in the order of accounts_: a sequence of ids
    Writers,      \* threads in beginChunk() and the writers they get
    Readers,      \* threads in readRange()
    NoAccount,
    PoolScenes,   \* who takes part: [writers, readers], and who is outside the group
    MaxChanges    \* BOUND: changes to accounts from outside, failing calls

ASSUME PoolAssumption ==
    /\ NoAccount \notin {Accounts[i] : i \in DOMAIN Accounts}
    /\ Accounts \in Seq({Accounts[i] : i \in DOMAIN Accounts}) /\ IsFiniteSet(Writers)
    /\ \A i, j \in DOMAIN Accounts : Accounts[i] = Accounts[j] => i = j   \* ids of rows
    /\ \A s \in PoolScenes : s.writers \subseteq Writers /\ s.readers \subseteq Readers

PoolIds == {Accounts[i] : i \in DOMAIN Accounts}

VARIABLES
    accounts,    \* accounts_
    state,       \* per account: [enabled, auth, flooded, member]
    activeUploads,
    roundRobin,
    writer,      \* beginChunk() and the PoolChunkWriter after it
    reader,      \* readRange()
    loc,         \* the chunk's location: the account its hash is for, and whether fresh
    poolScene, changes

poolVars == <<accounts, state, activeUploads, roundRobin, writer, reader, loc,
              poolScene, changes>>

-----------------------------------------------------------------------------
FreshWriter == [pc |-> "idle", tried |-> {}, acc |-> NoAccount, round |-> 0, could |-> {}]
FreshReader == [pc |-> "idle", acc |-> NoAccount, rest |-> <<>>, hash |-> NoAccount,
                fresh |-> FALSE, could |-> {}]

Listed   == Elems(accounts)

\* Loads: what noteUploadStarted() and noteUploadFinished() have counted.
Load(a)  == activeUploads[a]
Open(a)  == {w \in Writers : writer[w].pc = "open" /\ writer[w].acc = a}

PoolTypeOK ==
    /\ Listed \subseteq PoolIds /\ Cardinality(Listed) = Len(accounts)
    /\ \A a \in PoolIds : Load(a) \in 0..Cardinality(Writers)
    /\ \A w \in Writers : writer[w].acc \in PoolIds \cup {NoAccount} /\ writer[w].tried \subseteq PoolIds
    /\ \A r \in Readers : reader[r].acc \in PoolIds \cup {NoAccount} /\ Elems(reader[r].rest) \subseteq PoolIds
    /\ loc.hash \in PoolIds /\ loc.fresh \in BOOLEAN

\* addAccount() and connectAll() have run.
PoolInit ==
    /\ poolScene \in PoolScenes
    /\ accounts = Accounts
    /\ state = [a \in PoolIds |-> [enabled |-> TRUE, auth |-> TRUE, flooded |-> FALSE, member |-> a \notin poolScene.outside]]
    /\ activeUploads = [a \in PoolIds |-> 0] /\ roundRobin = 0
    /\ writer = [w \in Writers |-> FreshWriter]
    /\ reader = [r \in Readers |-> FreshReader]
    /\ loc \in [hash : PoolIds, fresh : BOOLEAN]
    /\ changes = 0

\* pickAccount() looks at these and no other.
Pickable(a) == a \in Listed /\ state[a].enabled /\ state[a].auth /\ ~state[a].flooded

\* What ready(), stats() and the loops over the other accounts ask for.
Usable(a) == a \in Listed /\ state[a].enabled /\ state[a].auth

\* What the account does when asked, once it is linked to Telegram.
CanServe(a) == Pickable(a) /\ state[a].member

At(x, pc) == x.pc = pc
Change == changes < MaxChanges /\ changes' = changes + 1

\* The position i steps after the round-robin start.
Seat(i) == accounts[1 + ((roundRobin + i) % Len(accounts))]

\* MUTANT: the accounts tried before are not skipped.
BestOfAll(tried) ==
    LET ok  == {i \in 0..Len(accounts) - 1 : Pickable(Seat(i))}
        min == {i \in ok : \A j \in ok : Load(Seat(i)) <= Load(Seat(j))}
    IN IF ok = {} THEN NoAccount ELSE Seat(CHOOSE i \in min : \A j \in min : i <= j)

\* The least loaded pickable account, the first of them after the start.
Best(tried) ==
    LET ok  == {i \in 0..Len(accounts) - 1 : Pickable(Seat(i)) /\ Seat(i) \notin tried}
        min == {i \in ok : \A j \in ok : Load(Seat(i)) <= Load(Seat(j))}
    IN IF ok = {} THEN NoAccount ELSE Seat(CHOOSE i \in min : \A j \in min : i <= j)

Turned == roundRobin' = IF accounts = <<>> THEN roundRobin ELSE (roundRobin + 1) % Len(accounts)

-----------------------------------------------------------------------------
(* beginChunk() *)

BeginChunk(w) ==
    /\ At(writer[w], "idle") /\ w \in poolScene.writers
    /\ writer' = [writer EXCEPT ![w] = [FreshWriter EXCEPT !.pc = "pick",
                                          !.could = {a \in PoolIds : CanServe(a)}]]
    /\ UNCHANGED <<accounts, state, activeUploads, roundRobin, reader, loc, poolScene, changes>>

\* One round of the loop, as many as there are accounts and one more.
PickAccount(w) ==
    LET a == Best(writer[w].tried)
    IN /\ At(writer[w], "pick")
       /\ IF writer[w].round < Len(accounts) + 1 /\ a # NoAccount
          THEN /\ writer' = [writer EXCEPT ![w].pc = "connect", ![w].acc = a,
                                           ![w].tried = @ \cup {a}, ![w].round = @ + 1]
          ELSE /\ writer' = [writer EXCEPT ![w].pc = "failed"]
       /\ Turned
       /\ UNCHANGED <<accounts, state, activeUploads, reader, loc, poolScene, changes>>

\* connect(), if the account is not connected, and beginStreamUpload(), which
\* needs the group.
Accepts(w) ==
    /\ At(writer[w], "connect") /\ state[writer[w].acc].member
    /\ writer' = [writer EXCEPT ![w].pc = "accepted"]
    /\ UNCHANGED <<accounts, state, activeUploads, roundRobin, reader, loc, poolScene, changes>>

Declines(w) ==
    /\ At(writer[w], "connect")
    /\ \/ ~state[writer[w].acc].member /\ UNCHANGED changes
       \/ Change
    /\ writer' = [writer EXCEPT ![w].pc = "pick",
                                ![w].could = @ \ {writer[w].acc}]
    /\ UNCHANGED <<accounts, state, activeUploads, roundRobin, reader, loc, poolScene>>

\* The constructor of PoolChunkWriter: only now does the load count.
OpenWriter(w) ==
    /\ At(writer[w], "accepted")
    /\ activeUploads' = [activeUploads EXCEPT ![writer[w].acc] = @ + 1]
    /\ writer' = [writer EXCEPT ![w] = [FreshWriter EXCEPT !.pc = "open", !.acc = writer[w].acc]]
    /\ UNCHANGED <<accounts, state, roundRobin, reader, loc, poolScene, changes>>

\* noteUploadFinished(): an account that was removed has no entry any more.
Release(a) ==
    activeUploads' = [activeUploads EXCEPT ![a] = IF a \in Listed /\ @ > 0 THEN @ - 1 ELSE @]

\* finish() or abort(), and the destructor that finds the load released.
CloseWriter(w) ==
    /\ At(writer[w], "open")
    /\ Release(writer[w].acc)
    /\ writer' = [writer EXCEPT ![w].pc = "closed"]
    /\ UNCHANGED <<accounts, state, roundRobin, reader, loc, poolScene, changes>>

DestroyWriter(w) ==
    /\ At(writer[w], "closed") \/ At(writer[w], "failed")
    /\ writer' = [writer EXCEPT ![w] = FreshWriter]
    /\ UNCHANGED <<accounts, state, activeUploads, roundRobin, reader, loc, poolScene, changes>>

\* MUTANT: the load is not released.
DropWriterLoaded(w) ==
    /\ At(writer[w], "open")
    /\ writer' = [writer EXCEPT ![w] = FreshWriter]
    /\ UNCHANGED <<accounts, state, activeUploads, roundRobin, reader, loc, poolScene, changes>>

\* A writer that is destroyed open releases its load then.
DropWriter(w) ==
    /\ At(writer[w], "open")
    /\ Release(writer[w].acc)
    /\ writer' = [writer EXCEPT ![w] = FreshWriter]
    /\ UNCHANGED <<accounts, state, roundRobin, reader, loc, poolScene, changes>>

-----------------------------------------------------------------------------
(* readRange() *)

\* pickForRead(): the uploader if it may, else whoever pickAccount() says.
BeginRead(r) ==
    LET own == loc.hash
        a   == IF Usable(own) THEN own ELSE Best({})
    IN /\ At(reader[r], "idle") /\ r \in poolScene.readers
       /\ IF Usable(own) THEN UNCHANGED roundRobin ELSE Turned
       /\ reader' = [reader EXCEPT ![r] =
                       [FreshReader EXCEPT !.pc = IF a = NoAccount THEN "failed"
                                                  ELSE IF a # own THEN "localize" ELSE "read",
                                           !.acc = a, !.hash = loc.hash, !.fresh = loc.fresh,
                                           !.could = {b \in PoolIds : CanServe(b)}]]
       /\ UNCHANGED <<accounts, state, activeUploads, writer, loc, poolScene, changes>>

\* The outcome of refreshFileReference() by account a.
Refreshed(r, a, pc, x) == [x EXCEPT !.pc = pc, !.hash = a, !.fresh = TRUE]
Answers(a) == state[a].member /\ state[a].auth /\ ~state[a].flooded

\* The steps "localize" and "renew" ask for the reference, with an account that is
\* not the uploader before the first read, with any account after a failed one.
AskReference(r) ==
    LET x == reader[r]
        next == IF At(x, "renew") THEN "reread" ELSE "read"
    IN /\ At(x, "localize") \/ At(x, "renew")
       /\ \/ /\ Answers(x.acc)
             /\ reader' = [reader EXCEPT ![r] = Refreshed(r, x.acc, next, x)]
             /\ UNCHANGED changes
          \/ /\ IF Answers(x.acc) THEN Change ELSE UNCHANGED changes
             /\ reader' = [reader EXCEPT ![r].pc = IF At(x, "renew") THEN "others" ELSE "read",
                                         ![r].could = @ \ {x.acc}]
       /\ UNCHANGED <<accounts, state, activeUploads, roundRobin, writer, loc, poolScene>>

\* downloadRange(): a hash of its own and a fresh reference, or an error.
Downloads(r) ==
    LET x == reader[r]
    IN /\ x.pc \in {"read", "reread", "alt"}
       /\ Answers(x.acc) /\ x.hash = x.acc /\ x.fresh
       /\ loc' = [hash |-> x.hash, fresh |-> TRUE]
       /\ reader' = [reader EXCEPT ![r] = [FreshReader EXCEPT !.pc = "served"]]
       /\ UNCHANGED <<accounts, state, activeUploads, roundRobin, writer, poolScene, changes>>

DownloadFails(r) ==
    LET x == reader[r]
    IN /\ x.pc \in {"read", "reread", "alt"}
       /\ IF Answers(x.acc) /\ x.hash = x.acc /\ x.fresh THEN Change ELSE UNCHANGED changes
       /\ reader' = [reader EXCEPT ![r] =
             [x EXCEPT !.pc = IF At(x, "read") THEN "renew"
                              ELSE IF At(x, "reread") THEN "others" ELSE "next",
                       !.could = IF At(x, "read") THEN @ ELSE @ \ {x.acc}]]
       /\ UNCHANGED <<accounts, state, activeUploads, roundRobin, writer, loc, poolScene>>

\* Everybody else who is enabled and logged in, once.
ListOthers(r) ==
    /\ At(reader[r], "others")
    /\ reader' = [reader EXCEPT ![r].pc = "next",
                                ![r].rest = Those(accounts, {a \in Listed : Usable(a) /\ a # reader[r].acc})]
    /\ UNCHANGED <<accounts, state, activeUploads, roundRobin, writer, loc, poolScene, changes>>

\* The next of them asks for a reference of its own and reads.
TryOther(r) ==
    /\ At(reader[r], "next")
    /\ IF reader[r].rest = <<>>
       THEN reader' = [reader EXCEPT ![r].pc = "failed"] /\ UNCHANGED changes
       ELSE LET a == Head(reader[r].rest)
                x == [reader[r] EXCEPT !.pc = "alt", !.acc = a, !.rest = Tail(@),
                                       !.hash = loc.hash, !.fresh = loc.fresh]
            IN \/ /\ Answers(a) /\ UNCHANGED changes
                  /\ reader' = [reader EXCEPT ![r] = Refreshed(r, a, "alt", x)]
               \/ /\ IF Answers(a) THEN Change ELSE UNCHANGED changes
                  /\ reader' = [reader EXCEPT ![r] = [x EXCEPT !.could = @ \ {a}]]
    /\ UNCHANGED <<accounts, state, activeUploads, roundRobin, writer, loc, poolScene>>

\* removeChunks(), for the chunks of one account: that account, enabled or not, or
\* whoever pickAccount() says.  Nobody else is asked when the deletion fails.
BeginRemove(r) ==
    LET own == loc.hash
        a   == IF own \in Listed /\ state[own].auth THEN own ELSE Best({})
    IN /\ At(reader[r], "idle") /\ r \in poolScene.readers
       /\ IF a = own THEN UNCHANGED roundRobin ELSE Turned
       /\ reader' = [reader EXCEPT ![r] = [FreshReader EXCEPT
                         !.pc = IF a = NoAccount THEN "kept" ELSE "delete", !.acc = a]]
       /\ UNCHANGED <<accounts, state, activeUploads, writer, loc, poolScene, changes>>

DeleteMessages(r) ==
    /\ At(reader[r], "delete")
    /\ \/ /\ Answers(reader[r].acc) /\ UNCHANGED changes
          /\ reader' = [reader EXCEPT ![r] = [FreshReader EXCEPT !.pc = "served"]]
       \/ /\ IF Answers(reader[r].acc) THEN Change ELSE UNCHANGED changes
          /\ reader' = [reader EXCEPT ![r] = [FreshReader EXCEPT !.pc = "kept"]]
    /\ UNCHANGED <<accounts, state, activeUploads, roundRobin, writer, loc, poolScene>>

EndRead(r) ==
    /\ reader[r].pc \in {"served", "failed", "kept"}
    /\ reader' = [reader EXCEPT ![r] = FreshReader]
    /\ UNCHANGED <<accounts, state, activeUploads, roundRobin, writer, loc, poolScene, changes>>

-----------------------------------------------------------------------------
(* What happens to accounts *)

\* Who could serve all along no longer includes a.
Lost(a) ==
    /\ writer' = [w \in Writers |-> [writer[w] EXCEPT !.could = @ \ {a}]]
    /\ reader' = [r \in Readers |-> [reader[r] EXCEPT !.could = @ \ {a}]]

\* setAccountEnabled(), a login or a refused key, a flood wait, joining or leaving
\* the storage group.
AccountChanges(a, field) ==
    /\ Change /\ a \in Listed
    /\ state' = [state EXCEPT ![a][field] = ~@]
    /\ Lost(a)
    /\ UNCHANGED <<accounts, activeUploads, roundRobin, loc, poolScene>>

\* removeAccount(): writers and readers that picked it keep the pointer.  Freed
\* memory may do anything; here nobody was using it.
RemoveFromPool(a) ==
    /\ Change /\ a \in Listed
    /\ \A w \in Writers : writer[w].acc # a
    /\ \A r \in Readers : reader[r].acc # a /\ a \notin Elems(reader[r].rest)
    /\ \E i \in DOMAIN accounts :
          /\ accounts[i] = a
          /\ accounts' = Erase(accounts, i)
    /\ activeUploads' = [activeUploads EXCEPT ![a] = 0]
    /\ roundRobin' \in DOMAIN accounts
    /\ Lost(a)
    /\ UNCHANGED <<state, loc, poolScene>>

\* A reference expires.
ReferenceExpires ==
    /\ Change /\ loc.fresh
    /\ loc' = [loc EXCEPT !.fresh = FALSE]
    /\ UNCHANGED <<accounts, state, activeUploads, roundRobin, writer, reader, poolScene>>

-----------------------------------------------------------------------------
PoolNext ==
    \/ \E w \in Writers : \/ BeginChunk(w) \/ PickAccount(w) \/ Accepts(w) \/ Declines(w)
                          \/ OpenWriter(w) \/ CloseWriter(w) \/ DestroyWriter(w) \/ DropWriter(w)
    \/ \E r \in Readers : \/ BeginRead(r) \/ AskReference(r) \/ Downloads(r) \/ DownloadFails(r)
                          \/ ListOthers(r) \/ TryOther(r) \/ EndRead(r)
                          \/ BeginRemove(r) \/ DeleteMessages(r)
    \/ \E a \in PoolIds : \/ RemoveFromPool(a)
                      \/ \E f \in {"enabled", "auth", "flooded", "member"} : AccountChanges(a, f)
    \/ ReferenceExpires

PoolSpec == PoolInit /\ [][PoolNext]_poolVars

-----------------------------------------------------------------------------
(* Properties *)

\* The load of an account is the number of its writers that are open, whatever way
\* they end: loads that only grow would take an account out of the rotation.
LoadMatchesWriters == \A a \in Listed : Load(a) = Cardinality(Open(a))

\* beginChunk() and readRange() fail only when no account was able to serve all
\* the time they took: one account that cannot is never the end of it.  But for this:
\* the rounds of beginChunk() are bounded by the accounts there are now, so two that
\* were tried and then removed may leave the last one unasked.
FailsOnlyWhenNobodyCan ==
    /\ \A w \in Writers : At(writer[w], "failed")
           => writer[w].could = {} \/ Cardinality(writer[w].tried \ Listed) > 1
    /\ \A r \in Readers : At(reader[r], "failed") => reader[r].could = {}
=============================================================================
