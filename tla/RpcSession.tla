----------------------------- MODULE RpcSession -----------------------------
(***************************************************************************)
(* tg::MtprotoSession: one connection to one Telegram data centre, shared  *)
(* by every thread that calls an API function there, with the thread that  *)
(* reads it, the handshake that makes the authorisation key, and the retry *)
(* loop of TgAccount::invoke() as far as it concerns a lost connection.    *)
(*                                                                         *)
(* A step that takes the mutex mu_ is one action.  connectMu_ is held over *)
(* several (connector).  The key exchange, the encryption and the TL       *)
(* encoding either work or fail; a message id is the try and the attempt   *)
(* it was made for, since the generator never repeats one; pings and       *)
(* acknowledgements change nothing another thread reads and are left out.  *)
(*                                                                         *)
(* External: the network (a connection may die at any moment, taking what  *)
(* was under way with it; the reader notices only if a packet or an error  *)
(* code breaks off the stream) and the server, which executes a request    *)
(* with the right salt once and refuses one with a stale salt.             *)
(***************************************************************************)
EXTENDS Integers, Sequences

CONSTANTS
    Calls,        \* threads in TgAccount::invoke()
    Tries,        \* kSoLanThuGoiApi
    Attempts,     \* kMaxAttempts
    NoCall,
    MaxTrouble    \* BOUND: connections lost or refused, changes of the server's salt,
                  \* protocol errors

ASSUME RpcAssumption ==
    /\ Tries \in Nat \ {0} /\ Attempts \in Nat \ {0}
    /\ NoCall \notin Calls

VARIABLES
    line,       \* connected_, the transport, its session id, initSent_, the reader thread
    key,        \* authKey_.valid()
    salt,       \* the salt of the client and the one the server wants
    pending,    \* pending_: the calls waiting, by message id
    call,       \* where each call stands
    connector,  \* who holds connectMu_
    found,      \* the request the reader has looked up and has yet to mark
    toServer, toClient,   \* messages under way
    served,     \* the message ids of the requests the server has executed
    first,      \* how the first request on this connection went
    trouble

rpcVars == <<line, key, salt, pending, call, connector, found,
             toServer, toClient, served, first, trouble>>
callVars == <<pending, call>>
wires    == <<toServer, toClient>>
world    == <<served, first, trouble>>

-----------------------------------------------------------------------------
Results == {"none", "ok", "refused", "lost", "late", "spent"}

FreshCall == [pc |-> "idle", att |-> 0, wrap |-> FALSE, on |-> 0, done |-> FALSE,
              resend |-> FALSE, res |-> "none", of |-> <<>>, tries |-> 0]
FreshLine == [asked |-> FALSE, wrapped |-> FALSE, crossed |-> FALSE]

Offline == [up |-> FALSE, open |-> FALSE, alive |-> FALSE, cut |-> FALSE,
            gen |-> 0, init |-> FALSE, reader |-> 0]

\* What the other side sends arrives and can be read as packets.
Readable == line.open /\ line.alive /\ ~line.cut

Waiting == {"send", "sent", "wait"}
InvokeOf(c) == <<c, call[c].tries>>

\* MsgIdGenerator::next()
MsgId(c)  == <<c, call[c].tries, call[c].att>>
OfCall(i) == <<i[1], i[2]>>
Ids       == Calls \X (0..Tries - 1) \X (0..Attempts - 1)

RpcTypeOK ==
    /\ line.up \in BOOLEAN /\ line.open \in BOOLEAN /\ line.alive \in BOOLEAN
    /\ line.cut \in BOOLEAN /\ line.init \in BOOLEAN /\ line.gen \in Nat /\ line.reader \in {0, line.gen}
    /\ key \in BOOLEAN /\ salt.client \in Nat /\ salt.server \in Nat
    /\ connector \in Calls \cup {NoCall}
    /\ \A i \in DOMAIN pending : i \in Ids /\ pending[i] = i[1]
    /\ \A c \in Calls : /\ call[c].att \in 0..Attempts - 1
                        /\ call[c].tries \in 0..Tries
                        /\ call[c].res \in Results
    /\ \A m \in toServer \cup toClient : m.gen = line.gen /\ m.id \in Ids

RpcInit ==
    /\ line = Offline /\ key \in BOOLEAN   \* a key out of the database may have an old salt
    /\ salt = [client |-> 0, server |-> IF key THEN 1 ELSE 0]
    /\ pending = <<>> /\ call \in [Calls -> {FreshCall, [FreshCall EXCEPT !.pc = "over"]}]
    /\ connector = NoCall /\ found = <<>> /\ toServer = {} /\ toClient = {}
    /\ served = {} /\ first = FreshLine /\ trouble = 0

On(c, pc)    == call[c].pc = pc
Become(c, r) == call' = [call EXCEPT ![c] = r]
Turn(c, pc)  == Become(c, [call[c] EXCEPT !.pc = pc])
Over(c)      == Become(c, [FreshCall EXCEPT !.pc = "over", !.res = call[c].res,
                                            !.of = call[c].of, !.tries = call[c].tries])
Return(c, res) == Become(c, [call[c] EXCEPT !.pc = "leave", !.res = res])

Without(f, i) == [j \in DOMAIN f \ {i} |-> f[j]]
Trouble == trouble < MaxTrouble /\ trouble' = trouble + 1

\* Every call still waiting ends with a local error (mu_ held).
FailAllPending ==
    call' = [c \in Calls |->
                IF \E i \in DOMAIN pending : pending[i] = c /\ ~call[c].done
                THEN [call[c] EXCEPT !.done = TRUE, !.res = "lost"] ELSE call[c]]

\* MUTANT: the result goes to whoever has waited longest.
CompleteAnyPending(id, res) ==
    IF DOMAIN pending # {}
    THEN LET j == CHOOSE j \in DOMAIN pending : TRUE
         IN Become(pending[j], [call[pending[j]] EXCEPT !.done = TRUE, !.res = res, !.of = id])
    ELSE UNCHANGED call

\* A result ends the call it is for, if that call still waits.
CompletePending(id, res) ==
    IF id \in DOMAIN pending
    THEN Become(pending[id], [call[pending[id]] EXCEPT !.done = TRUE, !.res = res, !.of = id])
    ELSE UNCHANGED call

-----------------------------------------------------------------------------
(* ensureConnected() *)

\* Connected already, or the old reader has to go first (connectMu_ is taken).
EnsureConnected(c) ==
    /\ On(c, "idle") /\ connector = NoCall
    /\ IF line.up /\ line.open
       THEN Turn(c, "prepare") /\ UNCHANGED <<line, connector>>
       ELSE /\ Turn(c, "join")
            /\ connector' = c
            /\ line' = [line EXCEPT !.up = FALSE]
    /\ UNCHANGED <<key, salt, pending, found, wires, world>>

\* The reader has ended: a new transport, session id and sequence number.
Reconnect(c) ==
    /\ On(c, "join") /\ line.reader = 0
    /\ toServer' = {} /\ toClient' = {}
    /\ \/ /\ line' = [line EXCEPT !.open = TRUE, !.alive = TRUE, !.cut = FALSE,
                                     !.gen = @ + 1, !.init = FALSE]
          /\ first' = FreshLine
          /\ Turn(c, IF key THEN "ready" ELSE "pq")
          /\ UNCHANGED <<connector, trouble>>
       \/ /\ Trouble
          /\ line' = [line EXCEPT !.open = FALSE, !.alive = FALSE]
          /\ connector' = NoCall
          /\ Return(c, "lost")
          /\ UNCHANGED first
    /\ UNCHANGED <<key, salt, pending, found, served>>

\* One exchange of createAuthKey(): the answer came, or the connection was lost
\* or closed under it, and ensureConnected() closes and gives up.
Exchange(c, next) ==
    \/ /\ Readable
       /\ Turn(c, next)
       /\ UNCHANGED <<line, connector>>
    \/ /\ ~Readable
       /\ line' = [line EXCEPT !.open = FALSE]
       /\ connector' = NoCall
       /\ Return(c, "lost")

\* req_pq_multi, then resPQ.
AskPq(c) ==
    /\ On(c, "pq") /\ Exchange(c, "dh")
    /\ UNCHANGED <<key, salt, pending, found, wires, world>>

\* req_DH_params, then server_DH_params.
AskDh(c) ==
    /\ On(c, "dh") /\ Exchange(c, "gen")
    /\ UNCHANGED <<key, salt, pending, found, wires, world>>

\* set_client_DH_params, then dh_gen_ok: only now is there a key, with its salt.
AgreeKey(c) ==
    /\ On(c, "gen") /\ Exchange(c, "ready")
    /\ IF Readable
       THEN key' = TRUE /\ salt' = [salt EXCEPT !.client = salt.server]
       ELSE UNCHANGED <<key, salt>>
    /\ UNCHANGED <<pending, found, wires, world>>

\* connected_ is set and the reader thread starts.
StartReader(c) ==
    /\ On(c, "ready")
    /\ line' = [line EXCEPT !.up = TRUE, !.reader = line.gen]
    /\ connector' = NoCall
    /\ Turn(c, "prepare")
    /\ UNCHANGED <<key, salt, pending, found, wires, world>>

-----------------------------------------------------------------------------
(* invoke() *)

\* MUTANT: only the first connection ever is introduced.
PrepareRequestOnce(c) ==
    /\ On(c, "prepare")
    /\ Become(c, [call[c] EXCEPT !.pc = "register", !.wrap = ~line.init /\ line.gen = 1,
                                 !.on = line.gen, !.att = 0])
    /\ UNCHANGED <<line, key, salt, pending, connector, found, wires, world>>

\* Whether the request has to open the connection (initConnection) is decided
\* here, once, for all its attempts.
PrepareRequest(c) ==
    /\ On(c, "prepare")
    /\ Become(c, [call[c] EXCEPT !.pc = "register", !.wrap = ~line.init,
                                 !.on = line.gen, !.att = 0])
    /\ UNCHANGED <<line, key, salt, pending, connector, found, wires, world>>

Register(c) ==
    /\ On(c, "register")
    /\ pending' = [i \in DOMAIN pending \cup {MsgId(c)} |-> i[1]]
    /\ Become(c, [call[c] EXCEPT !.pc = "send", !.done = FALSE,
                                 !.resend = FALSE, !.res = "none"])
    /\ UNCHANGED <<line, key, salt, connector, found, wires, world>>

\* sendEncrypted() with whatever session id, salt and transport there are now.
SendRequest(c) ==
    /\ On(c, "send") /\ line.open
    /\ Turn(c, IF call[c].wrap THEN "sent" ELSE "wait")
    /\ IF line.alive
       THEN /\ toServer' = toServer \cup {[gen |-> line.gen, id |-> MsgId(c), salt |-> salt.client]}
            /\ first' = [asked   |-> TRUE,
                       wrapped |-> IF first.asked THEN first.wrapped ELSE call[c].wrap,
                       crossed |-> first.crossed \/ call[c].on # line.gen]
       ELSE UNCHANGED <<toServer, first>>
    /\ UNCHANGED <<line, key, salt, pending, connector, found, toClient, served, trouble>>

SendFails(c) ==
    /\ On(c, "send") /\ ~(line.open /\ line.alive)
    /\ pending' = Without(pending, MsgId(c))
    /\ line' = [line EXCEPT !.up = FALSE]
    /\ Return(c, "lost")
    /\ UNCHANGED <<key, salt, connector, found, wires, world>>

\* initSent_ is set after the request went out, whatever connection there is now.
MarkInit(c) ==
    /\ On(c, "sent")
    /\ Turn(c, "wait")
    /\ line' = [line EXCEPT !.init = TRUE]
    /\ first' = [first EXCEPT !.crossed = @ \/ call[c].on # line.gen]
    /\ UNCHANGED <<key, salt, pending, connector, found, wires, served, trouble>>

\* The answer is there.
Answered(c) ==
    /\ On(c, "wait") /\ call[c].done
    /\ pending' = Without(pending, MsgId(c))
    /\ IF call[c].res = "ok" THEN Over(c) ELSE Turn(c, "leave")
    /\ UNCHANGED <<line, key, salt, connector, found, wires, world>>

\* MUTANT: an attempt too many.
ResendOnceMore(c) ==
    /\ On(c, "wait") /\ ~call[c].done /\ call[c].resend
    /\ pending' = Without(pending, MsgId(c))
    /\ Become(c, [call[c] EXCEPT !.pc = "register", !.att = @ + 1])
    /\ UNCHANGED <<line, key, salt, connector, found, wires, world>>

\* The server wants it again: a new message id, at most Attempts in all.
Resend(c) ==
    /\ On(c, "wait") /\ ~call[c].done /\ call[c].resend
    /\ pending' = Without(pending, MsgId(c))
    /\ IF call[c].att + 1 < Attempts
       THEN Become(c, [call[c] EXCEPT !.pc = "register", !.att = @ + 1])
       ELSE Return(c, "spent")
    /\ UNCHANGED <<line, key, salt, connector, found, wires, world>>


\* MUTANT: the request stays in pending_.
TimesOutStillPending(c) ==
    /\ On(c, "wait") /\ ~call[c].done /\ ~call[c].resend
    /\ Return(c, "late")
    /\ UNCHANGED <<line, key, salt, pending, connector, found, wires, world>>

\* The request timeout has passed.
TimesOut(c) ==
    /\ On(c, "wait") /\ ~call[c].done /\ ~call[c].resend
    /\ pending' = Without(pending, MsgId(c))
    /\ Return(c, "late")
    /\ UNCHANGED <<line, key, salt, connector, found, wires, world>>

\* TgAccount::invoke(): without an answer, disconnect(), which fails the calls of
\* the other threads too, and once more if tries are left.
Disconnect(c) ==
    /\ On(c, "leave")
    /\ line' = [line EXCEPT !.up = FALSE, !.open = FALSE]
    /\ call' = [d \in Calls |->
                   IF d = c THEN [FreshCall EXCEPT !.pc = "close", !.on = line.gen,
                                                   !.tries = call[c].tries + 1]
                   ELSE IF \E i \in DOMAIN pending : pending[i] = d /\ ~call[d].done
                        THEN [call[d] EXCEPT !.done = TRUE, !.res = "lost"] ELSE call[d]]
    /\ toServer' = {} /\ toClient' = {}
    /\ UNCHANGED <<key, salt, pending, connector, found, world>>

\* disconnect() joins the reader before it returns.
Closed(c) ==
    /\ On(c, "close") /\ line.reader = 0
    /\ IF call[c].tries < Tries
       THEN Become(c, [FreshCall EXCEPT !.tries = call[c].tries]) ELSE Over(c)
    /\ UNCHANGED <<line, key, salt, pending, connector, found, wires, world>>

-----------------------------------------------------------------------------
(* readerLoop(), processBody() *)

ReaderOn == line.reader # 0 /\ found = <<>>

ReaderStops ==
    /\ ReaderOn /\ ~line.up
    /\ line' = [line EXCEPT !.reader = 0]
    /\ UNCHANGED <<key, salt, callVars, connector, found, wires, world>>

\* The stream breaks off inside a packet or brings an error code, or the transport
\* has been closed: whoever waits is told, and the thread ends.  A peer that is gone
\* between two packets looks like a second without data: the thread goes on.
ReaderLoses ==
    /\ ReaderOn /\ line.up /\ (line.cut \/ ~line.open)
    /\ line' = [line EXCEPT !.up = FALSE, !.reader = 0]
    /\ FailAllPending
    /\ UNCHANGED <<key, salt, pending, connector, found, wires, world>>

Incoming(m) == ReaderOn /\ Readable /\ m \in toClient /\ toClient' = toClient \ {m}

ReadResult(m) ==
    /\ Incoming(m) /\ m.kind = "result"
    /\ CompletePending(m.id, "ok")
    /\ UNCHANGED <<line, key, salt, pending, connector, found, toServer, world>>

\* bad_msg_notification other than a clock error.
ReadBadMsg(m) ==
    /\ Incoming(m) /\ m.kind = "badMsg"
    /\ CompletePending(m.id, "refused")
    /\ UNCHANGED <<line, key, salt, pending, connector, found, toServer, world>>

\* bad_server_salt: the salt is taken over and the request looked up; it is
\* marked below, outside the mutex.
ReadBadSalt(m) ==
    /\ Incoming(m) /\ m.kind = "badSalt"
    /\ salt' = [salt EXCEPT !.client = m.salt]
    /\ found' = IF m.id \in DOMAIN pending THEN InvokeOf(pending[m.id]) ELSE <<>>
    /\ UNCHANGED <<line, key, callVars, connector, toServer, world>>

\* The call may have given up since, or be at its next try with another request.
MarkResend ==
    /\ found # <<>>
    /\ found' = <<>>
    /\ IF InvokeOf(found[1]) = found
       THEN Become(found[1], [call[found[1]] EXCEPT !.resend = TRUE]) ELSE UNCHANGED call
    /\ UNCHANGED <<line, key, salt, pending, connector, wires, world>>

\* new_session_created brings the salt.
NewSession ==
    /\ ReaderOn /\ Readable /\ salt.client # salt.server
    /\ salt' = [salt EXCEPT !.client = salt.server]
    /\ UNCHANGED <<line, key, callVars, connector, found, wires, world>>

-----------------------------------------------------------------------------
(* The server and the network (external) *)

Reply(m, kind) ==
    /\ toServer' = toServer \ {m}
    /\ toClient' = toClient \cup {[gen |-> m.gen, id |-> m.id, kind |-> kind, salt |-> salt.server]}

Serve(m) ==
    /\ line.alive /\ m \in toServer
    /\ IF m.salt = salt.server
       THEN Reply(m, "result") /\ served' = served \cup {m.id}
       ELSE Reply(m, "badSalt") /\ UNCHANGED served
    /\ UNCHANGED <<line, key, salt, callVars, connector, found, first, trouble>>

Refuse(m) ==
    /\ line.alive /\ m \in toServer
    /\ Trouble
    /\ Reply(m, "badMsg")
    /\ UNCHANGED <<line, key, salt, callVars, connector, found, served, first>>

ChangeSalt ==
    /\ Trouble
    /\ salt' = [salt EXCEPT !.server = @ + 1]
    /\ UNCHANGED <<line, key, callVars, connector, found, wires, served, first>>

\* The peer is gone, between two packets or inside one.
LineDies ==
    /\ line.alive /\ Trouble
    /\ \E cut \in {line.cut, TRUE} : line' = [line EXCEPT !.alive = FALSE, !.cut = cut]
    /\ toServer' = {} /\ toClient' = {}
    /\ UNCHANGED <<key, salt, callVars, connector, found, served, first>>

\* A transport error code, a length out of range or a packet that stalls, on a
\* connection that still takes what is sent.
StreamBreaks ==
    /\ line.alive /\ ~line.cut /\ Trouble
    /\ line' = [line EXCEPT !.cut = TRUE]
    /\ UNCHANGED <<key, salt, callVars, connector, found, wires, served, first>>

-----------------------------------------------------------------------------
CallStep(c) ==
    \/ EnsureConnected(c) \/ Reconnect(c) \/ AskPq(c) \/ AskDh(c) \/ AgreeKey(c) \/ StartReader(c)
    \/ PrepareRequest(c) \/ Register(c) \/ SendRequest(c) \/ SendFails(c) \/ MarkInit(c)
    \/ Answered(c) \/ Resend(c) \/ TimesOut(c) \/ Disconnect(c) \/ Closed(c)

ReaderStep ==
    \/ ReaderStops \/ ReaderLoses \/ MarkResend
    \/ \E m \in toClient : ReadResult(m) \/ ReadBadMsg(m) \/ ReadBadSalt(m)

Outside == \/ NewSession \/ ChangeSalt \/ LineDies \/ StreamBreaks
           \/ \E m \in toServer : Serve(m) \/ Refuse(m)

RpcNext == (\E c \in Calls : CallStep(c)) \/ ReaderStep \/ Outside

\* The threads run; the timed wait of a call ends.  Nothing is assumed of the
\* network or the server, nor that the reader ever notices a peer that is gone.
RpcFairness == (\A c \in Calls : WF_rpcVars(CallStep(c))) /\ WF_rpcVars(ReaderStep)

RpcSpec == RpcInit /\ [][RpcNext]_rpcVars /\ RpcFairness

-----------------------------------------------------------------------------
(* Properties *)

\* A call that returns a result returns the server's answer to the request of
\* this very call, whatever was refused, sent again, lost or late in between, and
\* the server has executed no request of one call to invoke() twice.
AnswerIsOwn ==
    /\ \A c \in Calls : On(c, "over") /\ call[c].res = "ok"
           => OfCall(call[c].of) = InvokeOf(c) /\ call[c].of \in served
    /\ \A i, j \in served : OfCall(i) = OfCall(j) => i = j

\* pending_ holds the requests of the calls that wait and no other: a call that
\* left by a timeout, a failed send or a lost connection leaves nothing behind
\* for a later answer to find.
PendingIsWaiting ==
    /\ \A i \in DOMAIN pending : call[i[1]].pc \in Waiting /\ MsgId(i[1]) = i
    /\ \A c \in Calls : call[c].pc \in Waiting => MsgId(c) \in DOMAIN pending

\* The first request on a connection introduces the client (initConnection), as
\* the server demands, unless a call that had decided for the connection before
\* sent its request, or marked the client as introduced, on this one.
FirstRequestWrapped ==
    first.asked => first.wrapped \/ first.crossed

\* disconnect() waits for the reader of a connection made after it closed its own.
\* Such a reader ends when another call disconnects, fails to send or reconnects, or
\* when the stream breaks, and if nothing of that happens, never.
JoinsLater(c) == On(c, "close") /\ line.reader > call[c].on

\* Every call comes back, with an answer or an error, although the reader may never
\* notice that the peer is gone: nobody waits for ever for an answer, for connectMu_
\* or for the reader to end, except, of all the places where a call waits, for a
\* reader that it joined after the connection had been replaced.
CallsReturnUnlessJoined ==
    \A c \in Calls : <>[]On(c, "over") \/ <>[]JoinsLater(c)
=============================================================================
