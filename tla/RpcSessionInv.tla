---------------------------- MODULE RpcSessionInv ----------------------------
(***************************************************************************)
(* What the proofs about RpcSession carry through every step, in named     *)
(* parts: where the message of every request is, which requests of a call  *)
(* the server may still execute, and how the first request of a connection *)
(* came about.  c is a call, i and j are message ids, m and n messages.    *)
(***************************************************************************)
EXTENDS RpcSession

Pcs == {"idle", "join", "pq", "dh", "gen", "ready", "prepare", "register", "send", "sent",
        "wait", "leave", "close", "over"}

CallRec == [pc : Pcs, att : 0..Attempts - 1, wrap : BOOLEAN, on : Nat, done : BOOLEAN,
            resend : BOOLEAN, res : Results, of : Ids \cup {<<>>}, tries : 0..Tries]
LineRec == [up : BOOLEAN, open : BOOLEAN, alive : BOOLEAN, cut : BOOLEAN,
            gen : Nat, init : BOOLEAN, reader : Nat]
RequestMsg == [gen : Nat, id : Ids, salt : Nat]
ReplyMsg   == [gen : Nat, id : Ids, kind : {"result", "badMsg", "badSalt"}, salt : Nat]

CallsType ==
    /\ call \in [Calls -> CallRec]
    /\ \A c \in Calls : call[c].tries = Tries => call[c].pc \in {"close", "over"}

WiresType ==
    /\ toServer \subseteq RequestMsg /\ toClient \subseteq ReplyMsg
    /\ \A m \in toServer \cup toClient : m.gen = line.gen
    /\ served \subseteq Ids

LineType ==
    /\ line \in LineRec /\ line.reader \in {0, line.gen}
    /\ key \in BOOLEAN /\ salt \in [client : Nat, server : Nat]
    /\ DOMAIN pending \subseteq Ids /\ \A i \in DOMAIN pending : pending[i] = i[1]
    /\ connector \in Calls \cup {NoCall}
    /\ found = <<>> \/ found \in Calls \X Nat
    /\ first \in [asked : BOOLEAN, wrapped : BOOLEAN, crossed : BOOLEAN]

TypeInv == CallsType /\ WiresType /\ LineType

-----------------------------------------------------------------------------
(* Where requests are *)

\* The server executed it, or may yet.
MayCount(i) == i \in served \/ \E m \in toServer : m.id = i

\* Message i was sent by the time its call is where it is.
Behind(i) ==
    LET x == call[i[1]] IN
    \/ i[2] < x.tries
    \/ i[2] = x.tries /\ \/ x.pc \in {"leave", "over"}
                         \/ x.pc \in {"register", "send"} /\ i[3] < x.att
                         \/ x.pc \in {"sent", "wait"} /\ i[3] <= x.att

OnlySent ==
    /\ \A i \in served : Behind(i)
    /\ \A m \in toServer \cup toClient : Behind(m.id)

\* A message is under way once, and a request that is was not executed.
OnTheWayOnce ==
    /\ \A m, n \in toServer : m.id = n.id => m = n
    /\ \A m, n \in toClient : m.id = n.id => m = n
    /\ \A m \in toServer : m.id \notin served /\ \A n \in toClient : n.id # m.id

\* What an answer says of its request.
AnswersTrue ==
    \A m \in toClient : /\ m.kind = "result" => m.id \in served
                        /\ m.kind # "result" => m.id \notin served

\* Of one call to invoke() the server has executed, or may execute, one request.
OneCounts ==
    \A i, j \in Ids : MayCount(i) /\ MayCount(j) /\ OfCall(i) = OfCall(j) => i = j

\* And while the call is at it, that is its latest request, which nobody asks for again.
LatestCounts ==
    \A c \in Calls, i \in Ids :
        MayCount(i) /\ OfCall(i) = InvokeOf(c) /\ call[c].pc \in {"register", "send", "sent", "wait"}
        => /\ i = MsgId(c) /\ call[c].pc \in {"sent", "wait"}
           /\ ~call[c].resend /\ found # InvokeOf(c)

\* Where the call is that the reader has looked up, and no second refusal is on its way.
FoundCalls ==
    \A c \in Calls :
        /\ call[c].pc = "send" => ~call[c].resend
        /\ \A t \in Nat : found = <<c, t>> => t <= call[c].tries
        /\ found = InvokeOf(c) => call[c].pc \in {"sent", "wait", "leave", "over"}
        /\ found = InvokeOf(c) => ~(call[c].pc \in {"sent", "wait"} /\ call[c].resend)
        /\ call[c].pc \in {"sent", "wait"} /\ (found = InvokeOf(c) \/ call[c].resend)
              => \A m \in toClient : m.id # MsgId(c)

\* A result is for the call that has it, and the server gave it.
ResultsOwn ==
    \A c \in Calls : call[c].res = "ok" => OfCall(call[c].of) = InvokeOf(c) /\ call[c].of \in served

AnswerInv == OnlySent /\ OnTheWayOnce /\ AnswersTrue /\ OneCounts /\ LatestCounts
             /\ FoundCalls /\ ResultsOwn

-----------------------------------------------------------------------------
(* The first request of a connection *)

\* Something has been asked on this connection or crossed over from another, or it
\* can carry nothing any more.
Begun == first.asked \/ first.crossed \/ ~line.alive

\* A call that prepared on this connection without introducing the client did so
\* because of another; one that has sent its introduction has begun the connection.
IntroInv ==
    /\ FirstRequestWrapped
    /\ line.init => Begun
    /\ \A c \in Calls :
          /\ call[c].on <= line.gen
          /\ call[c].pc \in {"register", "send", "wait"} /\ ~call[c].wrap /\ call[c].on = line.gen
                => Begun
          /\ call[c].pc = "sent" /\ call[c].on = line.gen => Begun
=============================================================================
