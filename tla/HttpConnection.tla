--------------------------- MODULE HttpConnection ---------------------------
(***************************************************************************)
(* HttpServer::handleConnection(): one connection that a client may keep   *)
(* open and pipeline requests on, its body readers, what a handler leaves  *)
(* unread, and what makes the server close it.                             *)
(*                                                                         *)
(* The wire is a sequence of tokens: a request's head, bytes of its body,  *)
(* and, in the chunked form, the lines around them.  Heads are well formed. *)
(***************************************************************************)
EXTENDS Integers, Sequences, Lists

CONSTANTS
    Pipelines,     \* sequences of requests: [form, chunks, keep]; one chunk if not chunked
    ReadSize,      \* the most one read() may return
    DiscardReads   \* reads the server makes to be rid of a body (100000)

ASSUME ConnectionAssumption ==
    /\ ReadSize \in Nat \ {0} /\ DiscardReads \in Nat
    /\ Pipelines \subseteq Seq([form : {"none", "length", "chunked"}, chunks : Seq(Nat \ {0}), keep : BOOLEAN])
    /\ \A p \in Pipelines : \A i \in DOMAIN p : p[i].form = "length" => Len(p[i].chunks) = 1

VARIABLES
    pipeline,   \* what the client sends on this connection
    cut,        \* after how many tokens it sends no more, or closes
    taken,      \* tokens the server has consumed
    conn,       \* the server: pc, request, body reader, keep-alive
    got,        \* body tokens the current request's readers have returned
    handled,    \* requests handed to a handler
    answered,   \* requests answered in full
    serving     \* running_

connVars == <<pipeline, cut, taken, conn, got, handled, answered, serving>>

-----------------------------------------------------------------------------
(* The wire *)

Bytes(i, n) == [k \in 1..n |-> [is |-> "data", of |-> i, n |-> 0]]
Line(is, i, n) == <<[is |-> is, of |-> i, n |-> n]>>

Pieces(i, cs) ==
    [k \in DOMAIN cs |-> Line("size", i, cs[k]) \o Bytes(i, cs[k]) \o Line("empty", i, 0)]
ChunksOf(i, cs) == Join(Pieces(i, cs)) \o Line("size", i, 0) \o Line("empty", i, 0)

\* A browser may put an empty line after a body.
Message(r, i) ==
    Line("head", i, 0) \o (CASE r.form = "none"   -> <<>>
                             [] r.form = "length" -> Bytes(i, r.chunks[1]) \o Line("empty", i, 0)
                             [] OTHER             -> ChunksOf(i, r.chunks))
Wire(p) == Join([i \in DOMAIN p |-> Message(p[i], i)])

Arrived == SubSeq(Wire(pipeline), 1, cut)
More    == taken < cut
NextTok == Arrived[taken + 1]

-----------------------------------------------------------------------------
Waiting == [pc |-> "head", req |-> 0, left |-> 0, done |-> TRUE, keep |-> TRUE, reads |-> 0]

ConnTypeOK ==
    /\ taken \in 0..cut /\ cut \in 0..Len(Wire(pipeline))
    /\ conn.pc \in {"head", "handler", "discard", "answer", "closed"}
    /\ conn.req \in 0..Len(pipeline) /\ conn.left \in Nat /\ conn.reads \in 0..DiscardReads

ConnInit ==
    /\ pipeline \in Pipelines /\ cut \in 0..Len(Wire(pipeline))
    /\ taken = 0 /\ conn = Waiting /\ got = <<>> /\ handled = <<>> /\ answered = <<>>
    /\ serving = TRUE

Close == conn' = [conn EXCEPT !.pc = "closed"]

\* readLine() of a request line: empty lines are passed over; the reader of the body
\* is chosen and the handler called.
ReadHead ==
    /\ conn.pc = "head"
    /\ \/ /\ serving /\ More /\ NextTok.is = "empty"
          /\ taken' = taken + 1 /\ UNCHANGED <<conn, got, handled>>
       \/ /\ serving /\ More /\ NextTok.is # "empty"
          /\ LET i == NextTok.of
                 r == pipeline[i]
             IN conn' = [pc |-> "handler", req |-> i, keep |-> r.keep, reads |-> 0,
                         left |-> IF r.form = "length" THEN r.chunks[1] ELSE 0,
                         done |-> r.form = "none"]
          /\ handled' = Append(handled, NextTok)
          /\ taken' = taken + 1 /\ got' = <<>>
       \/ /\ ~serving \/ ~More
          /\ Close /\ UNCHANGED <<taken, got, handled>>
    /\ UNCHANGED <<pipeline, cut, answered, serving>>

\* One read() of the body: [n, taken, left, done]; n < 0 as in the code when the
\* connection fails.
LengthRead(n) ==
    IF taken = cut THEN [n |-> -1, taken |-> taken, left |-> conn.left, done |-> FALSE]
    ELSE [n |-> n, taken |-> taken + n, left |-> conn.left - n, done |-> conn.left = n]

\* ChunkedBodyReader::read(): a size line, past the empty one that ends the chunk
\* before it; then some bytes, and the empty line once the chunk is used up.
ChunkedRead(n) ==
    LET skip  == IF taken < cut /\ NextTok.is = "empty" THEN 1 ELSE 0
        at    == taken + (IF conn.left = 0 THEN skip + 1 ELSE 0)
        size  == IF conn.left > 0 THEN conn.left ELSE IF at > cut THEN 0 ELSE Arrived[at].n
        fails == [n |-> -1, taken |-> cut, left |-> conn.left, done |-> FALSE]
    IN IF at > cut \/ (conn.left = 0 /\ Arrived[at].is # "size") THEN fails
       ELSE IF size = 0
       THEN [n |-> 0, taken |-> IF at < cut THEN at + 1 ELSE at, left |-> 0, done |-> TRUE]
       ELSE IF at = cut THEN [fails EXCEPT !.left = size]
       ELSE [n |-> n, left |-> size - n, done |-> FALSE,
             taken |-> IF size = n /\ at + n < cut THEN at + n + 1 ELSE at + n]

\* What read() may return: up to what is asked for, what the reader may still take and
\* what has arrived.
Reads ==
    IF conn.done THEN {[n |-> 0, taken |-> taken, left |-> 0, done |-> TRUE]}
    ELSE LET form == pipeline[conn.req].form
             try(n) == IF form = "length" THEN LengthRead(n) ELSE ChunkedRead(n)
             fits(n) == LET x == try(n)
                        IN x.n <= 0 \/ (x.left >= 0 /\ x.taken <= cut)
         IN {try(n) : n \in {k \in 1..ReadSize : fits(k)}}

TakeFrom(x) ==
    /\ taken' = x.taken
    /\ LET q == SubSeq(Arrived, taken + 1, x.taken)
       IN got' = got \o Those(q, {t \in Elems(q) : t.is \notin {"size", "empty"}})

\* The handler reads some of the body, all of it or nothing, and returns or throws.
HandlerReads ==
    /\ conn.pc = "handler" /\ ~conn.done
    /\ \E x \in Reads :
          /\ TakeFrom(x)
          /\ conn' = IF x.n > 0 THEN [conn EXCEPT !.left = x.left, !.done = x.done]
                     ELSE [conn EXCEPT !.left = x.left, !.done = x.done, !.pc = "discard"]
    /\ UNCHANGED <<pipeline, cut, handled, answered, serving>>
HandlerReturns ==
    /\ conn.pc = "handler" /\ conn' = [conn EXCEPT !.pc = "discard"]
    /\ UNCHANGED <<pipeline, cut, taken, got, handled, answered, serving>>

DiscardGivesUp ==
    /\ conn.pc = "discard"
    /\ IF conn.done \/ conn.reads = DiscardReads
       THEN conn' = [conn EXCEPT !.pc = "answer"] /\ UNCHANGED <<taken, got>>
       ELSE \E x \in Reads :
               /\ TakeFrom(x)
               /\ conn' = [conn EXCEPT !.left = x.left, !.done = x.done, !.reads = @ + 1,
                              !.pc = IF x.n > 0 THEN "discard" ELSE "answer",
                              !.keep = @ /\ (x.n > 0 \/ x.done)]
    /\ UNCHANGED <<pipeline, cut, handled, answered, serving>>

\* The rest of the body is read and thrown away; a connection that still has some of
\* it is not kept.
Discard ==
    /\ conn.pc = "discard"
    /\ IF conn.done \/ conn.reads = DiscardReads
       THEN /\ conn' = [conn EXCEPT !.pc = "answer", !.keep = @ /\ conn.done]
            /\ UNCHANGED <<taken, got>>
       ELSE \E x \in Reads :
               /\ TakeFrom(x)
               /\ conn' = [conn EXCEPT !.left = x.left, !.done = x.done, !.reads = @ + 1,
                              !.pc = IF x.n > 0 THEN "discard" ELSE "answer",
                              !.keep = @ /\ (x.n > 0 \/ x.done)]
    /\ UNCHANGED <<pipeline, cut, handled, answered, serving>>

\* The answer goes out whole, and the connection is used again if both sides keep it;
\* or sending fails, perhaps half way through a streamed body.
Respond ==
    /\ conn.pc = "answer"
    /\ \E closes \in BOOLEAN :
          conn' = IF conn.keep /\ ~closes THEN Waiting ELSE [conn EXCEPT !.pc = "closed"]
    /\ answered' = Append(answered, conn.req)
    /\ UNCHANGED <<pipeline, cut, taken, got, handled, serving>>
RespondFails ==
    /\ conn.pc = "answer" /\ Close
    /\ UNCHANGED <<pipeline, cut, taken, got, handled, answered, serving>>

StopServing ==
    /\ serving /\ serving' = FALSE
    /\ UNCHANGED <<pipeline, cut, taken, conn, got, handled, answered>>

ConnNext == \/ ReadHead \/ HandlerReads \/ HandlerReturns \/ Discard \/ Respond
            \/ RespondFails \/ StopServing

ConnSpec == ConnInit /\ [][ConnNext]_connVars

-----------------------------------------------------------------------------
(* Properties *)

\* The two ends never lose count: what is parsed as a request is the head of the next
\* request the client sent, whatever the handlers before it left unread and however
\* the body was cut up; the readers of a request return bytes of its own body only,
\* in full when they report it complete; every answer is to the oldest request not yet
\* answered; and nothing is read after a request that was not to be followed.
ConnInStep ==
    /\ \A k \in DOMAIN handled : handled[k].is = "head" /\ handled[k].of = k
    /\ conn.req # 0 => \A k \in DOMAIN got : got[k].is = "data" /\ got[k].of = conn.req
    /\ conn.pc \in {"discard", "answer"} /\ conn.done =>
          LET r == pipeline[conn.req]
          IN Len(got) = IF r.form = "none" THEN 0 ELSE Sum(r.chunks)
    /\ \A k \in DOMAIN answered : answered[k] = k
    /\ Len(handled) - Len(answered) \in {0, 1}
    /\ \A k \in DOMAIN handled : k < Len(handled) => pipeline[handled[k].of].keep
=============================================================================
